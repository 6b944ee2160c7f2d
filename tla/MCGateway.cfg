\* Two commands, or one delivered twice; a lost connection and a restart of qr-c.
SPECIFICATION Spec
CONSTANTS
  Threads = {t1, t2}
  Messages <- MCMessages
  Jobs = {j1, j2}
  Payloads = {p1}
  IntMax = 4
  MaxSent = 2
  MaxDrops = 1
  MaxRestarts = 1
  None = None
INVARIANTS
  TypeOK
  ResultIsTrue
  OneJobPerDelivery
  SilentJobHadNoReply
  TimeoutInRange
PROPERTIES
  CommandsAnswered
  ListensAgain
