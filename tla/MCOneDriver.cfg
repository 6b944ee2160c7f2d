\* One client starts and stops, the other observes; the dispatcher answers
\* within 500 ms.
SPECIFICATION Spec
CONSTANTS
  c1 = c1
  c2 = c2
  Clients = {c1, c2}
  Jobs = {j1, j2}
  Nobody = Nobody
  Main = Main
  Payloads = {p1}
  Bauds <- MCBauds
  DefaultBaud = 115200
  Issues <- DriverAndObserver
  MaxAbandoned = 0
  Driver = c1
INVARIANTS
  TypeOK
  DriverInv
  CancelledByStop
  RunningHasJob
  JobsExclusive
  ShutdownOrderly
PROPERTIES
  StopIsEffective
  FinishEndsTheJob
  RunningEnds
