\* Two submitters and two concurrent stop() calls.
SPECIFICATION Spec
CONSTANTS
  Clients = {c1, c2}
  Stoppers = {s1, s2}
  Nobody = Nobody
  Submissions <- MCSubmissions
INVARIANTS
  TypeOK
  NoLostWakeup
  PromiseInv
PROPERTIES
  DrainedAtExit
  ImplementsSerialCore
  EveryTaskAnswered
  StopReturns
