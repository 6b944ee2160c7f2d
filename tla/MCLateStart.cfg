\* A START_JOB that was answered 503 is executed later.
SPECIFICATION Spec
CONSTANTS
  c1 = c1
  c2 = c2
  Clients = {c1, c2}
  Jobs = {j1, j2}
  Nobody = Nobody
  Main = Main
  Payloads = {p1}
  Bauds <- MCBauds
  DefaultBaud = 115200
  Issues <- DriverAndObserver
  MaxAbandoned = 1
INVARIANTS
  RunningHasJob
