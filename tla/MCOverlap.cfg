\* Calls of JobRunner::start and JobRunner::stop overlap.
SPECIFICATION Spec
CONSTANTS
  c1 = c1
  c2 = c2
  Clients = {c1, c2}
  Jobs = {j1, j2}
  Nobody = Nobody
  Main = Main
  Payloads = {p1}
  Bauds <- MCBauds
  DefaultBaud = 115200
  Issues <- TwoDrivers
  MaxAbandoned = 0
INVARIANTS
  DocumentedStopReplies
