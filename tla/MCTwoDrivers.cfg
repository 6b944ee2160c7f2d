\* Two clients start and stop concurrently; one task may be abandoned.
SPECIFICATION Spec
CONSTANTS
  c1 = c1
  c2 = c2
  Clients = {c1, c2}
  Jobs = {j1}
  Nobody = Nobody
  Main = Main
  Payloads = {p1}
  Bauds <- MCBauds
  DefaultBaud = 115200
  Issues <- TwoDrivers
  MaxAbandoned = 1
INVARIANTS
  FinishFollowsResult
  AcceptedHasJob
PROPERTIES
  ImplementsJobService
  JobsEnd
  RequestsAnswered
