\* One command, which starts a long job.
SPECIFICATION Spec
CONSTANTS
  Threads = {t1}
  Messages <- LongStart
  Jobs = {j1}
  Payloads = {p1}
  IntMax = 4
  MaxSent = 1
  MaxDrops = 0
  MaxRestarts = 0
  None = None
INVARIANT
  ResultMeansEnded
