\* One command, with a timeout_ms that may not fit an int.
SPECIFICATION Spec
CONSTANTS
  Threads = {t1}
  Messages <- Starts
  Jobs = {j1}
  Payloads = {p1}
  IntMax = 4
  MaxSent = 1
  MaxDrops = 0
  MaxRestarts = 0
  None = None
INVARIANT
  DocumentedTimeouts
