\* A frame arrives in small pieces.
SPECIFICATION Spec
CONSTANTS
  Full = 4
  DevicePayloads <- MCPayloads
  EncSize = 6
  LineMax = 7
  Timeout = 5
  Step = 2
  Pause = 1
  Reopen = 3
  BufSize = 5
  MaxFrame = 4
  Prefix <- MCPrefix
  MaxInterrupts = 0
INVARIANTS
  ReadsUntilTimeout
