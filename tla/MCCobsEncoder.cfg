\* Blocks of at most 3 data bytes; strings of up to two full blocks and more.
SPECIFICATION Spec
CONSTANTS
  Full = 4
  Byte = {0, 1, 4}
  MaxLen = 7
  MaxCap = 11
  Inputs <- MCInputs
  OutCaps <- MCOutCaps
INVARIANTS
  LoopInv
  StaysInBuffer
  RoomSuffices
  NoDelimiterInside
  RoundTrip
