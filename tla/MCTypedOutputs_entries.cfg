SPECIFICATION Spec
CONSTANTS
  Byte = {1, 2}
  Frames <- TypedFrames
  MaxDecoded = 12
  ExemptBytes = 4
  MaxRatio = 4
INVARIANT
  ErrorLeavesEntryPerOutput
