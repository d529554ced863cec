SPECIFICATION Spec
CONSTANTS
  MaxPooledBuffers = 2
  MaxPooledBytes = 3
  Byte = {1, 2}
  Frames <- AllFrames
  MaxDecoded = 3
  ExemptBytes = 1
  MaxRatio = 2
  MaxUsize = 9
  MaxCalls = 2
INVARIANTS
  PoolAccounted
  PoolWithinCaps
  DecodeInv
  SinkSeesVerifiedPrefix
  OutputRestoredOrComplete
PROPERTIES
  ImplementsAtomicDecode
CHECK_DEADLOCK FALSE
