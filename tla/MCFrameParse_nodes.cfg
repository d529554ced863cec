SPECIFICATION Spec
CONSTANTS
  Versions <- AllVersions
  FieldValues <- AllValues
  Available <- Ids
  MaxFrameBytes = 24
  MaxDecodedBytes = 3
  MaxChunks = 2
  MaxNodes = 3
  MaxStreams = 3
  MaxTransformHeaderBytes = 3
  MaxStoredStreamBytes = 2
  MaxBufferBytes = 2
  MaxGraphDepth = 1
  MaxDictsPerBundle = 1
  MaxCommentBytes = 3
INVARIANT
  NodesLimitedPerChunk
CHECK_DEADLOCK FALSE
