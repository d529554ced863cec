SPECIFICATION KernelSpec
CONSTANTS
  Byte <- MCByte
  Jobs <- MCJobs
  Values <- MCValues
  Rows <- MCRows
  RowOf <- MCRowOf
  RowSize = 2
  MinLength = 2
  LzMinLength = 3
  RepMinLength = 2
  MaxPredicted = 3
  MaxOutput = 11
  BitsPerByte = 2
  RegisterBytes = 4
  FirstTake = 4
  Sources <- MCSources
  Reads = {0,1,3,4,6,7,8,9}
  Inputs <- MCInputs
  ByteBits = 4
  WordBytes = 4
  VarBytes = 6
  VarLast = 1
  CodecMax = 28
  DirectLog = 2
  MaxPartitions = 6
  ExponentBits = 3
  FseLogs = {1, 2}
  BatchSize = 4
  BatchMaxLog = 12
  ByteLog = 3
  ZripLog = 2
  LargeLog = 3
  ValueCodes = 6
  ValueLog = 2
  PivcoLog = 3
  CodeBits = 16
  MaxBlock = 7
  MaxDepth = 2
  BufferMax = 30
INVARIANTS
  RolzInv
  RolzDecodesAsDefined
  BitsAsRead
  NumericAsDefined
  LayoutAsDefined
  EntropyAsDefined
CHECK_DEADLOCK FALSE
