SPECIFICATION Spec
CONSTANTS
  Jobs <- SomeJobs
  Tokens <- SomeTokens
  MaxTokens = 2
  MaxOutput = 8
  CopyChunk = 2
  MinOffset = 2
  Escape = 2
INVARIANTS
  TypeOK
  DecodesAsDefined
  NothingFromBefore
  MatchRepeats
  ReservesOnce
PROPERTY
  EveryCallEnds
CHECK_DEADLOCK FALSE
