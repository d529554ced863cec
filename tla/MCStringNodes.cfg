SPECIFICATION Spec
CONSTANTS
  Calls <- SomeJobs
  MaxBytes = 6
  MaxStreams = 3
  CopyChunk = 2
  CsvPattern <- Row
  CsvSources = 3
INVARIANTS
  RestoresStrings
  ChecksSuffice
CHECK_DEADLOCK FALSE
