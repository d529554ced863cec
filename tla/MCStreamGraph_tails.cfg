SPECIFICATION Spec
CONSTANTS
  NodePlan <- TailPlans
  MaxNodes = 3
  MaxStored = 3
  MaxOutputs = 1
  MaxGraphDepth = 3
  MaxLiveBytes = 13
  OutLen <- OutLenBy
  HeaderCounts = {1}
INVARIANTS
  FinalStreamsAreGraphValues
  LiveBytesExact
CHECK_DEADLOCK FALSE
