SPECIFICATION Spec
CONSTANTS
  NodePlan <- ChainPlans
  MaxNodes = 2
  MaxStored = 2
  MaxOutputs = 1
  MaxGraphDepth = 2
  MaxLiveBytes = 2
  OutLen <- OutLenBy
  HeaderCounts = {1}
INVARIANTS
  StreamsHoldAtMostTheLimit
CHECK_DEADLOCK FALSE
