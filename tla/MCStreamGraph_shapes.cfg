SPECIFICATION Spec
CONSTANTS
  NodePlan <- ShapePlans
  MaxNodes = 3
  MaxStored = 3
  MaxOutputs = 2
  MaxGraphDepth = 2
  MaxLiveBytes = 100
  OutLen <- OutLenBy
  HeaderCounts = {1, 2, 3}
INVARIANTS
  NoGraphFault
  SingleNodeShortcutAgrees
  DepthBounded
  GraphInv
CHECK_DEADLOCK FALSE
