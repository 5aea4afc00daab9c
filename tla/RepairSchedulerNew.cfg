SPECIFICATION Spec
CONSTANTS
  Nodes <- MCNodes
  Stripes = {"a", "b", "c"}
  Placement <- MCPlacement
  Tolerance = 2
  Traces <- MCTraces
  Predictors <- MCPredictors
INVARIANTS LossIsUnavoidable EveryFailureIsRepaired RoundsAreSound
CHECK_DEADLOCK FALSE
