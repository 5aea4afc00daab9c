SPECIFICATION Spec
CONSTANTS
  Nodes <- MCNodes
  Stripes = {"wide", "narrow"}
  Placement <- MCPlacement
  Tolerance = 2
  Traces <- MCTraces
INVARIANTS TypeOK WaitingIsTolerated LossIsUnavoidable EveryFailureIsRepaired
CHECK_DEADLOCK FALSE
