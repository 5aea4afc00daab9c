SPECIFICATION Spec
CONSTANTS
  NumBatches = 3
  Solutions = {"parallel"}
INVARIANT RepairIsComplete
CHECK_DEADLOCK FALSE
