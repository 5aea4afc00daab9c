SPECIFICATION Spec
CONSTANTS
  NumBatches = 5
  Solutions = {"centralize", "offline", "parallel"}
INVARIANTS TypeOK InOrder NothingLeftBehind
PROPERTIES AllRepaired RelaySpec
CHECK_DEADLOCK FALSE
