SPECIFICATION Spec
CONSTANT Tests <- NarrowField
INVARIANT RepairedIsLost
CHECK_DEADLOCK FALSE
