SPECIFICATION Spec
CONSTANT Tests <- RepairedTests
INVARIANTS
  TypeOK
  RepairedIsLost
  SharedNumbersAgree
  ReadsAreRight
CHECK_DEADLOCK FALSE
