SPECIFICATION OfflineSpec
CONSTANTS
  Groups <- Names
  DagOf <- MCDagOf
  EcnOf <- MCEcnOf
  EckOf <- MCEckOf
  EcwOf <- MCEcwOf
  FailedOf <- MCFailedOf
  StartsOf <- MCStartsOf
  ProgramsOf <- MCProgramsOf
  MaxAttempts = 2
  StripesOn <- MCStripesOn
  FailNodesOf <- MCFailNodesOf
  NumAgents = 8
  BatchSize = 2
  Radix = 3
INVARIANTS CurveIsRight NothingIsMissed AnswerIsUsed
PROPERTY SearchProgresses
CHECK_DEADLOCK FALSE
