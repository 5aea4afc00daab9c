SPECIFICATION PipeSpec
CONSTANTS
  Stripes <- SmallStripes
  DagOf <- MCDagOf
  EcnOf <- MCEcnOf
  EcwOf <- MCEcwOf
  FailedOf <- MCFailedOf
  ColoringsOf <- PipeColoringsOf
  Fail2Repair <- MCFail2Repair
  TaskLen = 20
  ComputeLen = 16
  AgentLen = 8
  NameLen = 12
  PktNum = 3
  Window = 1
INVARIANTS PipeTypeOK FilesAreRepaired
PROPERTY ThreadsEnd
CHECK_DEADLOCK FALSE
