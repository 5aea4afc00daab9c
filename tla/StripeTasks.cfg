SPECIFICATION Spec
CONSTANTS
  Stripes <- TaskStripes
  DagOf <- MCDagOf
  EcnOf <- MCEcnOf
  EcwOf <- MCEcwOf
  FailedOf <- MCFailedOf
  ColoringsOf <- MCColoringsOf
  Fail2Repair <- MCFail2Repair
  TaskLen = 20
  ComputeLen = 16
  AgentLen = 8
  NameLen = 12
INVARIANTS TypeOK QueuesArePaired AllPersisted
PROPERTY TasksArrive
CHECK_DEADLOCK FALSE
