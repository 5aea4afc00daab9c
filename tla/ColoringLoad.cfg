SPECIFICATION Spec
CONSTANTS
  Batches <- AllBatches
  LonelyBatches <- AllLonelyBatches
  RawStripes <- MCRawStripes
  DagOf <- MCDagOf
  ParentOrderOf <- MCParentOrderOf
  EcnOf <- MCEcnOf
  EcwOf <- MCEcwOf
  PlacementOf <- MCPlacementOf
  FailedNodes <- MCFailedNodes
  NumAgents = 8
  ClusterSize = 10
  Methods = {0, 1, 2}
  Scenarios = {"standby", "scatter"}
INVARIANTS TypeOK TablesAreExact RepairedApart
PROPERTY KeptIsBest
CHECK_DEADLOCK FALSE
