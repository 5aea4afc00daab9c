SPECIFICATION Spec
CONSTANTS
  ClusterSize = 3
  Stripes = {1, 2, 3, 4, 5}
  BatchSize = 2
  HyperLoads <- MCHyperLoads
  MultiLoads <- MCMultiLoads
  Generators = {"new", "random", "fire", "fireNew"}
  Methods = {0, 1}
  Iterations = 2
INVARIANTS StripesArePlaced TablesAreTotal BestIsBest
PROPERTY ImplementsPlan
CHECK_DEADLOCK FALSE
