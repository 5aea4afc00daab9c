SPECIFICATION Spec
CONSTANTS
  n1 = n1
  n2 = n2
  n3 = n3
  s1 = s1
  s2 = s2
  s3 = s3
  Nodes <- MCNodes
  Stripes <- MCStripes
  NumBatches = 2
  StripesOf <- MCStripesOf
  TaskNum <- MCTaskNum
  FeedersOf <- MCFeedersOf
  Window = 1
INVARIANTS TypeOK OneBatchAtATime CommandsArrive
PROPERTIES AllBatchesDone BarrierSpec
CHECK_DEADLOCK FALSE
