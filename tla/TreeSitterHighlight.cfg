CONSTANTS
  t1 = t1
  t2 = t2
  NoTask = NoTask
  Tasks <- TwoTasks
  NumWorkers = 2
  MaxVersion = 1
SPECIFICATION FairSpec
INVARIANTS TagLifetimeInv
PROPERTIES VersionsInOrder MainReturns HighlightCatchesUp
CHECK_DEADLOCK FALSE
