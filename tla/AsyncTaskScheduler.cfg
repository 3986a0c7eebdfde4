CONSTANTS
  main = main
  other = other
  w1 = w1
  w2 = w2
  t1 = t1
  t2 = t2
  NoTask = NoTask
  Main = main
  Clients <- TwoClients
  Workers <- TwoWorkers
  Tasks <- TwoTasks
SPECIFICATION FairSpec
INVARIANTS SemaphoreInv TaskHasOnePlace
PROPERTIES PoolSpec QuietAfterJoin AcceptedTaskEnds CallsReturn
CHECK_DEADLOCK FALSE
