CONSTANTS
  t1 = t1  t2 = t2  t3 = t3
  Tasks <- ThreeTasks
  NoTask = NoTask
  NumWorkers = 2
  MaxVersion = 2
SPECIFICATION PanelSpec
INVARIANTS PanelLifetimeInv ResultsAreCurrent
PROPERTIES SearchCatchesUp
CHECK_DEADLOCK FALSE
