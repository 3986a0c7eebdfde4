CONSTANTS
  t1 = t1
  t2 = t2
  t3 = t3
  t4 = t4
  e1 = e1
  e2 = e2
  NoTask = NoTask
  Tasks <- FourTasks
  Elements <- TwoElements
  MaxTime = 1
  MayCancelSelf = TRUE
SPECIFICATION Spec
SYMMETRY Symmetry
PROPERTIES ReturnAppliesToRunning
CHECK_DEADLOCK FALSE
