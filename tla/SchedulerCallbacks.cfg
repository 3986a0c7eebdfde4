CONSTANTS
  main = main
  other = other
  c1 = c1
  c2 = c2
  c3 = c3
  NoCallback = NoCallback
  Main = main
  Threads <- TwoThreads
  Callbacks <- ThreeCallbacks
SPECIFICATION FairSpec
INVARIANTS CallbackInv
PROPERTIES QueueSpec PostedCallbackRuns
CHECK_DEADLOCK FALSE
