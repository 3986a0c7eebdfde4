CONSTANTS
  d1 = d1
  Docs = {d1}
  MaxText = 2
  MaxChanges = 2
  MaxVersion = 2
  MaxOpens = 2
  MaxRequests = 3
  PipeCapacity = 3
SPECIFICATION FairSpec
INVARIANTS RequestsInv ServerInSync
PROPERTIES RepliesAreCurrent DiagnosticsInOrder ShutdownReturns TokensCatchUp
CHECK_DEADLOCK FALSE
