CONSTANTS
  a = a  b = b  x = x  y = y
  InitialTexts <- Files
  Inserts <- Typed
  InputBytes = {1}
  WordSize = 16
  MaxEdits = 2
  MaxCarets = 2
  MaxLength = 4
SPECIFICATION Spec
INVARIANTS BufferInv
PROPERTIES HistorySpec
CHECK_DEADLOCK FALSE
