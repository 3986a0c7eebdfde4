CONSTANTS
  a = a  b = b  x = x  y = y
  InitialTexts <- Files
  Inserts <- Typed
  InputBytes = {2}
  WordSize = 16
  MaxEdits = 2
  MaxCarets = 2
  MaxLength = 4
SPECIFICATION Spec
INVARIANTS UndoReverts
CHECK_DEADLOCK FALSE
