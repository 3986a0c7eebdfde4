CONSTANTS
  None = None
  Tab = {a, b, c}
  Host = {f, g, h}
  Window = {k}
  Split = {q, r}
  MaxObjects = 5
SPECIFICATION Spec
INVARIANT ZOrderDescending
CHECK_DEADLOCK FALSE
