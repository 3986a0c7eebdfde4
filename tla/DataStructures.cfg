CONSTANTS
  MaxSize = 7
  MaxKey = 2
  ByteValue = {a, b}
  MaximumBytesPerChunk = 3
  MaxText = 6
  Value = {c, d}
  MaxLength = 4
  MaxInserted = 2
  MaxCarets = 3
  MaxRanges = 3
  LeadLength = 3
  MaximumCodepointsPerChunk = 2
  MaxBytes = 4
  MaxIterations = 1000
SPECIFICATION DataSpec
INVARIANTS HoldsText CaretsFollow RangesFollow MatchesFullDecode MatchIsExact
PROPERTIES HeapKept ReportIsExact
CHECK_DEADLOCK FALSE
