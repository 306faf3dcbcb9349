SPECIFICATION Spec
CONSTANTS
  Size = 4
  MaxLen = 3
  Lines <- MCLines
  Values = {v0}
  ResetLine = 0
  Careful = FALSE
INVARIANTS BneExact
