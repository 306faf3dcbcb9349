SPECIFICATION Spec
CONSTANTS
  Size = 3
  MaxLen = 2
  Lines <- MCLines
  Values = {v0, v1}
  ResetLine = 0
  Careful = TRUE
INVARIANTS Delivered
PROPERTIES ImplementsStream
