SPECIFICATION Spec
CONSTANTS
  Unit = 2
  Top = 6
  Prefix = 2
  Fields = 2
  FieldWidth = 2
  Vector <- MCVector
  Offsets = {4}
  Values = {1, 4}
  Targets = {0, 4}
  Words = {6, 9}
  Tested = {1, 2}
  CrArgs <- MCCrArgs
  Msrs <- MCMsrs
  Scratch <- MCScratch
  MaxDepth = 2
INVARIANTS RunsAsAlone
