SPECIFICATION Spec
CONSTANTS
  ByteValues = 2
  WordBytes = 2
  NRegs = 3
  FRegs = {0}
  PageSize = 2
  MaxString = 4
  Programs <- MCPrograms
  ToDouble <- MCToDouble
  ToSingle <- MCToSingle
  NoInst = NoInst
INVARIANTS TypeOK FaultsBounded FormsAgree
PROPERTIES Restartable AllOrNothing WritesEntitled
