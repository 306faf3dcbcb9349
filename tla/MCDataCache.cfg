SPECIFICATION Spec
CONSTANTS
  NLines = 4
  NSlots = 2
  NWords = 1
  Values = {0, 1}
  Zero = 0
  MaxSnoop = 3
  Touched <- MCTouched
  LowPower <- MCLowPower
INVARIANTS WellFormed ProgramView MemoryView SnoopExact
PROPERTIES ImplementsCpuMemory
