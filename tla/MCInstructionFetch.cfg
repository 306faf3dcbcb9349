SPECIFICATION FetchSpec
CONSTANTS
  NSegs = 1
  SegPages = 2
  NBats = 1
  UpperBats = FALSE
  NSlots = 1
  Groups <- MCGroups
  Pteg <- MCPteg
  Sdr1s = {0}
  Srs <- MCSrs
  BatUs <- MCBatUs
  BatLs <- MCBatLs
  Ptes <- MCPtes
  Hids <- MCHids
  Msrs <- MCMsrs
  Kinds = {"fetch", "load"}
  ResetSdr1 = 0
  ResetSr <- MCSr
  ResetBatU <- MCBatU
  ResetBatL <- MCBatL
  TlbSize = 1
  Careful = TRUE
  Setters = TRUE
  PageBlocks = 1
  Lines = 1
  Code <- MCCode
  Permissive = TRUE
INVARIANTS HitsAgree FetchesRight ShortcutEntitled
PROPERTIES ImplementsMmu
