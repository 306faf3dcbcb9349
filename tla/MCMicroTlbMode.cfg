SPECIFICATION Spec
CONSTANTS
  NSegs = 1
  SegPages = 2
  NBats = 1
  UpperBats = FALSE
  NSlots = 1
  Groups <- MCGroups
  Pteg <- MCPteg
  Sdr1s <- MCOneTable
  Srs <- MCOneSr
  BatUs <- MCNoBatUs
  BatLs <- MCBatLs
  Ptes <- MCOnePte
  Hids <- MCHids
  Msrs <- MCBoth
  Kinds = {"load"}
  ResetSdr1 = 0
  ResetSr <- MCReset
  ResetBatU <- MCNoBatU
  ResetBatL <- MCBatL
  TlbSize = 1
  Careful = TRUE
  Setters = TRUE
INVARIANTS DisabledMeansDisabled
