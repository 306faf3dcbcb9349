SPECIFICATION Spec
CONSTANTS
  Top = 2
  Round <- MCRound
  Quot <- MCQuot
  Rsqrt <- MCRsqrt
  Regs = {0, 1}
  Words <- MCWords
  Loads <- MCLoads
  Gqrs = {}
  Careful = FALSE
INVARIANTS ScalarsAcceptPairs
