SPECIFICATION Spec
CONSTANTS
  Top = 2
  Round <- MCRound
  Quot <- MCQuot
  Rsqrt <- MCRsqrt
  Regs = {0, 1}
  Words <- MCWords
  Loads <- MCLoads
  Gqrs = {0, 1, 7, 8, 31, 32, 62, 63}
  Careful = TRUE
INVARIANTS ReadsAsPromised QuantizedBack
