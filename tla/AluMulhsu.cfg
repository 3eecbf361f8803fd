SPECIFICATION AluSpec
CONSTANTS
  Bits = 4
  Imms <- MCImms
INVARIANT
  MulhsuIsHigh
