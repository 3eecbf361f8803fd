SPECIFICATION AluSpec
CONSTANTS
  Bits = 4
  Imms <- MCImms
INVARIANTS
  PortableIsHigh
  MulhIsHigh
  DivisionsAgree
  WordsAreNarrowed
  ImmediatesAgree
  BranchesAgree
  AmoWordsAgree
