SPECIFICATION Spec
CONSTANTS
  Bits = 8
  Base = 2
  Sessions <- MCSessions
INVARIANTS
  TranslationCorrect
  HostRestored
  DecodesBack
