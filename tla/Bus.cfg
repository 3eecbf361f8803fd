\* Bytes of three bits, a memory of 12 bytes, two harts, one context with two
\* devices and the unused source 0.
SPECIFICATION Spec
CONSTANTS
  Base = 8
  Harts = 2
  DramSize = 12
  Devices = 2
  kWordBits = 12
  MaxPriority = 4095
  Contexts = {0}
  Order <- MCOrder
  Layout <- MCLayout
  Sessions <- MCSessions
INVARIANTS
  BusTypeOK
  ScanIsBest
PROPERTIES
  ImplementsByteMemory
