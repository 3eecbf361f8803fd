\* Sessions of output, of input, of interrupts and of time.
SPECIFICATION Spec
CONSTANTS
  Devices = 2
  kWordBits = 4
  Contexts = {0, 1}
  MaxPriority = 2
  Base = 2
  Chars = {0, 3, 10, 13, 65, 255}
  Keys = {10, 65}
  Sessions <- MCSessions
INVARIANTS
  RxInOrder
  TerminalCooked
  CtrlCOncePerSignal
  NoDoubleClaim
PROPERTIES
  TimeMonotone
