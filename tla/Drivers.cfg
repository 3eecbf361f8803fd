SPECIFICATION DSpec
CONSTANTS
  Devices = 1
  kWordBits = 4
  Contexts = {0, 1}
  MaxPriority = 1
  Base = 2
  Chars = {0, 3, 13, 65}
  Keys = {65}
  SentChars = {13}
  Period = 2
  Sessions <- MCSessions
PROPERTIES
  EveryKeyArrives
  CtrlCFollows
  AckReturns
  NoSpuriousClaim
  NeverEarly
  DeadlineRings
