\* Two counters, one attempt misaligned; three increments, three traps.
SPECIFICATION FairSpec
CONSTANTS
  Counters = {0, 8}
  Attempts <- Mixed
  Scratch = 16
  MaxIncs = 3
  MaxTraps = 3
INVARIANT NoLostUpdate
PROPERTIES ScPairs IncrementsEnd
