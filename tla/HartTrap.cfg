SPECIFICATION GroupSpec
CONSTANTS
  AddrSpace = 8
  UnitTest = TRUE
  Lines = {"SEI"}
  PlainOps = {"illegal", "ecall", "ebreak", "mret", "sret", "sfence"}
  Faults = {"LoadPageFault"}
  JumpTargets = {2}
  CsrAccesses <- AllAccesses
INVARIANTS TypeOK TrapThenReturnRestores
PROPERTIES ExceptionContextSurvives RisesOnlyThroughVector LowerModesKeepMachineState
