SPECIFICATION Spec
CONSTANTS
  AddrSpace = 4
  UnitTest = FALSE
  Lines = {"MTI", "SEI"}
  PlainOps = {"retire", "ecall", "mret", "sret", "wfi"}
  Faults = {}
  JumpTargets = {}
  CsrAccesses <- IrqAccesses
INVARIANTS NoDeliverableLeft
PROPERTIES SoftwarePendingKept StallUntilPending
