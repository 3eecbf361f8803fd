------------------------------- MODULE Hart --------------------------------
(***************************************************************************)
(* One hart: CPU::Tick of src/cpu/cpu.cc with the system instructions of   *)
(* src/cpu/executor.cc.  A tick samples the interrupt lines into mip, runs *)
(* one instruction (or stalls in wfi), takes the trap the instruction      *)
(* raised and then, in the same tick, at most one interrupt.  Which        *)
(* instruction stands at pc is left open: every tick may run any           *)
(* instruction of Instructions.  Addresses wrap at AddrSpace, which stands *)
(* for 2^64.                                                               *)
(***************************************************************************)
EXTENDS Csr

CONSTANTS
  AddrSpace,     \* number of addresses; pc_ is a uint64_t in the code
  UnitTest,      \* TRUE for the build with -DUNIT_TEST
  Lines,         \* the interrupt lines the devices may raise
  PlainOps,      \* the instructions without operands, from AllPlainOps
  Faults,        \* the exceptions fetches, loads, stores and AMOs may raise
  JumpTargets,   \* where jumps and taken branches may lead
  CsrAccesses    \* the CSR instructions: [csr, op, val]

Address == 0 .. AddrSpace - 1

AllPlainOps ==
  {"retire", "illegal", "ecall", "ebreak", "mret", "sret", "wfi", "sfence"}

ASSUME HartAssumption ==
  /\ AddrSpace \in Nat \ {0}
  /\ PlainOps \subseteq AllPlainOps
  /\ UnitTest \in BOOLEAN
  /\ Lines \subseteq {"MEI", "SEI", "MSI", "MTI"}
  /\ Faults \subseteq Exceptions
  /\ JumpTargets \subseteq Address
  /\ \A a \in CsrAccesses :
       /\ a.csr \in CsrNames
       /\ a.op \in {"rw", "rs", "rc", "read"}
       /\ a.csr \in AddressCsrs =>
            a.op = "read" \/ (a.op = "rw" /\ a.val \in Address)

VARIABLES
  hart,   \* priv_mode_, pc_ and the registers of state_
  last    \* history: what the latest tick did (never read by an action)

vars == <<hart, last>>

-----------------------------------------------------------------------------
(* trap.cc, cpu.cc: traps and interrupts                                   *)

GetTrapPC(tvec, t) ==
  ((tvec \div 4) * 4 + 4 * kTrapToCauseTable[t] * (tvec % 4)) % AddrSpace

\* Does HandleTrap deliver trap t to S-mode?  Otherwise it goes to M-mode.
TrapToS(h, t) ==
  /\ h.priv # M
  /\ t \in (IF t \in Interrupts THEN h.mideleg ELSE h.medeleg)

\* Mutant: sie is not cleared on entry.
EnterS_KeepSie(h, t, epc) ==
  [h EXCEPT !.pc = GetTrapPC(h.stvec, t),
            !.sepc = epc,
            !.ms = SetBit(SetBit(@, "SPIE", "SIE" \in @),
                          "SPP", h.priv % 2 = 1),
            !.priv = S]

\* The S-mode half of HandleTrap.  spp has one bit: it keeps the mode mod 2.
EnterS(h, t, epc) ==
  [h EXCEPT !.pc = GetTrapPC(h.stvec, t),
            !.sepc = epc,
            !.ms = SetBit(SetBit(SetBit(@, "SPIE", "SIE" \in @),
                                 "SIE", FALSE),
                          "SPP", h.priv % 2 = 1),
            !.priv = S]

\* Mutant: mpie is read after mie has been cleared.
EnterM_LateMpie(h, t, epc) ==
  [h EXCEPT !.pc = GetTrapPC(h.mtvec, t),
            !.mepc = epc,
            !.ms = SetMpp(SetBit(SetBit(@, "MPIE", FALSE), "MIE", FALSE),
                          h.priv),
            !.priv = M]

\* Mutant: the vector of S-mode is used.
EnterM_Stvec(h, t, epc) ==
  [h EXCEPT !.pc = GetTrapPC(h.stvec, t),
            !.mepc = epc,
            !.ms = SetMpp(SetBit(SetBit(@, "MPIE", "MIE" \in @), "MIE", FALSE), h.priv),
            !.priv = M]

\* The M-mode half of HandleTrap.
EnterM(h, t, epc) ==
  [h EXCEPT !.pc = GetTrapPC(h.mtvec, t),
            !.mepc = epc,
            !.ms = SetMpp(SetBit(SetBit(@, "MPIE", "MIE" \in @),
                                 "MIE", FALSE),
                          h.priv),
            !.priv = M]

\* CPU::HandleTrap.
HandleTrap(h, t, epc) ==
  IF t = None THEN h
  ELSE IF TrapToS(h, t) THEN EnterS(h, t, epc)
  ELSE EnterM(h, t, epc)

\* InterruptBitsToTrap: MEI > MSI > MTI > SEI > SSI > STI.
Rank == [MEI |-> 1, MSI |-> 2, MTI |-> 3, SEI |-> 4, SSI |-> 5, STI |-> 6]

InterruptBitsToTrap(bits) ==
  IF bits = {} THEN None
  ELSE CHOOSE t \in bits : \A u \in bits : Rank[t] <= Rank[u]

\* Mutant: U-mode does not override mstatus.sie.
FinalInterrupt_SieInU(h) ==
  LET bits == h.mip \cap h.mie
      top  == InterruptBitsToTrap(bits)
  IN  IF h.priv = M
      THEN IF "MIE" \in h.ms THEN InterruptBitsToTrap(bits \ h.mideleg)
           ELSE None
      ELSE IF top \in h.mideleg => "SIE" \in h.ms THEN top ELSE None

\* The choice HandleInterrupt makes.
FinalInterrupt(h) ==
  LET bits == h.mip \cap h.mie
      top  == InterruptBitsToTrap(bits)
  IN  IF h.priv = M
      THEN IF "MIE" \in h.ms THEN InterruptBitsToTrap(bits \ h.mideleg)
           ELSE None
      ELSE IF \/ top \in h.mideleg /\ ("SIE" \in h.ms \/ h.priv < S)
              \/ top \notin h.mideleg /\ ("MIE" \in h.ms \/ h.priv < M)
           THEN top
           ELSE None

\* CPU::HandleInterrupt.  mip is written back from the value read before
\* HandleTrap, without the bit of the interrupt that was taken.
HandleInterrupt(h) ==
  LET t == FinalInterrupt(h)
  IN  [HandleTrap(h, t, h.pc) EXCEPT
         !.mip = h.mip \ {t},
         !.wfi = IF t = None THEN @ ELSE FALSE]

-----------------------------------------------------------------------------
(* executor.cc: the instructions that touch traps, modes and CSRs.  Each   *)
(* operator yields the new hart and the trap raised.  h.pc has already     *)
(* been advanced past the instruction.                                     *)

Done(h) == [hart |-> h, trap |-> None]
Raise(h, t) == [hart |-> h, trap |-> t]

\* JalTypeExec, JalrTypeExec, BranchTypeExec (taken).
JumpExec(h, to) ==
  IF UnitTest /\ to % 4 # 0 THEN Raise(h, "InstructionAddressMisaligned")
  ELSE Done([h EXCEPT !.pc = to])

\* The operand of a CSR instruction combined with the value read.
NewCsrVal(h, a) ==
  CASE a.op = "rs" -> Read(h, a.csr) \cup a.val
    [] a.op = "rc" -> Read(h, a.csr) \ a.val
    [] OTHER       -> a.val

\* CsrTypeExec.  "read" is CSRRS, CSRRC (or their immediate forms) with rs1 = 0.
CsrAllowed(h, a) ==
  /\ UnitTest \/ a.csr # "unlisted"
  /\ ~ (a.csr = "satp" /\ h.priv = S /\ "TVM" \in h.ms)
  /\ UnitTest => /\ CsrMode(a.csr) <= h.priv
                 /\ ~ (a.op # "read" /\ a.csr \in ReadOnlyCsrs)

CsrTypeExec(h, a) ==
  IF ~ CsrAllowed(h, a) THEN Raise(h, "IllegalInstruction")
  ELSE IF a.op = "read" THEN Done(h)
  ELSE Done(Write(h, a.csr, NewCsrVal(h, a)))

\* ECallExec: in the reserved mode the trap type stays kNone.
ECallExec(h) ==
  Raise(h, CASE h.priv = U -> "EcallU"
             [] h.priv = S -> "EcallS"
             [] h.priv = M -> "EcallM"
             [] OTHER      -> None)

\* SfenceVmaExec: the flush itself concerns the TLB only.
SfenceVmaExec(h) ==
  IF h.priv < S \/ (h.priv = S /\ "TVM" \in h.ms)
  THEN Raise(h, "IllegalInstruction")
  ELSE Done(h)

ReturnFromM(h) ==
  LET prev == Mpp(h.ms)
  IN  [h EXCEPT
         !.ms = SetBit(SetBit(SetBit(SetMpp(@, U), "MPIE", TRUE),
                              "MIE", "MPIE" \in @),
                       "MPRV", prev = M /\ "MPRV" \in @),
         !.priv = prev,
         !.pc = h.mepc]

MRetExec(h) ==
  IF h.priv < M THEN Raise(h, "IllegalInstruction") ELSE Done(ReturnFromM(h))

\* SRetExec: spp holds U or S, both below M, so mprv is always cleared.
SRetExec(h) ==
  IF h.priv < S \/ "TSR" \in h.ms THEN Raise(h, "IllegalInstruction")
  ELSE Done([h EXCEPT
         !.ms = SetBit(SetBit(SetBit(SetBit(@, "SPP", FALSE), "SPIE", TRUE),
                              "SIE", "SPIE" \in @),
                       "MPRV", FALSE),
         !.priv = IF "SPP" \in h.ms THEN S ELSE U,
         !.pc = h.sepc])

\* The WFI case of SystemTypeExec.
WfiExec(h) == Done([h EXCEPT !.wfi = @ \/ "TW" \in h.ms])

-----------------------------------------------------------------------------
(* cpu.cc: the tick                                                        *)

\* What may stand at pc.  "retire" is any instruction that completes
\* without touching the fields of hart, "fault" any fetch, load, store or
\* AMO that raises an exception, "illegal" a word that does not decode.
Instructions ==
  [op : PlainOps]
  \cup [op : {"fault"}, type : Faults]
  \cup [op : {"jump"}, to : JumpTargets]
  \cup [op : {"csr"}, acc : CsrAccesses]

Exec(h, i) ==
  CASE i.op = "retire"  -> Done(h)
    [] i.op = "illegal" -> Raise(h, "IllegalInstruction")
    [] i.op = "fault"   -> Raise(h, i.type)
    [] i.op = "jump"    -> JumpExec(h, i.to)
    [] i.op = "csr"     -> CsrTypeExec(h, i.acc)
    [] i.op = "ecall"   -> ECallExec(h)
    [] i.op = "ebreak"  -> Raise(h, "Breakpoint")
    [] i.op = "mret"    -> MRetExec(h)
    [] i.op = "sret"    -> SRetExec(h)
    [] i.op = "wfi"     -> WfiExec(h)
    [] i.op = "sfence"  -> SfenceVmaExec(h)

\* Mutant: only an interrupt that mstatus lets through ends the stall.
TickOperate_MaskedStall(h, i) ==
  IF h.wfi THEN Done(h) ELSE Exec([h EXCEPT !.pc = (@ + 4) % AddrSpace], i)

\* CPU::TickOperate: a stalled hart runs nothing; it leaves the stall when
\* an interrupt is pending and enabled, whatever mstatus says.
TickOperate(h, i) ==
  IF h.wfi THEN Done([h EXCEPT !.wfi = h.mie \cap h.mip = {}])
  ELSE Exec([h EXCEPT !.pc = (@ + 4) % AddrSpace], i)

\* Mutant: the lines overwrite the whole register.
UpdateMip_Whole(h, lines) == [h EXCEPT !.mip = lines]

\* The lines overwrite their four bits of mip; SSIP and STIP stay.
UpdateMip(h, lines) ==
  [h EXCEPT !.mip = (@ \cap {"SSI", "STI"}) \cup lines]

\* The rest of CPU::Tick, from the hart h whose mip is up to date.
RunTick(h, i) ==
  LET r == TickOperate(h, i)
      e == HandleTrap(r.hart, r.trap, h.pc)
  IN  /\ hart' = HandleInterrupt(e)
      /\ last' = [exc |-> r.trap, irq |-> FinalInterrupt(e),
                  mipWritten |-> ~ h.wfi /\ i.op = "csr"
                                 /\ i.acc.csr \in {"mip", "sip"}]

\* CPU::Tick(meip, seip, msip, mtip, true).
Tick(lines, i) == RunTick(UpdateMip(hart, lines), i)

\* CPU::Tick().
TickNoUpdate(i) == RunTick(hart, i)

\* CPU::CPU followed by the first instruction address, and CPU::Reset.
ResetHart ==
  [ priv |-> M, pc |-> 0, ms |-> {}, mie |-> {}, mip |-> {},
    mideleg |-> {}, medeleg |-> {}, mepc |-> 0, sepc |-> 0,
    mtvec |-> 0, stvec |-> 0, wfi |-> FALSE ]

Quiet == [exc |-> None, irq |-> None, mipWritten |-> FALSE]

Reset == hart' = ResetHart /\ last' = Quiet

Init == hart = ResetHart /\ last = Quiet

TickAny ==
  \E i \in Instructions :
    \/ \E lines \in SUBSET Lines : Tick(lines, i)
    \/ TickNoUpdate(i)

Next == TickAny \/ Reset

Spec == Init /\ [][Next]_vars

-----------------------------------------------------------------------------
(* Properties                                                              *)

HartType ==
  [ priv : U .. M, pc : Address, ms : SUBSET MstatusDesc,
    mie : SUBSET Interrupts, mip : SUBSET Interrupts,
    mideleg : SUBSET SupervisorIrqs, medeleg : SUBSET (Exceptions \ {"EcallM"}),
    mepc : Address, sepc : Address, mtvec : Address, stvec : Address,
    wfi : BOOLEAN ]

\* Every register holds a value its fields allow; in particular a machine
\* interrupt and the machine's own ecall are never delegated (the masks of
\* State::Write).
TypeOK ==
  /\ hart \in HartType
  /\ last \in [exc : Exceptions \cup {None}, irq : Interrupts \cup {None},
               mipWritten : BOOLEAN]

\* The interrupts that are pending and enabled and that neither the mode nor
\* mstatus masks: a delegated one is masked in M-mode, and in S-mode by sie;
\* any other is masked in M-mode only, by mie.
Deliverable(h) ==
  { t \in h.mip \cap h.mie :
      IF t \in h.mideleg THEN h.priv < S \/ (h.priv < M /\ "SIE" \in h.ms)
      ELSE h.priv < M \/ "MIE" \in h.ms }

\* A masked interrupt of higher rank stands before t.  Below M-mode
\* HandleInterrupt looks at the interrupt of highest rank alone, so if that
\* one is masked it does not come to t.
Shadowed(h, t) ==
  \E u \in (h.mip \cap h.mie) \ Deliverable(h) : Rank[u] < Rank[t]

\* Between ticks an interrupt that is pending, enabled and not masked waits for
\* two reasons only: this tick has taken one of higher rank (a tick takes one),
\* or it is an undelegated supervisor interrupt below M-mode behind a masked,
\* delegated one of higher rank.  All others have been taken by the
\* CPU::HandleInterrupt that ends each tick, after any instruction that changed
\* a mode or a mask.  (The second reason is the code's own: the privileged
\* architecture takes every unmasked interrupt for M-mode first.)
NoDeliverableLeft ==
  \A t \in Deliverable(hart) :
    \/ last.irq # None /\ Rank[last.irq] < Rank[t]
    \/ /\ t \in SupervisorIrqs \ hart.mideleg /\ hart.priv < M
       /\ Shadowed(hart, t)

\* The context of a synchronous exception survives the interrupt that the
\* same tick may take after it: the exception's xepc, previous mode and
\* previous enable bit are those of the state before the tick.
ExceptionContextSurvives ==
  [][ last'.exc # None =>
        IF TrapToS(hart, last'.exc)
        THEN /\ hart'.sepc = hart.pc
             /\ "SPP" \in hart'.ms <=> hart.priv % 2 = 1
             /\ "SPIE" \in hart'.ms <=> "SIE" \in hart.ms
        ELSE /\ hart'.mepc = hart.pc
             /\ Mpp(hart'.ms) = hart.priv
             /\ "MPIE" \in hart'.ms <=> "MIE" \in hart.ms ]_vars

\* A more privileged mode is entered only at its trap vector, with the cause
\* of the trap that entered it, or by CPU::Reset: no instruction, not even
\* MRET or SRET with guest-written previous-mode fields, raises the mode.
RisesOnlyThroughVector ==
  [][ hart'.priv > hart.priv =>
        \/ hart' = ResetHart
        \/ LET t == IF last'.irq # None THEN last'.irq ELSE last'.exc
               v == IF hart'.priv = M THEN hart'.mtvec ELSE hart'.stvec
           IN  /\ t # None
               /\ hart'.priv \in {S, M}
               /\ hart'.pc = GetTrapPC(v, t) ]_vars

\* From every reachable state in an architected mode, a trap followed at
\* once by the return instruction of the mode it went to restores the whole
\* hart, except the registers a trap to that mode overwrites and mprv.
\* (HandleTrap against MRetExec and SRetExec.)
TrapThenReturnRestores ==
  hart.priv # Reserved =>
    \A t \in Exceptions \cup Interrupts :
      LET h == HandleTrap(hart, t, hart.pc)
          r == IF h.priv = S THEN SRetExec(h) ELSE MRetExec(h)
          Kept(x) ==
            IF h.priv = S
            THEN [x EXCEPT !.sepc = 0, !.ms = @ \ {"SPIE", "SPP", "MPRV"}]
            ELSE [x EXCEPT !.mepc = 0,
                           !.ms = @ \ {"MPIE", "MPP0", "MPP1", "MPRV"}]
      IN  r.trap = None => Kept(r.hart) = Kept(hart)

\* A software-set pending bit (SSIP, STIP) leaves mip only when that very
\* interrupt is taken, when the guest writes mip or sip, or at CPU::Reset:
\* neither sampling the lines nor the write-back of mip at the end of
\* HandleInterrupt loses one.
PendingStays ==
  \A t \in {"SSI", "STI"} :
    t \in hart.mip /\ t \notin hart'.mip =>
      \/ last'.irq = t
      \/ last'.mipWritten
      \/ hart' = ResetHart

SoftwarePendingKept == [][PendingStays]_vars

MachineState(h) ==
  << h.ms \ (SstatusDesc \cup {"MPRV"}), h.mie \ kCsrSInterruptMask,
     h.mideleg, h.medeleg, h.mepc, h.mtvec >>

MachinePending(h) == h.mip \ kCsrSInterruptMask

\* With the access check compiled in (UNIT_TEST), code below M-mode never
\* changes machine-level state unless the tick enters M-mode by a trap, neither
\* through its own view of mstatus, mie and mip (sstatus, sie, sip) nor
\* otherwise; a machine interrupt becomes pending by its line alone.
LowerModesKeepMachineState ==
  [][ UnitTest /\ hart.priv < M /\ hart'.priv < M =>
        /\ MachineState(hart') = MachineState(hart)
        /\ \/ MachinePending(hart') = MachinePending(hart)
           \/ MachinePending(hart') \subseteq Lines ]_vars

\* A hart stalled in wfi does nothing but sample its lines, and stays stalled
\* only while no enabled interrupt is pending; it leaves the stall at the
\* first tick that finds one, even one that mstatus masks or that this very
\* tick takes, and for no other reason but CPU::Reset.
StallUntilPending ==
  [][ hart.wfi =>
        IF hart'.wfi
        THEN /\ hart'.mip \cap hart'.mie = {}
             /\ hart' = [hart EXCEPT !.mip = hart'.mip]
        ELSE \/ hart' = ResetHart
             \/ hart.mie \cap (hart'.mip \cup {last'.irq}) # {} ]_vars
=============================================================================
