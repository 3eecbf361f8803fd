----------------------------- MODULE HartProofs -----------------------------
(***************************************************************************)
(* Theorems about Hart, for every address space, every set of lines,       *)
(* faults and CSR instructions, and both builds: the invariants first,     *)
(* then what a tick may never do.                                          *)
(***************************************************************************)
EXTENDS Hart, TLAPS

Traps == Exceptions \cup Interrupts

\* Reducing modulo the size of the address space yields an address.
LEMMA ModAddress ==
  ASSUME NEW x \in Nat
  PROVE  x % AddrSpace \in Address
BY HartAssumption DEF HartAssumption, Address

\* Every trap type has a cause code.
LEMMA CauseType == \A t \in Traps : kTrapToCauseTable[t] \in Nat
BY DEF Traps, Exceptions, Interrupts, SupervisorIrqs, MachineIrqs,
       kTrapToCauseTable

\* A trap vector is an address, whatever the two mode bits of xtvec say.
LEMMA GetTrapPCType ==
  ASSUME NEW tvec \in Address, NEW t \in Traps
  PROVE  GetTrapPC(tvec, t) \in Address
<1>1. tvec \in Nat /\ tvec % 4 \in Nat /\ tvec \div 4 \in Nat
  BY HartAssumption DEF HartAssumption, Address
<1>2. kTrapToCauseTable[t] \in Nat
  BY CauseType
<1>3. (tvec \div 4) * 4 + 4 * kTrapToCauseTable[t] * (tvec % 4) \in Nat
  BY <1>1, <1>2
<1> QED
  BY <1>3, ModAddress DEF GetTrapPC

\* Assigning fields of mstatus stays inside mstatus.
LEMMA SetBitType ==
  ASSUME NEW ms \in SUBSET MstatusDesc, NEW b \in MstatusDesc, NEW on
  PROVE  SetBit(ms, b, on) \in SUBSET MstatusDesc
BY DEF SetBit

\* So does assigning mpp.
LEMMA SetMppType ==
  ASSUME NEW ms \in SUBSET MstatusDesc, NEW mode
  PROVE  SetMpp(ms, mode) \in SUBSET MstatusDesc
<1>1. "MPP0" \in MstatusDesc /\ "MPP1" \in MstatusDesc
  BY DEF MstatusDesc
<1> QED
  BY <1>1, SetBitType DEF SetMpp

\* mpp, read as a number, is a mode (the reserved one included).
LEMMA MppType == \A ms : Mpp(ms) \in U .. M
BY DEF Mpp, U, M

-----------------------------------------------------------------------------
(* Type correctness                                                        *)

\* The modes of the architecture, as numbers.
LEMMA Modes == U \in U .. M /\ S \in U .. M /\ M \in U .. M /\ U .. M = 0 .. 3
BY DEF U, S, M

\* HandleTrap yields a well-typed hart, in either half.
LEMMA HandleTrapType ==
  ASSUME NEW h \in HartType, NEW t \in Traps \cup {None}, NEW epc \in Address
  PROVE  HandleTrap(h, t, epc) \in HartType
<1>1. CASE t = None
  BY <1>1 DEF HandleTrap
<1>2. ASSUME t \in Traps
      PROVE  EnterS(h, t, epc) \in HartType
  <2>1. GetTrapPC(h.stvec, t) \in Address
    BY <1>2, GetTrapPCType DEF HartType
  <2> DEFINE ms == SetBit(SetBit(SetBit(h.ms, "SPIE", "SIE" \in h.ms),
                                 "SIE", FALSE),
                          "SPP", h.priv % 2 = 1)
  <2>2. ms \in SUBSET MstatusDesc
    BY DEF HartType, SetBit, MstatusDesc
  <2>3. EnterS(h, t, epc)
          = [h EXCEPT !.pc = GetTrapPC(h.stvec, t), !.sepc = epc,
                      !.ms = ms, !.priv = S]
    BY DEF EnterS, HartType
  <2> HIDE DEF ms
  <2> QED
    BY <2>1, <2>2, <2>3, Modes DEF HartType
<1>3. ASSUME t \in Traps
      PROVE  EnterM(h, t, epc) \in HartType
  <2>1. GetTrapPC(h.mtvec, t) \in Address
    BY <1>3, GetTrapPCType DEF HartType
  <2> DEFINE ms == SetMpp(SetBit(SetBit(h.ms, "MPIE", "MIE" \in h.ms),
                                 "MIE", FALSE),
                          h.priv)
  <2>2. ms \in SUBSET MstatusDesc
    BY DEF HartType, SetBit, SetMpp, MstatusDesc
  <2>3. EnterM(h, t, epc)
          = [h EXCEPT !.pc = GetTrapPC(h.mtvec, t), !.mepc = epc,
                      !.ms = ms, !.priv = M]
    BY DEF EnterM, HartType
  <2> HIDE DEF ms
  <2> QED
    BY <2>1, <2>2, <2>3, Modes DEF HartType
<1>4. CASE t # None /\ TrapToS(h, t)
  BY <1>2, <1>4 DEF HandleTrap
<1>5. CASE t # None /\ ~ TrapToS(h, t)
  BY <1>3, <1>5 DEF HandleTrap
<1> QED
  BY <1>1, <1>4, <1>5 DEF TrapToS

\* The highest-ranked member of a nonempty set of interrupts exists.
LEMMA InterruptBitsToTrapSpec ==
  ASSUME NEW bits \in SUBSET Interrupts
  PROVE  IF bits = {} THEN InterruptBitsToTrap(bits) = None
         ELSE /\ InterruptBitsToTrap(bits) \in bits
              /\ \A u \in bits : Rank[InterruptBitsToTrap(bits)] <= Rank[u]
<1>0. /\ Rank["MEI"] = 1 /\ Rank["MSI"] = 2 /\ Rank["MTI"] = 3
      /\ Rank["SEI"] = 4 /\ Rank["SSI"] = 5 /\ Rank["STI"] = 6
  BY DEF Rank
<1>1. bits # {} => \E t \in bits : \A u \in bits : Rank[t] <= Rank[u]
  <2>1. \A u \in bits : u \in {"MEI", "MSI", "MTI", "SEI", "SSI", "STI"}
    BY DEF Interrupts, SupervisorIrqs, MachineIrqs
  <2>2. CASE "MEI" \in bits
    BY <1>0, <2>1, <2>2
  <2>3. CASE "MEI" \notin bits /\ "MSI" \in bits
    BY <1>0, <2>1, <2>3
  <2>4. CASE "MEI" \notin bits /\ "MSI" \notin bits /\ "MTI" \in bits
    BY <1>0, <2>1, <2>4
  <2>5. CASE /\ "MEI" \notin bits /\ "MSI" \notin bits /\ "MTI" \notin bits
             /\ "SEI" \in bits
    BY <1>0, <2>1, <2>5
  <2>6. CASE /\ "MEI" \notin bits /\ "MSI" \notin bits /\ "MTI" \notin bits
             /\ "SEI" \notin bits /\ "SSI" \in bits
    BY <1>0, <2>1, <2>6
  <2>7. CASE \A u \in bits : u = "STI"
    BY <1>0, <2>7
  <2> QED
    BY <2>1, <2>2, <2>3, <2>4, <2>5, <2>6, <2>7
<1> QED
  BY <1>1 DEF InterruptBitsToTrap

\* An interrupt taken is pending and enabled.
LEMMA FinalInterruptPending ==
  ASSUME NEW h \in HartType, FinalInterrupt(h) # None
  PROVE  FinalInterrupt(h) \in h.mip \cap h.mie
<1>1. h.mip \cap h.mie \in SUBSET Interrupts
  BY DEF HartType
<1>2. (h.mip \cap h.mie) \ h.mideleg \in SUBSET Interrupts
  BY DEF HartType
<1> QED
  BY <1>1, <1>2, InterruptBitsToTrapSpec DEF FinalInterrupt

\* HandleInterrupt chooses an interrupt or nothing.
LEMMA FinalInterruptType ==
  ASSUME NEW h \in HartType
  PROVE  FinalInterrupt(h) \in Interrupts \cup {None}
BY FinalInterruptPending DEF HartType

\* HandleInterrupt yields a well-typed hart.
LEMMA HandleInterruptType ==
  ASSUME NEW h \in HartType
  PROVE  HandleInterrupt(h) \in HartType
<1> DEFINE t == FinalInterrupt(h)
           g == HandleTrap(h, t, h.pc)
<1>1. t \in Traps \cup {None}
  BY FinalInterruptType DEF Traps
<1>2. g \in HartType
  BY <1>1, HandleTrapType DEF HartType
<1> DEFINE mip == h.mip \ {t}
           wfi == IF t = None THEN g.wfi ELSE FALSE
<1>3. mip \in SUBSET Interrupts
  BY DEF HartType
<1>4. wfi \in BOOLEAN
  BY <1>2 DEF HartType
<1>5. HandleInterrupt(h) = [g EXCEPT !.mip = mip, !.wfi = wfi]
  BY DEF HandleInterrupt
<1> HIDE DEF t, g, mip, wfi
<1> QED
  BY <1>2, <1>3, <1>4, <1>5 DEF HartType

\* State::Write stores a well-typed value: the masks do the rest.
LEMMA WriteType ==
  ASSUME NEW h \in HartType, NEW csr \in CsrNames, NEW val,
         csr \in AddressCsrs => val \in Address
  PROVE  Write(h, csr, val) \in HartType
<1>1. CASE csr \in AddressCsrs
  BY <1>1 DEF Write, AddressCsrs, HartType
<1>2. CASE csr \in {"mstatus", "sstatus"}
  <2>1. val \cap MstatusDesc \in SUBSET MstatusDesc
    OBVIOUS
  <2>2. Merge(h.ms, val, SstatusDesc) \in SUBSET MstatusDesc
    BY DEF Merge, SstatusDesc, MstatusDesc, HartType
  <2> QED
    BY <1>2, <2>1, <2>2 DEF Write, HartType
<1>3. CASE csr \in {"mie", "mip", "sie", "sip"}
  <2>1. val \cap kCsrMInterruptMask \in SUBSET Interrupts
    BY DEF kCsrMInterruptMask
  <2>2. /\ Merge(h.mie, val, kCsrSInterruptMask) \in SUBSET Interrupts
        /\ Merge(h.mip, val, kCsrSInterruptMask) \in SUBSET Interrupts
    BY DEF Merge, kCsrSInterruptMask, Interrupts, HartType
  <2> QED
    BY <1>3, <2>1, <2>2 DEF Write, HartType
<1>4. CASE csr \in {"mideleg", "medeleg"}
  <2>1. /\ val \cap kCsrSInterruptMask \in SUBSET SupervisorIrqs
        /\ val \cap kCsrSExceptionMask \in SUBSET (Exceptions \ {"EcallM"})
    BY DEF kCsrSInterruptMask, kCsrSExceptionMask
  <2> QED
    BY <1>4, <2>1 DEF Write, HartType
<1>5. CASE csr \in {"satp", "mhartid", "unlisted"}
  BY <1>5 DEF Write
<1> QED
  BY <1>1, <1>2, <1>3, <1>4, <1>5 DEF CsrNames, FlagCsrs, AddressCsrs

\* What an instruction yields: a hart and at most one exception.
Outcome == [hart : HartType, trap : Exceptions \cup {None}]

\* A CSR instruction: only whole-register writes reach an address register.
LEMMA CsrTypeExecType ==
  ASSUME NEW h \in HartType, NEW a \in CsrAccesses
  PROVE  CsrTypeExec(h, a) \in Outcome
<1>1. /\ a.csr \in CsrNames
      /\ a.csr \in AddressCsrs =>
           a.op = "read" \/ (a.op = "rw" /\ a.val \in Address)
  BY HartAssumption DEF HartAssumption
<1>2. a.op # "read" => Write(h, a.csr, NewCsrVal(h, a)) \in HartType
  BY <1>1, WriteType DEF NewCsrVal
<1>3. "IllegalInstruction" \in Exceptions
  BY DEF Exceptions
<1>4. CASE ~ CsrAllowed(h, a)
  BY <1>3, <1>4 DEF CsrTypeExec, Raise, Outcome
<1>5. CASE CsrAllowed(h, a)
  BY <1>2, <1>5 DEF CsrTypeExec, Done, Outcome
<1> QED
  BY <1>4, <1>5

\* MRET: the mode returned to is the one in mpp.
LEMMA MRetExecType ==
  ASSUME NEW h \in HartType
  PROVE  MRetExec(h) \in Outcome
<1>1. Mpp(h.ms) \in U .. M
  BY MppType
<1> DEFINE ms == SetBit(SetBit(SetBit(SetMpp(h.ms, U), "MPIE", TRUE),
                               "MIE", "MPIE" \in h.ms),
                        "MPRV", Mpp(h.ms) = M /\ "MPRV" \in h.ms)
<1>2. ms \in SUBSET MstatusDesc
  BY DEF HartType, SetBit, SetMpp, MstatusDesc
<1>3. ReturnFromM(h) = [h EXCEPT !.ms = ms, !.priv = Mpp(h.ms), !.pc = h.mepc]
  BY DEF ReturnFromM, HartType
<1> HIDE DEF ms
<1>4. ReturnFromM(h) \in HartType
  BY <1>1, <1>2, <1>3 DEF HartType
<1>5. "IllegalInstruction" \in Exceptions
  BY DEF Exceptions
<1> QED
  BY <1>4, <1>5 DEF MRetExec, Raise, Done, Outcome

\* SRET: the mode returned to is U or S.
LEMMA SRetExecType ==
  ASSUME NEW h \in HartType
  PROVE  SRetExec(h) \in Outcome
<1> DEFINE prev == IF "SPP" \in h.ms THEN S ELSE U
           ms == SetBit(SetBit(SetBit(SetBit(h.ms, "SPP", FALSE),
                                      "SPIE", TRUE),
                               "SIE", "SPIE" \in h.ms),
                        "MPRV", FALSE)
           g == [h EXCEPT !.ms = ms, !.priv = prev, !.pc = h.sepc]
<1>1. prev \in U .. M
  BY Modes
<1>2. ms \in SUBSET MstatusDesc
  BY DEF HartType, SetBit, MstatusDesc
<1>3. SRetExec(h) = IF h.priv < S \/ "TSR" \in h.ms
                    THEN Raise(h, "IllegalInstruction") ELSE Done(g)
  BY DEF SRetExec, HartType
<1> HIDE DEF ms, prev
<1>4. g \in HartType
  BY <1>1, <1>2 DEF HartType
<1>5. "IllegalInstruction" \in Exceptions
  BY DEF Exceptions
<1> HIDE DEF g
<1> QED
  BY <1>3, <1>4, <1>5 DEF Raise, Done, Outcome

\* Every instruction yields a well-typed hart and an exception or none.
LEMMA ExecType ==
  ASSUME NEW h \in HartType, NEW i \in Instructions
  PROVE  Exec(h, i) \in Outcome
<1>1. {"IllegalInstruction", "Breakpoint", "EcallU", "EcallS", "EcallM",
       "InstructionAddressMisaligned"} \subseteq Exceptions
  BY DEF Exceptions
<1>2. \A t \in Exceptions \cup {None} : Raise(h, t) \in Outcome
  BY DEF Raise, Outcome
<1>3. \A g \in HartType : Done(g) \in Outcome
  BY DEF Done, Outcome
<1>4. CASE i \in [op : PlainOps]
  <2>1. i.op \in AllPlainOps
    BY <1>4, HartAssumption DEF HartAssumption
  <2>2. CASE i.op \in {"retire", "illegal", "ebreak"}
    BY <1>1, <1>2, <1>3, <2>2 DEF Exec
  <2>3. CASE i.op = "ecall"
    <3>1. Exec(h, i) = ECallExec(h)
      BY <2>3 DEF Exec
    <3> QED
      BY <1>1, <1>2, <3>1 DEF ECallExec
  <2>4. CASE i.op = "mret"
    BY <2>4, MRetExecType DEF Exec
  <2>5. CASE i.op = "sret"
    BY <2>5, SRetExecType DEF Exec
  <2>6. CASE i.op = "wfi"
    <3>1. Exec(h, i) = WfiExec(h)
      BY <2>6 DEF Exec
    <3>2. [h EXCEPT !.wfi = h.wfi \/ "TW" \in h.ms] \in HartType
      BY DEF HartType
    <3> QED
      BY <1>3, <3>1, <3>2 DEF WfiExec
  <2>7. CASE i.op = "sfence"
    <3>1. Exec(h, i) = SfenceVmaExec(h)
      BY <2>7 DEF Exec
    <3> QED
      BY <1>1, <1>2, <1>3, <3>1 DEF SfenceVmaExec
  <2> QED
    BY <2>1, <2>2, <2>3, <2>4, <2>5, <2>6, <2>7 DEF AllPlainOps
<1>5. CASE i \in [op : {"fault"}, type : Faults]
  <2>1. Exec(h, i) = Raise(h, i.type)
    BY <1>5 DEF Exec
  <2> QED
    BY <1>2, <1>5, <2>1, HartAssumption DEF HartAssumption
<1>6. CASE i \in [op : {"jump"}, to : JumpTargets]
  <2>1. Exec(h, i) = JumpExec(h, i.to)
    BY <1>6 DEF Exec
  <2>2. [h EXCEPT !.pc = i.to] \in HartType
    BY <1>6, HartAssumption DEF HartAssumption, HartType
  <2> QED
    BY <1>1, <1>2, <1>3, <2>1, <2>2 DEF JumpExec
<1>7. CASE i \in [op : {"csr"}, acc : CsrAccesses]
  <2>1. Exec(h, i) = CsrTypeExec(h, i.acc)
    BY <1>7 DEF Exec
  <2> QED
    BY <1>7, <2>1, CsrTypeExecType
<1> QED
  BY <1>4, <1>5, <1>6, <1>7 DEF Instructions

\* So does the first half of a tick, stalled or not.
LEMMA TickOperateType ==
  ASSUME NEW h \in HartType, NEW i \in Instructions
  PROVE  TickOperate(h, i) \in Outcome
<1>1. (h.pc + 4) % AddrSpace \in Address
  BY ModAddress, HartAssumption DEF HartAssumption, HartType, Address
<1>2. [h EXCEPT !.pc = (@ + 4) % AddrSpace] \in HartType
  BY <1>1 DEF HartType
<1>3. [h EXCEPT !.wfi = h.mie \cap h.mip = {}] \in HartType
  BY DEF HartType
<1>4. CASE h.wfi
  BY <1>3, <1>4 DEF TickOperate, Done, Outcome
<1>5. CASE ~ h.wfi
  BY <1>2, <1>5, ExecType DEF TickOperate
<1> QED
  BY <1>4, <1>5

\* The hart between the exception and the interrupt of a tick.
AfterTrap(h, i) == HandleTrap(TickOperate(h, i).hart, TickOperate(h, i).trap, h.pc)

\* What a tick from a well-typed hart does, in terms of AfterTrap.
LEMMA RunTickSplit ==
  ASSUME NEW h \in HartType, NEW i \in Instructions, RunTick(h, i)
  PROVE  /\ AfterTrap(h, i) \in HartType
         /\ hart' = HandleInterrupt(AfterTrap(h, i))
         /\ last'.exc = TickOperate(h, i).trap
         /\ last'.irq = FinalInterrupt(AfterTrap(h, i))
         /\ last'.mipWritten = (~ h.wfi /\ i.op = "csr"
                                /\ i.acc.csr \in {"mip", "sip"})
         /\ last' = [exc |-> last'.exc, irq |-> last'.irq,
                     mipWritten |-> last'.mipWritten]
<1>1. TickOperate(h, i) \in Outcome
  BY TickOperateType
<1>2. AfterTrap(h, i) \in HartType
  BY <1>1, HandleTrapType DEF AfterTrap, Outcome, Traps, HartType
<1> QED
  BY <1>2 DEF RunTick, AfterTrap

\* A tick keeps the types.
LEMMA RunTickType ==
  ASSUME NEW h \in HartType, NEW i \in Instructions, RunTick(h, i)
  PROVE  TypeOK'
<1>1. /\ AfterTrap(h, i) \in HartType
      /\ hart' = HandleInterrupt(AfterTrap(h, i))
      /\ last'.exc = TickOperate(h, i).trap
      /\ last'.irq = FinalInterrupt(AfterTrap(h, i))
      /\ last'.mipWritten = (~ h.wfi /\ i.op = "csr"
                             /\ i.acc.csr \in {"mip", "sip"})
      /\ last' = [exc |-> last'.exc, irq |-> last'.irq,
                  mipWritten |-> last'.mipWritten]
  BY RunTickSplit
<1>2. hart' \in HartType
  BY <1>1, HandleInterruptType
<1>3. last'.irq \in Interrupts \cup {None}
  BY <1>1, FinalInterruptType
<1>4. last'.exc \in Exceptions \cup {None}
  BY <1>1, TickOperateType DEF Outcome
<1>5. last'.mipWritten \in BOOLEAN
  BY <1>1
<1> QED
  BY <1>1, <1>2, <1>3, <1>4, <1>5 DEF TypeOK

\* Sampling the lines keeps the types.
LEMMA UpdateMipType ==
  ASSUME NEW h \in HartType, NEW lines \in SUBSET Lines
  PROVE  UpdateMip(h, lines) \in HartType
<1>1. (h.mip \cap {"SSI", "STI"}) \cup lines \in SUBSET Interrupts
  BY HartAssumption
     DEF HartAssumption, HartType, Interrupts, SupervisorIrqs, MachineIrqs
<1> QED
  BY <1>1 DEF UpdateMip, HartType

\* Power-on is well typed.
LEMMA ResetHartType == ResetHart \in HartType
<1>1. 0 \in Address
  BY HartAssumption DEF HartAssumption, Address
<1> QED
  BY <1>1, Modes DEF ResetHart, HartType

\* A step of the hart is a tick from a well-typed hart, or a reset.
LEMMA NextSplit ==
  ASSUME TypeOK, Next
  PROVE  \/ \E h \in HartType, i \in Instructions :
               /\ RunTick(h, i)
               /\ h = hart \/ \E lines \in SUBSET Lines : h = UpdateMip(hart, lines)
         \/ Reset
BY UpdateMipType DEF Next, TickAny, Tick, TickNoUpdate, TypeOK

\* Every register of the hart holds a value its fields allow, at every tick
\* of every guest: CPU::Tick, CPU::Reset, State::Write and the system
\* instructions keep TypeOK.
THEOREM TypeCorrect == Spec => []TypeOK
<1>1. Init => TypeOK
  BY ResetHartType DEF Init, TypeOK, Quiet
<1>2. TypeOK /\ [Next]_vars => TypeOK'
  <2>1. ASSUME TypeOK, Next PROVE TypeOK'
    <3>1. CASE Reset
      BY <3>1, ResetHartType DEF Reset, TypeOK, Quiet
    <3>2. CASE \E h \in HartType, i \in Instructions : RunTick(h, i)
      BY <3>2, RunTickType
    <3> QED
      BY <2>1, <3>1, <3>2, NextSplit
  <2>2. TypeOK /\ UNCHANGED vars => TypeOK'
    BY DEF TypeOK, vars
  <2> QED
    BY <2>1, <2>2
<1> QED
  BY <1>1, <1>2, PTL DEF Spec

-----------------------------------------------------------------------------
(* No interrupt is left behind                                             *)

\* An interrupt is a machine interrupt or a supervisor one, a machine
\* interrupt outranks every supervisor one, and None is neither.
LEMMA MachineOutranks ==
  /\ \A t \in MachineIrqs, u \in SupervisorIrqs : ~ (Rank[u] <= Rank[t])
  /\ None \notin Interrupts
  /\ MachineIrqs \cap SupervisorIrqs = {}
BY DEF Rank, MachineIrqs, SupervisorIrqs, Interrupts, None

\* What HandleTrap does to the fields that later decisions read.
LEMMA HandleTrapEffect ==
  ASSUME NEW h \in HartType, NEW t, NEW epc,
         NEW g, g = HandleTrap(h, t, epc)
  PROVE  /\ g.mip = h.mip /\ g.mie = h.mie /\ g.wfi = h.wfi
         /\ g.mideleg = h.mideleg /\ g.medeleg = h.medeleg
         /\ g.mtvec = h.mtvec /\ g.stvec = h.stvec
         /\ t = None => g = h
         /\ t # None /\ TrapToS(h, t) =>
              /\ g.priv = S /\ g.pc = GetTrapPC(h.stvec, t)
              /\ g.sepc = epc /\ g.mepc = h.mepc
              /\ "SIE" \notin g.ms
              /\ "SPIE" \in g.ms <=> "SIE" \in h.ms
              /\ "SPP" \in g.ms <=> h.priv % 2 = 1
              /\ \A b : b \notin {"SIE", "SPIE", "SPP"} =>
                       (b \in g.ms <=> b \in h.ms)
         /\ t # None /\ ~ TrapToS(h, t) =>
              /\ g.priv = M /\ g.pc = GetTrapPC(h.mtvec, t)
              /\ g.mepc = epc /\ g.sepc = h.sepc
              /\ "MIE" \notin g.ms
              /\ "MPIE" \in g.ms <=> "MIE" \in h.ms
              /\ Mpp(g.ms) = h.priv
              /\ \A b : b \notin {"MIE", "MPIE", "MPP0", "MPP1"} =>
                       (b \in g.ms <=> b \in h.ms)
<1>1. CASE t = None
  BY <1>1 DEF HandleTrap
<1>2. CASE t # None /\ TrapToS(h, t)
  BY <1>2 DEF HandleTrap, EnterS, HartType, SetBit
<1>3. CASE t # None /\ ~ TrapToS(h, t)
  <2>1. h.priv \in 0 .. 3
    BY Modes DEF HartType
  <2>2. g.ms = SetMpp(SetBit(SetBit(h.ms, "MPIE", "MIE" \in h.ms), "MIE", FALSE),
                      h.priv)
    BY <1>3 DEF HandleTrap, EnterM, HartType
  <2>3. /\ "MPP0" \in g.ms <=> h.priv % 2 = 1
        /\ "MPP1" \in g.ms <=> h.priv >= 2
    BY <2>1, <2>2 DEF SetMpp, SetBit
  <2>4. Mpp(g.ms) = h.priv
    BY <2>1, <2>3 DEF Mpp
  <2> QED
    BY <1>3, <2>4 DEF HandleTrap, EnterM, HartType, SetBit, SetMpp
<1> QED
  BY <1>1, <1>2, <1>3

\* What HandleInterrupt does, in terms of the interrupt t it takes and the
\* hart g that HandleTrap makes of it.
LEMMA HandleInterruptEffect ==
  ASSUME NEW h \in HartType
  PROVE  \E t \in Interrupts \cup {None}, g \in HartType :
           /\ t = FinalInterrupt(h)
           /\ g = HandleTrap(h, t, h.pc)
           /\ HandleInterrupt(h) = [g EXCEPT !.mip = h.mip \ {t},
                                    !.wfi = IF t = None THEN g.wfi ELSE FALSE]
<1>1. FinalInterrupt(h) \in Interrupts \cup {None}
  BY FinalInterruptType
<1>2. HandleTrap(h, FinalInterrupt(h), h.pc) \in HartType
  BY <1>1, HandleTrapType DEF Traps, HartType
<1> QED
  BY <1>1, <1>2 DEF HandleInterrupt, HartType

\* What FinalInterrupt(h) leaves, as HandleInterrupt finds h: nothing was
\* taken because all that is pending and enabled is masked or stands behind a
\* masked delegated interrupt, or the interrupt of highest rank was taken, or
\* it was taken to M-mode.
LEMMA FinalInterruptRank ==
  ASSUME NEW h \in HartType,
         NEW t, t = FinalInterrupt(h),
         NEW bits, bits = h.mip \cap h.mie
  PROVE  \/ t = None /\ h.priv = M /\ ("MIE" \notin h.ms \/ bits \subseteq h.mideleg)
         \/ t = None /\ h.priv # M /\ bits = {}
         \/ /\ t = None /\ h.priv # M /\ h.priv # U /\ "SIE" \notin h.ms
            /\ \E u \in bits \cap h.mideleg : \A w \in bits : Rank[u] <= Rank[w]
         \/ t # None /\ h.priv = M /\ t \notin h.mideleg
         \/ t \in bits /\ h.priv # M /\ \A w \in bits : Rank[t] <= Rank[w]
<1>1. PICK top : top = InterruptBitsToTrap(bits)
  OBVIOUS
<1>2. bits \subseteq Interrupts /\ h.mideleg \subseteq SupervisorIrqs
  BY DEF HartType
<1>3. /\ bits = {} => top = None
      /\ bits # {} => top \in bits /\ \A u \in bits : Rank[top] <= Rank[u]
  BY <1>1, <1>2, InterruptBitsToTrapSpec
<1>4. /\ bits \ h.mideleg = {} => InterruptBitsToTrap(bits \ h.mideleg) = None
      /\ bits \ h.mideleg # {} =>
           InterruptBitsToTrap(bits \ h.mideleg) \in bits \ h.mideleg
  <2>1. bits \ h.mideleg \in SUBSET Interrupts
    BY <1>2
  <2> QED
    BY <2>1, InterruptBitsToTrapSpec
<1>5. h.priv \in 0 .. 3 /\ U = 0 /\ S = 1 /\ M = 3
  BY DEF HartType, U, S, M
<1>6. \/ h.priv = M /\ "MIE" \notin h.ms /\ t = None
      \/ h.priv = M /\ "MIE" \in h.ms /\ t = InterruptBitsToTrap(bits \ h.mideleg)
      \/ /\ h.priv # M /\ top \in h.mideleg /\ t = None
         /\ "SIE" \notin h.ms /\ h.priv # U
      \/ h.priv # M /\ t = top
  BY <1>1, <1>5 DEF FinalInterrupt
<1>7. CASE h.priv = M
  BY <1>2, <1>4, <1>6, <1>7, MachineOutranks
<1>8. CASE h.priv # M /\ bits = {}
  BY <1>3, <1>6, <1>8
<1>9. CASE h.priv # M /\ bits # {}
  BY <1>3, <1>6, <1>9
<1> QED
  BY <1>7, <1>8, <1>9

\* HandleInterrupt leaves nothing that it should have delivered, from any
\* well-typed hart.
LEMMA HandleInterruptDelivers ==
  ASSUME NEW h \in HartType, NEW k, k = HandleInterrupt(h),
         NEW t, t = FinalInterrupt(h), NEW v \in Deliverable(k)
  PROVE  \/ t # None /\ Rank[t] < Rank[v]
         \/ v \in SupervisorIrqs \ k.mideleg /\ k.priv < M /\ Shadowed(k, v)
<1>1. PICK g \in HartType :
        /\ t \in Interrupts \cup {None}
        /\ g = HandleTrap(h, t, h.pc)
        /\ k = [g EXCEPT !.mip = h.mip \ {t},
                         !.wfi = IF t = None THEN g.wfi ELSE FALSE]
  BY HandleInterruptEffect
<1>2. PICK bits : bits = h.mip \cap h.mie
  OBVIOUS
<1>3. /\ g.mie = h.mie /\ g.mideleg = h.mideleg
      /\ t = None => g = h
      /\ t # None /\ TrapToS(h, t) => g.priv = S /\ "SIE" \notin g.ms
      /\ t # None /\ ~ TrapToS(h, t) => g.priv = M /\ "MIE" \notin g.ms
  BY <1>1, HandleTrapEffect
<1>4. /\ k.mip \cap k.mie = bits \ {t} /\ k.mideleg = h.mideleg
      /\ k.priv = g.priv /\ k.ms = g.ms
  BY <1>1, <1>2, <1>3 DEF HartType
<1>5. bits \subseteq Interrupts /\ h.mideleg \subseteq SupervisorIrqs
  BY <1>2 DEF HartType
<1>6. h.priv \in 0 .. 3 /\ g.priv \in 0 .. 3 /\ U = 0 /\ S = 1 /\ M = 3
  BY DEF HartType, U, S, M
<1>7. \A u : u \in Deliverable(k) <=>
        /\ u \in bits \ {t}
        /\ IF u \in h.mideleg THEN g.priv < S \/ (g.priv < M /\ "SIE" \in g.ms)
           ELSE g.priv < M \/ "MIE" \in g.ms
  BY <1>4 DEF Deliverable
<1>8. /\ v \in bits \ {t}
      /\ v \in h.mideleg => g.priv < S \/ (g.priv < M /\ "SIE" \in g.ms)
      /\ v \notin h.mideleg => g.priv < M \/ "MIE" \in g.ms
  BY <1>7
<1>9. \A u, w \in Interrupts : Rank[u] <= Rank[w] /\ u # w => Rank[u] < Rank[w]
  BY DEF Rank, Interrupts, SupervisorIrqs, MachineIrqs
<1>10. CASE t = None
  <2>1. g = h /\ bits \ {t} = bits
    BY <1>3, <1>5, <1>10, MachineOutranks
  <2>2. PICK u \in bits \cap h.mideleg :
          /\ h.priv # M /\ h.priv # U /\ "SIE" \notin h.ms
          /\ \A w \in bits : Rank[u] <= Rank[w]
    <3>0. bits # {} /\ t \notin bits
      BY <1>5, <1>8, <1>10, MachineOutranks
    <3>1. \/ h.priv = M /\ ("MIE" \notin h.ms \/ bits \subseteq h.mideleg)
          \/ /\ h.priv # M /\ h.priv # U /\ "SIE" \notin h.ms
             /\ \E u \in bits \cap h.mideleg : \A w \in bits : Rank[u] <= Rank[w]
      <4>1. \/ t = None /\ h.priv = M /\ ("MIE" \notin h.ms \/ bits \subseteq h.mideleg)
            \/ t = None /\ h.priv # M /\ bits = {}
            \/ /\ t = None /\ h.priv # M /\ h.priv # U /\ "SIE" \notin h.ms
               /\ \E u \in bits \cap h.mideleg : \A w \in bits : Rank[u] <= Rank[w]
            \/ t # None
            \/ t \in bits
        BY <1>2, FinalInterruptRank
      <4> QED
        BY <1>10, <3>0, <4>1, Zenon
    <3>2. ~ (h.priv = M /\ ("MIE" \notin h.ms \/ bits \subseteq h.mideleg))
      BY <1>6, <1>8, <2>1
    <3> QED
      BY <3>1, <3>2
  <2>3. u \notin Deliverable(k) /\ u \in k.mip \cap k.mie
    BY <1>4, <1>6, <1>7, <2>1, <2>2
  <2>4. v \notin h.mideleg /\ u # v
    BY <1>6, <1>8, <2>1, <2>2
  <2>5. Rank[u] < Rank[v] /\ v \in SupervisorIrqs
    BY <1>5, <1>8, <1>9, <2>2, <2>4, MachineOutranks DEF Interrupts
  <2>6. Shadowed(k, v)
    BY <2>3, <2>5 DEF Shadowed
  <2>7. k.priv < M
    BY <1>4, <1>6, <2>1, <2>2
  <2> QED
    BY <1>4, <2>4, <2>5, <2>6, <2>7
<1>11. CASE t # None /\ TrapToS(h, t)
  <2>1. t \in bits /\ \A w \in bits : Rank[t] <= Rank[w]
    BY <1>1, <1>2, <1>11, FinalInterruptRank DEF TrapToS
  <2> QED
    BY <1>5, <1>8, <1>9, <1>11, <2>1
<1>12. CASE t # None /\ ~ TrapToS(h, t)
  BY <1>3, <1>6, <1>8, <1>12
<1> QED
  BY <1>10, <1>11, <1>12

\* Between ticks an interrupt that is not masked waits only behind the one of
\* higher rank that the tick has taken, or, if it is an undelegated supervisor
\* interrupt, behind a masked delegated one of higher rank, for every guest and
\* every pattern of the lines (CPU::HandleInterrupt).
THEOREM InterruptsDelivered == Spec => []NoDeliverableLeft
<1>1. hart = ResetHart => NoDeliverableLeft
  BY DEF NoDeliverableLeft, Deliverable, ResetHart
<1>2. TypeOK /\ NoDeliverableLeft /\ [Next]_vars => NoDeliverableLeft'
  <2>1. ASSUME TypeOK, Next PROVE NoDeliverableLeft'
    <3>1. CASE Reset
      BY <3>1 DEF Reset, NoDeliverableLeft, Deliverable, ResetHart
    <3>2. CASE \E h \in HartType, i \in Instructions : RunTick(h, i)
      <4>1. PICK h \in HartType, i \in Instructions : RunTick(h, i)
        BY <3>2
      <4>2. PICK e \in HartType : /\ hart' = HandleInterrupt(e)
                                  /\ last'.irq = FinalInterrupt(e)
        BY <4>1, RunTickSplit
      <4> QED
        BY <4>2, HandleInterruptDelivers DEF NoDeliverableLeft
    <3> QED
      BY <2>1, <3>1, <3>2, NextSplit
  <2>2. NoDeliverableLeft /\ UNCHANGED vars => NoDeliverableLeft'
    BY DEF NoDeliverableLeft, Deliverable, Shadowed, vars
  <2> QED
    BY <2>1, <2>2
<1> QED
  BY <1>1, <1>2, TypeCorrect, PTL DEF Spec, Init

-----------------------------------------------------------------------------
(* Action properties                                                       *)

\* An instruction that raises an exception has changed nothing but pc.
LEMMA RaiseKeeps ==
  ASSUME NEW h \in HartType, NEW i \in Instructions,
         NEW r, r = TickOperate(h, i), r.trap # None
  PROVE  r.hart = [h EXCEPT !.pc = (h.pc + 4) % AddrSpace]
<1>1. CASE h.wfi
  BY <1>1 DEF TickOperate, Done
<1>2. CASE ~ h.wfi
  <2>1. PICK g : g = [h EXCEPT !.pc = (h.pc + 4) % AddrSpace]
    OBVIOUS
  <2>2. r = Exec(g, i)
    BY <1>2, <2>1 DEF TickOperate
  <2>3. /\ Done(g).trap = None
        /\ \A k, t : Raise(k, t).hart = k
        /\ \A k : Done(k).trap = None
    BY DEF Done, Raise
  <2>4. i.op \in AllPlainOps \cup {"fault", "jump", "csr"}
    BY HartAssumption DEF HartAssumption, Instructions
  <2>5. CASE i.op \in {"retire", "illegal", "ebreak", "fault"}
    BY <2>1, <2>2, <2>3, <2>5 DEF Exec
  <2>6. CASE i.op = "jump"
    <3>1. r = JumpExec(g, i.to)
      BY <2>2, <2>6 DEF Exec
    <3> QED
      BY <2>1, <2>3, <3>1 DEF JumpExec
  <2>7. CASE i.op = "csr"
    <3>1. r = CsrTypeExec(g, i.acc)
      BY <2>2, <2>7 DEF Exec
    <3> QED
      BY <2>1, <2>3, <3>1 DEF CsrTypeExec
  <2>8. CASE i.op = "ecall"
    BY <2>1, <2>2, <2>8 DEF Exec, ECallExec, Raise
  <2>9. CASE i.op = "mret"
    <3>1. r = MRetExec(g)
      BY <2>2, <2>9 DEF Exec
    <3> QED
      BY <2>1, <2>3, <3>1 DEF MRetExec
  <2>10. CASE i.op = "sret"
    <3>1. r = SRetExec(g)
      BY <2>2, <2>10 DEF Exec
    <3> QED
      BY <2>1, <2>3, <3>1 DEF SRetExec
  <2>11. CASE i.op = "wfi"
    <3>1. r = WfiExec(g)
      BY <2>2, <2>11 DEF Exec
    <3> QED
      BY <2>1, <2>3, <3>1 DEF WfiExec
  <2>12. CASE i.op = "sfence"
    <3>1. r = SfenceVmaExec(g)
      BY <2>2, <2>12 DEF Exec
    <3> QED
      BY <2>1, <2>3, <3>1 DEF SfenceVmaExec
  <2> QED
    BY <2>4, <2>5, <2>6, <2>7, <2>8, <2>9, <2>10, <2>11, <2>12
       DEF AllPlainOps
<1> QED
  BY <1>1, <1>2

\* The exception of a tick, seen after the interrupt of the same tick.
LEMMA ContextThroughInterrupt ==
  ASSUME NEW h \in HartType, NEW k, k = HandleInterrupt(h)
  PROVE  /\ h.priv = S /\ "SIE" \notin h.ms =>
              /\ k.sepc = h.sepc
              /\ "SPP" \in k.ms <=> "SPP" \in h.ms
              /\ "SPIE" \in k.ms <=> "SPIE" \in h.ms
         /\ h.priv = M /\ "MIE" \notin h.ms =>
              k.mepc = h.mepc /\ k.ms = h.ms
<1>1. PICK t \in Interrupts \cup {None}, g \in HartType :
        /\ t = FinalInterrupt(h)
        /\ g = HandleTrap(h, t, h.pc)
        /\ HandleInterrupt(h) = [g EXCEPT !.mip = h.mip \ {t},
                                 !.wfi = IF t = None THEN g.wfi ELSE FALSE]
  BY HandleInterruptEffect
<1>2. k.sepc = g.sepc /\ k.mepc = g.mepc /\ k.ms = g.ms
  BY <1>1 DEF HartType
<1>3. CASE h.priv = S /\ "SIE" \notin h.ms
  <2>1. t = None \/ t \notin h.mideleg
    BY <1>1, <1>3 DEF FinalInterrupt, S, M
  <2>2. t = None \/ ~ TrapToS(h, t)
    BY <2>1 DEF TrapToS
  <2>3. h.priv # M
    BY <1>3 DEF S, M
  <2>4. /\ g.sepc = h.sepc
        /\ "SPP" \in g.ms <=> "SPP" \in h.ms
        /\ "SPIE" \in g.ms <=> "SPIE" \in h.ms
    BY <1>1, <2>2, HandleTrapEffect
  <2> QED
    BY <1>2, <1>3, <2>3, <2>4
<1>4. CASE h.priv = M /\ "MIE" \notin h.ms
  <2>1. t = None
    BY <1>1, <1>4 DEF FinalInterrupt
  <2>2. g = h
    BY <1>1, <2>1 DEF HandleTrap
  <2>3. h.priv # S
    BY <1>4 DEF S, M
  <2> QED
    BY <1>2, <1>4, <2>2, <2>3
<1> QED
  BY <1>3, <1>4

\* Sampling the lines changes mip only, keeps SSIP and STIP, and puts the
\* lines in place of the machine's bits.
LEMMA SampledHart ==
  ASSUME NEW g \in HartType, NEW h,
         h = g \/ \E lines \in SUBSET Lines : h = UpdateMip(g, lines)
  PROVE  /\ h = [g EXCEPT !.mip = h.mip]
         /\ \A t \in {"SSI", "STI"} : t \in g.mip => t \in h.mip
         /\ MachinePending(h) = MachinePending(g) \/ MachinePending(h) \subseteq Lines
BY DEF UpdateMip, HartType, MachinePending, kCsrSInterruptMask, SupervisorIrqs

\* The exception's context after one tick.
LEMMA TickKeepsContext ==
  ASSUME NEW g \in HartType, NEW h \in HartType, NEW i \in Instructions,
         h = [g EXCEPT !.mip = h.mip], RunTick(h, i), last'.exc # None
  PROVE  IF TrapToS(g, last'.exc)
         THEN /\ hart'.sepc = g.pc
              /\ "SPP" \in hart'.ms <=> g.priv % 2 = 1
              /\ "SPIE" \in hart'.ms <=> "SIE" \in g.ms
         ELSE /\ hart'.mepc = g.pc
              /\ Mpp(hart'.ms) = g.priv
              /\ "MPIE" \in hart'.ms <=> "MIE" \in g.ms
<1>1. PICK r \in Outcome : r = TickOperate(h, i)
  BY TickOperateType
<1>2. PICK e \in HartType : e = HandleTrap(r.hart, r.trap, h.pc)
  BY <1>1, RunTickSplit DEF AfterTrap
<1>3. hart' = HandleInterrupt(e) /\ last'.exc = r.trap
  BY <1>1, <1>2, RunTickSplit DEF AfterTrap
<1>4. r.hart = [h EXCEPT !.pc = (h.pc + 4) % AddrSpace]
  BY <1>1, <1>3, RaiseKeeps
<1>5. r.hart \in HartType
  BY DEF Outcome
<1>6. /\ r.hart.priv = g.priv /\ r.hart.ms = g.ms
      /\ r.hart.mideleg = g.mideleg /\ r.hart.medeleg = g.medeleg
      /\ h.pc = g.pc
  BY <1>4 DEF HartType
<1>7. TrapToS(r.hart, r.trap) <=> TrapToS(g, r.trap)
  BY <1>6 DEF TrapToS
<1>8. CASE TrapToS(g, r.trap)
  <2>1. /\ e.priv = S /\ "SIE" \notin e.ms /\ e.sepc = h.pc
        /\ "SPIE" \in e.ms <=> "SIE" \in r.hart.ms
        /\ "SPP" \in e.ms <=> r.hart.priv % 2 = 1
    BY <1>2, <1>3, <1>5, <1>7, <1>8, HandleTrapEffect
  <2>2. /\ hart'.sepc = e.sepc
        /\ "SPP" \in hart'.ms <=> "SPP" \in e.ms
        /\ "SPIE" \in hart'.ms <=> "SPIE" \in e.ms
    BY <1>3, <2>1, ContextThroughInterrupt
  <2> QED
    BY <1>3, <1>6, <1>8, <2>1, <2>2
<1>9. CASE ~ TrapToS(g, r.trap)
  <2>1. /\ e.priv = M /\ "MIE" \notin e.ms /\ e.mepc = h.pc
        /\ "MPIE" \in e.ms <=> "MIE" \in r.hart.ms
        /\ Mpp(e.ms) = r.hart.priv
    BY <1>2, <1>3, <1>5, <1>7, <1>9, HandleTrapEffect
  <2>2. hart'.mepc = e.mepc /\ hart'.ms = e.ms
    BY <1>3, <2>1, ContextThroughInterrupt
  <2> QED
    BY <1>3, <1>6, <1>9, <2>1, <2>2
<1> QED
  BY <1>8, <1>9

\* The context of a synchronous exception survives the interrupt that the
\* same CPU::Tick may take after it (HandleTrap, then HandleInterrupt).
THEOREM ExceptionContext == Spec => ExceptionContextSurvives
<1> DEFINE Survives ==
      last'.exc # None =>
        IF TrapToS(hart, last'.exc)
        THEN /\ hart'.sepc = hart.pc
             /\ "SPP" \in hart'.ms <=> hart.priv % 2 = 1
             /\ "SPIE" \in hart'.ms <=> "SIE" \in hart.ms
        ELSE /\ hart'.mepc = hart.pc
             /\ Mpp(hart'.ms) = hart.priv
             /\ "MPIE" \in hart'.ms <=> "MIE" \in hart.ms
<1>1. TypeOK /\ [Next]_vars => [Survives]_vars
  <2>1. ASSUME TypeOK, Next PROVE Survives
    <3>1. CASE Reset
      BY <3>1 DEF Reset, Quiet
    <3>2. CASE \E h \in HartType, i \in Instructions :
                 /\ RunTick(h, i)
                 /\ h = hart \/ \E lines \in SUBSET Lines : h = UpdateMip(hart, lines)
      <4>1. PICK h \in HartType, i \in Instructions :
                 /\ RunTick(h, i)
                 /\ h = hart \/ \E lines \in SUBSET Lines : h = UpdateMip(hart, lines)
        BY <3>2
      <4>2. hart \in HartType
        BY <2>1 DEF TypeOK
      <4>3. h = [hart EXCEPT !.mip = h.mip]
        BY <4>1, <4>2, SampledHart
      <4> QED
        BY <4>1, <4>2, <4>3, TickKeepsContext
    <3> QED
      BY <2>1, <3>1, <3>2, NextSplit
  <2> QED
    BY <2>1
<1> QED
  BY <1>1, TypeCorrect, PTL DEF Spec, ExceptionContextSurvives

-----------------------------------------------------------------------------
(* What an instruction may do                                              *)

\* A write to a CSR changes neither the mode nor the pc, and mip only when it
\* names mip or sip.
LEMMA WriteEffect ==
  ASSUME NEW h \in HartType, NEW csr \in CsrNames, NEW val,
         NEW g, g = Write(h, csr, val)
  PROVE  /\ g.priv = h.priv
         /\ csr \notin {"mip", "sip"} => g.mip = h.mip
         /\ CsrMode(csr) < M => /\ MachineState(g) = MachineState(h)
                                /\ MachinePending(g) = MachinePending(h)
<1>1. CASE csr \in {"sepc", "stvec"}
  <2>1. \/ csr = "sepc" /\ g = [h EXCEPT !.sepc = val]
        \/ csr = "stvec" /\ g = [h EXCEPT !.stvec = val]
    BY <1>1 DEF Write
  <2> QED
    BY <2>1 DEF HartType, MachineState, MachinePending
<1>2. CASE csr \in {"mstatus", "mie", "mip", "mideleg", "medeleg", "mepc", "mtvec"}
  BY <1>2 DEF Write, HartType, CsrMode, S, M
<1>3. CASE csr = "sstatus"
  <2>1. g = [h EXCEPT !.ms = Merge(h.ms, val, SstatusDesc)]
    BY <1>3 DEF Write
  <2>2. Merge(h.ms, val, SstatusDesc) \ (SstatusDesc \cup {"MPRV"})
          = h.ms \ (SstatusDesc \cup {"MPRV"})
    BY DEF Merge
  <2> QED
    BY <1>3, <2>1, <2>2 DEF HartType, MachineState, MachinePending
<1>4. CASE csr = "sie"
  <2>1. g = [h EXCEPT !.mie = Merge(h.mie, val, kCsrSInterruptMask)]
    BY <1>4 DEF Write
  <2>2. Merge(h.mie, val, kCsrSInterruptMask) \ kCsrSInterruptMask
          = h.mie \ kCsrSInterruptMask
    BY DEF Merge
  <2> QED
    BY <1>4, <2>1, <2>2 DEF HartType, MachineState, MachinePending
<1>5. CASE csr = "sip"
  <2>1. g = [h EXCEPT !.mip = Merge(h.mip, val, kCsrSInterruptMask)]
    BY <1>5 DEF Write
  <2>2. Merge(h.mip, val, kCsrSInterruptMask) \ kCsrSInterruptMask
          = h.mip \ kCsrSInterruptMask
    BY DEF Merge
  <2> QED
    BY <1>5, <2>1, <2>2 DEF HartType, MachineState, MachinePending
<1>6. CASE csr \in {"satp", "mhartid", "unlisted"}
  BY <1>6 DEF Write
<1> QED
  BY <1>1, <1>2, <1>3, <1>4, <1>5, <1>6 DEF CsrNames, FlagCsrs, AddressCsrs

\* What holds of the hart g that an instruction makes of h.
Tame(h, i, g) ==
  /\ g.priv <= h.priv
  /\ ~ (i.op = "csr" /\ i.acc.csr \in {"mip", "sip"}) => g.mip = h.mip
  /\ UnitTest /\ h.priv < M => /\ MachineState(g) = MachineState(h)
                                /\ MachinePending(g) = MachinePending(h)

\* MRET runs in M-mode only, so it cannot raise the mode, whatever mpp holds.
LEMMA MRetTame ==
  ASSUME NEW h \in HartType, NEW i, i.op = "mret"
  PROVE  Tame(h, i, MRetExec(h).hart)
<1>1. h.priv \in 0 .. 3 /\ M = 3 /\ U .. M = 0 .. 3
  BY DEF HartType, U, M
<1>2. CASE h.priv < M
  BY <1>1, <1>2 DEF MRetExec, Raise, Tame
<1>3. CASE h.priv = M
  <2>1. PICK g : g = ReturnFromM(h)
    OBVIOUS
  <2>2. g.priv = Mpp(h.ms) /\ g.mip = h.mip
    BY <2>1 DEF ReturnFromM, HartType
  <2>3. Mpp(h.ms) \in 0 .. 3
    BY <1>1, MppType
  <2>4. MRetExec(h).hart = g
    BY <1>1, <1>3, <2>1 DEF MRetExec, Done
  <2> QED
    BY <1>1, <1>3, <2>2, <2>3, <2>4 DEF Tame
<1> QED
  BY <1>1, <1>2, <1>3

\* SRET runs in S-mode or above, and returns to U or S.
LEMMA SRetTame ==
  ASSUME NEW h \in HartType, NEW i, i.op = "sret"
  PROVE  Tame(h, i, SRetExec(h).hart)
<1>1. h.priv \in 0 .. 3 /\ U = 0 /\ S = 1 /\ M = 3
  BY DEF HartType, U, S, M
<1>2. CASE h.priv < S \/ "TSR" \in h.ms
  BY <1>1, <1>2 DEF SRetExec, Raise, Tame
<1>3. CASE ~ (h.priv < S \/ "TSR" \in h.ms)
  <2> DEFINE ms == SetBit(SetBit(SetBit(SetBit(h.ms, "SPP", FALSE),
                                        "SPIE", TRUE),
                                 "SIE", "SPIE" \in h.ms),
                          "MPRV", FALSE)
             prev == IF "SPP" \in h.ms THEN S ELSE U
             g == [h EXCEPT !.ms = ms, !.priv = prev, !.pc = h.sepc]
  <2>1. SRetExec(h).hart = g
    BY <1>3 DEF SRetExec, Done, HartType
  <2>2. ms \ (SstatusDesc \cup {"MPRV"}) = h.ms \ (SstatusDesc \cup {"MPRV"})
    BY DEF SetBit, SstatusDesc
  <2>3. prev <= h.priv
    BY <1>1, <1>3
  <2> HIDE DEF ms, prev
  <2>4. /\ g.priv = prev /\ g.mip = h.mip /\ g.ms = ms /\ g.mie = h.mie
        /\ g.mideleg = h.mideleg /\ g.medeleg = h.medeleg
        /\ g.mepc = h.mepc /\ g.mtvec = h.mtvec
    BY DEF HartType
  <2> HIDE DEF g
  <2> QED
    BY <2>1, <2>2, <2>3, <2>4 DEF Tame, MachineState, MachinePending
<1> QED
  BY <1>2, <1>3

\* A CSR instruction: with the access check, a mode below M writes only
\* registers whose view leaves the machine's fields alone.
LEMMA CsrTame ==
  ASSUME NEW h \in HartType, NEW i, i.op = "csr", i.acc \in CsrAccesses
  PROVE  Tame(h, i, CsrTypeExec(h, i.acc).hart)
<1>1. i.acc.csr \in CsrNames
  BY HartAssumption DEF HartAssumption
<1>2. h.priv \in 0 .. 3 /\ U = 0 /\ S = 1 /\ M = 3
  BY DEF HartType, U, S, M
<1>3. CASE ~ CsrAllowed(h, i.acc) \/ i.acc.op = "read"
  BY <1>2, <1>3 DEF CsrTypeExec, Raise, Done, Tame
<1>4. CASE CsrAllowed(h, i.acc) /\ i.acc.op # "read"
  <2>1. PICK g : g = Write(h, i.acc.csr, NewCsrVal(h, i.acc))
    OBVIOUS
  <2>2. CsrTypeExec(h, i.acc).hart = g
    BY <1>4, <2>1 DEF CsrTypeExec, Done
  <2>3. UnitTest /\ h.priv < M => CsrMode(i.acc.csr) < M
    BY <1>2, <1>4 DEF CsrAllowed, CsrMode
  <2>4. /\ g.priv = h.priv
        /\ i.acc.csr \notin {"mip", "sip"} => g.mip = h.mip
        /\ CsrMode(i.acc.csr) < M => /\ MachineState(g) = MachineState(h)
                                     /\ MachinePending(g) = MachinePending(h)
    BY <1>1, <2>1, WriteEffect
  <2> QED
    BY <1>2, <2>2, <2>3, <2>4 DEF Tame
<1> QED
  BY <1>3, <1>4

\* No instruction raises the mode or loses a pending bit, and with the access
\* check none below M-mode touches the machine's state.
LEMMA ExecTame ==
  ASSUME NEW h \in HartType, NEW i \in Instructions
  PROVE  Tame(h, i, Exec(h, i).hart)
<1>1. h.priv \in 0 .. 3
  BY Modes DEF HartType
<1>2. \A t : Raise(h, t).hart = h
  BY DEF Raise
<1>3. Done(h).hart = h
  BY DEF Done
<1>4. \A g : g.priv = h.priv /\ g.mip = h.mip /\ MachineState(g) = MachineState(h)
               => Tame(h, i, g)
  BY <1>1 DEF Tame, MachinePending
<1>5. i.op \in AllPlainOps \cup {"fault", "jump", "csr"}
  BY HartAssumption DEF HartAssumption, Instructions
<1>6. CASE i.op \in {"retire", "illegal", "ebreak", "fault"}
  BY <1>2, <1>3, <1>4, <1>6 DEF Exec
<1>7. CASE i.op = "jump"
  <2>1. Exec(h, i) = JumpExec(h, i.to)
    BY <1>7 DEF Exec
  <2>2. PICK g : g = [h EXCEPT !.pc = i.to]
    OBVIOUS
  <2>3. g.priv = h.priv /\ g.mip = h.mip /\ MachineState(g) = MachineState(h)
    BY <2>2 DEF HartType, MachineState
  <2>4. Done(g).hart = g
    BY DEF Done
  <2>5. Exec(h, i).hart \in {g, h}
    BY <1>2, <2>1, <2>2, <2>4 DEF JumpExec
  <2> QED
    BY <1>4, <2>3, <2>5
<1>8. CASE i.op = "csr"
  <2>1. Exec(h, i) = CsrTypeExec(h, i.acc)
    BY <1>8 DEF Exec
  <2>2. i.acc \in CsrAccesses
    BY <1>8, HartAssumption DEF HartAssumption, Instructions, AllPlainOps
  <2> QED
    BY <1>8, <2>1, <2>2, CsrTame
<1>9. CASE i.op = "ecall"
  BY <1>4, <1>9 DEF Exec, ECallExec, Raise
<1>10. CASE i.op = "mret"
  BY <1>10, MRetTame DEF Exec
<1>11. CASE i.op = "sret"
  BY <1>11, SRetTame DEF Exec
<1>12. CASE i.op = "wfi"
  <2>1. Exec(h, i) = WfiExec(h)
    BY <1>12 DEF Exec
  <2>2. PICK g : g = [h EXCEPT !.wfi = h.wfi \/ "TW" \in h.ms]
    OBVIOUS
  <2>3. g.priv = h.priv /\ g.mip = h.mip /\ MachineState(g) = MachineState(h)
    BY <2>2 DEF HartType, MachineState
  <2>4. Exec(h, i).hart = g
    BY <2>1, <2>2 DEF WfiExec, Done
  <2> QED
    BY <1>4, <2>3, <2>4
<1>13. CASE i.op = "sfence"
  <2>1. Exec(h, i) = SfenceVmaExec(h)
    BY <1>13 DEF Exec
  <2> QED
    BY <1>2, <1>3, <1>4, <2>1 DEF SfenceVmaExec
<1> QED
  BY <1>5, <1>6, <1>7, <1>8, <1>9, <1>10, <1>11, <1>12, <1>13 DEF AllPlainOps
-----------------------------------------------------------------------------
(* What a tick may do                                                      *)

\* A tick from the sampled hart h, in its three parts: the instruction makes
\* r, its exception e, and the interrupt t the hart of the next tick.
Parts(h, i, r, e, t, k) ==
  /\ r \in Outcome /\ r = TickOperate(h, i)
  /\ e \in HartType /\ e = HandleTrap(r.hart, r.trap, h.pc)
  /\ t \in Interrupts \cup {None} /\ t = FinalInterrupt(e)
  /\ k \in HartType /\ k = HandleTrap(e, t, e.pc)
  /\ hart' = [k EXCEPT !.mip = e.mip \ {t}, !.wfi = IF t = None THEN k.wfi ELSE FALSE]
  /\ last'.exc = r.trap /\ last'.irq = t
  /\ last'.mipWritten = (~ h.wfi /\ i.op = "csr" /\ i.acc.csr \in {"mip", "sip"})

\* Every step of the hart is such a tick, from the hart with its lines
\* sampled, or a reset.
LEMMA StepParts ==
  ASSUME TypeOK, Next
  PROVE  \/ hart' = ResetHart /\ last' = Quiet
         \/ \E h \in HartType, i \in Instructions : \E r, e, t, k :
              /\ Parts(h, i, r, e, t, k)
              /\ h = [hart EXCEPT !.mip = h.mip]
              /\ \A u \in {"SSI", "STI"} : u \in hart.mip => u \in h.mip
              /\ \/ MachinePending(h) = MachinePending(hart)
                 \/ MachinePending(h) \subseteq Lines
<1>1. CASE Reset
  BY <1>1 DEF Reset
<1>2. CASE \E h \in HartType, i \in Instructions :
             /\ RunTick(h, i)
             /\ h = hart \/ \E lines \in SUBSET Lines : h = UpdateMip(hart, lines)
  <2>1. PICK h \in HartType, i \in Instructions :
             /\ RunTick(h, i)
             /\ h = hart \/ \E lines \in SUBSET Lines : h = UpdateMip(hart, lines)
    BY <1>2
  <2>2. /\ h = [hart EXCEPT !.mip = h.mip]
        /\ \A u \in {"SSI", "STI"} : u \in hart.mip => u \in h.mip
        /\ \/ MachinePending(h) = MachinePending(hart)
           \/ MachinePending(h) \subseteq Lines
    BY <2>1, SampledHart DEF TypeOK
  <2>3. PICK r \in Outcome : r = TickOperate(h, i)
    BY TickOperateType
  <2>4. PICK e \in HartType : e = HandleTrap(r.hart, r.trap, h.pc)
    BY <2>1, <2>3, RunTickSplit DEF AfterTrap
  <2>5. /\ hart' = HandleInterrupt(e) /\ last'.exc = r.trap
        /\ last'.irq = FinalInterrupt(e)
        /\ last'.mipWritten = (~ h.wfi /\ i.op = "csr" /\ i.acc.csr \in {"mip", "sip"})
    BY <2>1, <2>3, <2>4, RunTickSplit DEF AfterTrap
  <2>6. PICK t \in Interrupts \cup {None}, k \in HartType :
          /\ t = FinalInterrupt(e)
          /\ k = HandleTrap(e, t, e.pc)
          /\ HandleInterrupt(e) = [k EXCEPT !.mip = e.mip \ {t},
                                   !.wfi = IF t = None THEN k.wfi ELSE FALSE]
    BY HandleInterruptEffect
  <2>7. Parts(h, i, r, e, t, k)
    BY <2>3, <2>4, <2>5, <2>6 DEF Parts
  <2> QED
    BY <2>2, <2>7
<1> QED
  BY <1>1, <1>2, NextSplit

\* The first part is tame, stalled or not.
LEMMA TickOperateTame ==
  ASSUME NEW h \in HartType, NEW i \in Instructions, NEW r, r = TickOperate(h, i)
  PROVE  /\ r.hart.priv <= h.priv
         /\ h.wfi \/ ~ (i.op = "csr" /\ i.acc.csr \in {"mip", "sip"}) => r.hart.mip = h.mip
         /\ UnitTest /\ h.priv < M => /\ MachineState(r.hart) = MachineState(h)
                                       /\ MachinePending(r.hart) = MachinePending(h)
<1>1. h.priv \in 0 .. 3
  BY Modes DEF HartType
<1>2. CASE h.wfi
  <2>1. r.hart = [h EXCEPT !.wfi = h.mie \cap h.mip = {}]
    BY <1>2 DEF TickOperate, Done
  <2> QED
    BY <1>1, <2>1 DEF HartType, MachineState, MachinePending
<1>3. CASE ~ h.wfi
  <2>1. PICK g : g = [h EXCEPT !.pc = (h.pc + 4) % AddrSpace]
    OBVIOUS
  <2>2. g \in HartType
    <3>1. (h.pc + 4) % AddrSpace \in Address
      BY ModAddress, HartAssumption DEF HartAssumption, HartType, Address
    <3> QED
      BY <2>1, <3>1 DEF HartType
  <2>3. g.priv = h.priv /\ g.mip = h.mip /\ MachineState(g) = MachineState(h)
    BY <2>1 DEF HartType, MachineState
  <2>4. r = Exec(g, i)
    BY <1>3, <2>1 DEF TickOperate
  <2>5. Tame(g, i, r.hart)
    BY <2>2, <2>4, ExecTame
  <2> QED
    BY <1>3, <2>3, <2>5 DEF Tame, MachinePending
<1> QED
  BY <1>2, <1>3

\* A more privileged mode is entered only at its vector, with the cause of the
\* trap that entered it: HandleTrap is the only code that raises priv_mode_.
THEOREM VectorOnly == Spec => RisesOnlyThroughVector
<1> DEFINE Rises ==
      hart'.priv > hart.priv =>
        \/ hart' = ResetHart
        \/ LET t == IF last'.irq # None THEN last'.irq ELSE last'.exc
               v == IF hart'.priv = M THEN hart'.mtvec ELSE hart'.stvec
           IN  /\ t # None
               /\ hart'.priv \in {S, M}
               /\ hart'.pc = GetTrapPC(v, t)
<1>1. TypeOK /\ [Next]_vars => [Rises]_vars
  <2>1. ASSUME TypeOK, Next PROVE Rises
    <3>1. SUFFICES ASSUME NEW h \in HartType, NEW i \in Instructions,
                          NEW r, NEW e, NEW t, NEW k, Parts(h, i, r, e, t, k),
                          h = [hart EXCEPT !.mip = h.mip], hart'.priv > hart.priv
                   PROVE  LET c == IF last'.irq # None THEN last'.irq ELSE last'.exc
                              v == IF hart'.priv = M THEN hart'.mtvec ELSE hart'.stvec
                          IN  /\ c # None
                              /\ hart'.priv \in {S, M}
                              /\ hart'.pc = GetTrapPC(v, c)
      BY <2>1, StepParts
    <3>2. /\ hart'.priv = k.priv /\ hart'.pc = k.pc
          /\ hart'.mtvec = k.mtvec /\ hart'.stvec = k.stvec
          /\ last'.irq = t /\ last'.exc = r.trap
          /\ h.priv = hart.priv
      BY <2>1, <3>1 DEF Parts, HartType, TypeOK
    <3>3. S # M
      BY DEF S, M
    <3>4. CASE t # None
      <4>1. /\ k.mtvec = e.mtvec /\ k.stvec = e.stvec
            /\ TrapToS(e, t) => k.priv = S /\ k.pc = GetTrapPC(e.stvec, t)
            /\ ~ TrapToS(e, t) => k.priv = M /\ k.pc = GetTrapPC(e.mtvec, t)
        BY <3>1, <3>4, HandleTrapEffect, SMTT(20) DEF Parts
      <4> QED
        BY <3>2, <3>3, <3>4, <4>1
    <3>5. CASE t = None
      <4>1. k = e
        BY <3>1, <3>5, HandleTrapEffect DEF Parts
      <4>2. r.hart \in HartType
        BY <3>1 DEF Parts, Outcome
      <4>3. /\ e.mtvec = r.hart.mtvec /\ e.stvec = r.hart.stvec
            /\ r.trap = None => e = r.hart
            /\ r.trap # None /\ TrapToS(r.hart, r.trap) =>
                 e.priv = S /\ e.pc = GetTrapPC(r.hart.stvec, r.trap)
            /\ r.trap # None /\ ~ TrapToS(r.hart, r.trap) =>
                 e.priv = M /\ e.pc = GetTrapPC(r.hart.mtvec, r.trap)
        BY <3>1, <4>2, HandleTrapEffect, SMTT(20) DEF Parts
      <4>4. r.trap # None
        <5>1. r.hart.priv <= h.priv
          BY <3>1, TickOperateTame DEF Parts
        <5>2. r.hart.priv \in 0 .. 3 /\ h.priv \in 0 .. 3
          BY <3>1, <4>2, Modes DEF HartType
        <5> QED
          BY <3>1, <3>2, <4>1, <4>3, <5>1, <5>2
      <4> QED
        BY <3>2, <3>3, <3>5, <4>1, <4>3, <4>4
    <3> QED
      BY <3>4, <3>5
  <2> QED
    BY <2>1
<1> QED
  BY <1>1, TypeCorrect, PTL DEF Spec, RisesOnlyThroughVector

\* A software-set pending bit leaves mip only when its interrupt is taken, by
\* a write of mip or sip, or at CPU::Reset: neither the lines nor the
\* write-back of mip in HandleInterrupt loses one.
THEOREM PendingKept == Spec => SoftwarePendingKept
<1>1. TypeOK /\ [Next]_vars => [PendingStays]_vars
  <2>1. ASSUME TypeOK, Next, NEW u \in {"SSI", "STI"},
               u \in hart.mip, u \notin hart'.mip, hart' # ResetHart
        PROVE  last'.irq = u \/ last'.mipWritten
    <3>0. PICK h \in HartType, i \in Instructions :
            \E r, e, t, k : Parts(h, i, r, e, t, k) /\ u \in h.mip
      BY <2>1, StepParts
    <3>1. PICK r, e, t, k : Parts(h, i, r, e, t, k) /\ u \in h.mip
      BY <3>0
    <3>2. hart'.mip = e.mip \ {t} /\ last'.irq = t
      BY <3>1 DEF Parts, HartType
    <3>3. r.hart \in HartType
      BY <3>1 DEF Parts, Outcome
    <3>4. e.mip = r.hart.mip
      BY <3>1, <3>3, HandleTrapEffect DEF Parts
    <3>5. h.wfi \/ ~ (i.op = "csr" /\ i.acc.csr \in {"mip", "sip"}) => r.hart.mip = h.mip
      BY <3>1, TickOperateTame DEF Parts
    <3>6. last'.mipWritten = (~ h.wfi /\ i.op = "csr" /\ i.acc.csr \in {"mip", "sip"})
      BY <3>1 DEF Parts
    <3> QED
      BY <2>1, <3>1, <3>2, <3>4, <3>5, <3>6
  <2> QED
    BY <2>1 DEF PendingStays
<1> QED
  BY <1>1, TypeCorrect, PTL DEF Spec, SoftwarePendingKept

\* Entering S-mode, and entering nothing, leave the machine's state alone; a
\* trap that goes elsewhere goes to M-mode.
LEMMA HandleTrapKeeps ==
  ASSUME NEW h \in HartType, NEW t, NEW epc, NEW g, g = HandleTrap(h, t, epc),
         g.priv < M
  PROVE  MachineState(g) = MachineState(h) /\ h.priv < M
<1>1. h.priv \in 0 .. 3 /\ U = 0 /\ S = 1 /\ M = 3
  BY DEF HartType, U, S, M
<1>2. CASE t = None
  BY <1>2 DEF HandleTrap
<1>3. CASE t # None
  <2>1. /\ g.mie = h.mie /\ g.mideleg = h.mideleg /\ g.medeleg = h.medeleg
        /\ g.mtvec = h.mtvec /\ g.mepc = h.mepc /\ TrapToS(h, t)
        /\ \A b : b \notin {"SIE", "SPIE", "SPP"} => (b \in g.ms <=> b \in h.ms)
    BY <1>1, <1>3, HandleTrapEffect
  <2>2. g.ms \ (SstatusDesc \cup {"MPRV"}) = h.ms \ (SstatusDesc \cup {"MPRV"})
    BY <2>1 DEF SstatusDesc
  <2>3. h.priv < M
    BY <1>1, <2>1 DEF TrapToS
  <2> QED
    BY <2>1, <2>2, <2>3 DEF MachineState
<1> QED
  BY <1>2, <1>3

\* An interrupt taken to a mode below M is a supervisor interrupt: the machine's
\* pending bits stay.
LEMMA InterruptKeepsPending ==
  ASSUME NEW e \in HartType, NEW t \in Interrupts \cup {None}, NEW k,
         k = HandleTrap(e, t, e.pc), k.priv < M
  PROVE  (e.mip \ {t}) \ kCsrSInterruptMask = MachinePending(e)
<1>1. ~ (M < M) /\ e.mip \subseteq Interrupts /\ e.mideleg \subseteq SupervisorIrqs
  BY DEF M, HartType
<1>2. CASE t = None
  BY <1>1, <1>2, MachineOutranks DEF MachinePending
<1>3. CASE t # None
  <2>1. TrapToS(e, t)
    BY <1>1, <1>3, HandleTrapEffect
  <2>2. t \in SupervisorIrqs
    BY <1>1, <1>3, <2>1 DEF TrapToS
  <2> QED
    BY <2>2 DEF MachinePending, kCsrSInterruptMask
<1> QED
  BY <1>2, <1>3

\* With the access check of CsrTypeExec compiled in, code below M-mode never
\* changes machine-level state unless the tick enters M-mode by a trap, and a
\* machine interrupt becomes pending by its line alone.
THEOREM MachineStateKept == Spec => LowerModesKeepMachineState
<1> DEFINE Kept ==
      UnitTest /\ hart.priv < M /\ hart'.priv < M =>
        /\ MachineState(hart') = MachineState(hart)
        /\ \/ MachinePending(hart') = MachinePending(hart)
           \/ MachinePending(hart') \subseteq Lines
<1>1. TypeOK /\ [Next]_vars => [Kept]_vars
  <2>1. ASSUME TypeOK, Next, UnitTest, hart.priv < M, hart'.priv < M
        PROVE  /\ MachineState(hart') = MachineState(hart)
               /\ \/ MachinePending(hart') = MachinePending(hart)
                  \/ MachinePending(hart') \subseteq Lines
    <3>0. ~ (M < M) /\ ResetHart.priv = M
      BY DEF M, ResetHart
    <3>1. SUFFICES ASSUME NEW h \in HartType, NEW i \in Instructions,
                          NEW r, NEW e, NEW t, NEW k, Parts(h, i, r, e, t, k),
                          h = [hart EXCEPT !.mip = h.mip],
                          \/ MachinePending(h) = MachinePending(hart)
                          \/ MachinePending(h) \subseteq Lines
                   PROVE  /\ MachineState(hart') = MachineState(hart)
                          /\ MachinePending(hart') = MachinePending(h)
      BY <2>1, <3>0, StepParts
    <3>2. hart'.priv = k.priv /\ MachineState(hart') = MachineState(k)
      BY <3>1 DEF Parts, HartType, MachineState
    <3>3. h.priv = hart.priv /\ MachineState(h) = MachineState(hart)
      BY <2>1, <3>1 DEF TypeOK, HartType, MachineState
    <3>4. MachineState(k) = MachineState(e) /\ e.priv < M
      BY <2>1, <3>1, <3>2, HandleTrapKeeps, SMTT(20) DEF Parts
    <3>5. r.hart \in HartType
      BY <3>1 DEF Parts, Outcome
    <3>6. MachineState(e) = MachineState(r.hart)
      BY <3>1, <3>4, <3>5, HandleTrapKeeps DEF Parts
    <3>7. /\ MachineState(r.hart) = MachineState(h)
          /\ MachinePending(r.hart) = MachinePending(h)
      BY <2>1, <3>1, <3>3, TickOperateTame DEF Parts
    <3>8. e.mip = r.hart.mip
      BY <3>1, <3>5, HandleTrapEffect DEF Parts
    <3>9. MachinePending(hart') = MachinePending(e)
      <4>1. hart'.mip = e.mip \ {t} /\ k.priv < M
        BY <2>1, <3>1, <3>2 DEF Parts, HartType
      <4>2. (e.mip \ {t}) \ kCsrSInterruptMask = MachinePending(e)
        BY <3>1, <4>1, InterruptKeepsPending DEF Parts
      <4> QED
        BY <4>1, <4>2 DEF MachinePending
    <3>10. MachinePending(e) = MachinePending(r.hart)
      BY <3>8 DEF MachinePending
    <3> QED
      BY <3>2, <3>3, <3>4, <3>6, <3>7, <3>9, <3>10
  <2> QED
    BY <2>1
<1> QED
  BY <1>1, TypeCorrect, PTL DEF Spec, LowerModesKeepMachineState

\* A stalled hart does nothing but sample its lines, and leaves the stall at
\* the first tick that finds an enabled interrupt pending, masked or not.
THEOREM StallEnds == Spec => StallUntilPending
<1> DEFINE Stalls ==
      hart.wfi =>
        IF hart'.wfi
        THEN /\ hart'.mip \cap hart'.mie = {}
             /\ hart' = [hart EXCEPT !.mip = hart'.mip]
        ELSE \/ hart' = ResetHart
             \/ hart.mie \cap (hart'.mip \cup {last'.irq}) # {}
<1>1. TypeOK /\ [Next]_vars => [Stalls]_vars
  <2>1. ASSUME TypeOK, Next, hart.wfi PROVE Stalls
    <3>0. hart \in HartType /\ ResetHart.wfi = FALSE
      BY <2>1 DEF TypeOK, ResetHart
    <3>1. SUFFICES ASSUME NEW h \in HartType, NEW i \in Instructions,
                          NEW r, NEW e, NEW t, NEW k, Parts(h, i, r, e, t, k),
                          h = [hart EXCEPT !.mip = h.mip]
                   PROVE  Stalls
      BY <2>1, <3>0, StepParts
    <3>2. h.wfi /\ h.mie = hart.mie
      BY <2>1, <3>0, <3>1 DEF HartType
    <3>3. r.hart = [h EXCEPT !.wfi = h.mie \cap h.mip = {}] /\ r.trap = None
      BY <3>1, <3>2 DEF Parts, TickOperate, Done
    <3>4. e = r.hart
      BY <3>1, <3>3 DEF Parts, HandleTrap
    <3>5. /\ e.mip = h.mip /\ e.mie = h.mie /\ e.wfi = (h.mie \cap h.mip = {})
          /\ e = [h EXCEPT !.wfi = e.wfi]
      BY <3>3, <3>4 DEF HartType
    <3>6. /\ hart'.mip = e.mip \ {t}
          /\ hart'.wfi = IF t = None THEN k.wfi ELSE FALSE
          /\ last'.irq = t
      BY <3>1 DEF Parts, HartType
    <3>7. CASE t # None
      <4>1. t \in e.mip \cap e.mie
        BY <3>1, <3>7, FinalInterruptPending DEF Parts
      <4> QED
        BY <3>2, <3>5, <3>6, <3>7, <4>1
    <3>8. CASE t = None
      <4>1. k = e
        BY <3>1, <3>8 DEF Parts, HandleTrap
      <4>2. None \notin e.mip
        BY <3>1, MachineOutranks DEF Parts, HartType
      <4>3. hart'.mip = e.mip /\ hart'.wfi = e.wfi
        BY <3>6, <3>8, <4>1, <4>2
      <4>4. e \in HartType /\ e.mip \ {t} = e.mip
        BY <3>1, <3>8, <4>2 DEF Parts
      <4>5. hart' = e
        <5>1. hart' = [e EXCEPT !.mip = e.mip \ {t}, !.wfi = IF t = None THEN e.wfi ELSE FALSE]
          BY <3>1, <4>1 DEF Parts
        <5>2. hart' = [e EXCEPT !.mip = e.mip, !.wfi = e.wfi]
          BY <3>8, <4>4, <5>1
        <5> QED
          BY <4>4, <5>2 DEF HartType
      <4>6. CASE ~ e.wfi
        <5>1. h.mie \cap h.mip # {}
          BY <3>5, <4>6
        <5> QED
          BY <3>2, <3>5, <4>3, <4>6, <5>1
      <4>7. CASE e.wfi
        <5>1. h.mie \cap h.mip = {}
          BY <3>5, <4>7
        <5>2. e = h
          <6>1. e = [h EXCEPT !.wfi = TRUE]
            BY <3>5, <4>7
          <6> QED
            BY <3>2, <6>1 DEF HartType
        <5>3. hart' = [hart EXCEPT !.mip = hart'.mip]
          BY <3>0, <3>1, <4>5, <5>2 DEF HartType
        <5> QED
          BY <3>5, <4>3, <4>5, <4>7, <5>1, <5>2, <5>3
      <4> QED
        BY <4>6, <4>7
    <3> QED
      BY <3>7, <3>8
  <2> QED
    BY <2>1
<1> QED
  BY <1>1, TypeCorrect, PTL DEF Spec, StallUntilPending
-----------------------------------------------------------------------------
(* Entry and return are inverse                                            *)

\* A trap to S-mode, then SRET.
LEMMA RoundTripS ==
  ASSUME NEW h \in HartType, NEW t, h.priv # Reserved, TrapToS(h, t),
         NEW g, g = EnterS(h, t, h.pc),
         NEW r, r = SRetExec(g), r.trap = None
  PROVE  [r.hart EXCEPT !.sepc = 0, !.ms = @ \ {"SPIE", "SPP", "MPRV"}]
           = [h EXCEPT !.sepc = 0, !.ms = @ \ {"SPIE", "SPP", "MPRV"}]
<1> DEFINE lost == {"SPIE", "SPP", "MPRV"}
<1>1. PICK ms : ms = SetBit(SetBit(SetBit(h.ms, "SPIE", "SIE" \in h.ms),
                                   "SIE", FALSE),
                            "SPP", h.priv % 2 = 1)
  OBVIOUS
<1>2. PICK pc : g = [h EXCEPT !.pc = pc, !.sepc = h.pc, !.ms = ms, !.priv = S]
  BY <1>1 DEF EnterS, HartType
<1>3. g.ms = ms /\ g.sepc = h.pc
  BY <1>2 DEF HartType
<1>4. PICK ns : ns = SetBit(SetBit(SetBit(SetBit(ms, "SPP", FALSE), "SPIE", TRUE),
                                   "SIE", "SPIE" \in ms),
                            "MPRV", FALSE)
  OBVIOUS
<1>5. r.hart = [g EXCEPT !.ms = ns, !.priv = IF "SPP" \in ms THEN S ELSE U,
                         !.pc = h.pc]
  <2>1. Raise(g, "IllegalInstruction").trap # None
    BY DEF Raise, None
  <2>2. r = Done([g EXCEPT !.ms = ns, !.priv = IF "SPP" \in ms THEN S ELSE U,
                           !.pc = h.pc])
    BY <1>2, <1>3, <1>4, <2>1 DEF SRetExec, HartType
  <2> QED
    BY <2>2 DEF Done
<1>6. (IF "SPP" \in ms THEN S ELSE U) = h.priv
  <2>1. h.priv \in {0, 1} /\ S = 1 /\ U = 0
    BY Modes DEF TrapToS, HartType, S, U, M, Reserved
  <2>2. "SPP" \in ms <=> h.priv % 2 = 1
    BY <1>1 DEF SetBit
  <2> QED
    BY <2>1, <2>2
<1>7. ns \ lost = h.ms \ lost
  BY <1>1, <1>4 DEF SetBit
<1>8. r.hart = [h EXCEPT !.sepc = h.pc, !.ms = ns]
  <2>1. r.hart = [g EXCEPT !.ms = ns, !.priv = h.priv, !.pc = h.pc]
    BY <1>5, <1>6
  <2> QED
    BY <1>2, <2>1 DEF HartType
<1>9. /\ r.hart.ms = ns
      /\ [r.hart EXCEPT !.sepc = 0, !.ms = ns \ lost]
           = [h EXCEPT !.sepc = 0, !.ms = ns \ lost]
  BY <1>8 DEF HartType
<1> QED
  BY <1>7, <1>9

\* A trap to M-mode, then MRET.
LEMMA RoundTripM ==
  ASSUME NEW h \in HartType, NEW t,
         NEW g, g = EnterM(h, t, h.pc),
         NEW r, r = MRetExec(g), r.trap = None
  PROVE  [r.hart EXCEPT !.mepc = 0, !.ms = @ \ {"MPIE", "MPP0", "MPP1", "MPRV"}]
           = [h EXCEPT !.mepc = 0, !.ms = @ \ {"MPIE", "MPP0", "MPP1", "MPRV"}]
<1> DEFINE lost == {"MPIE", "MPP0", "MPP1", "MPRV"}
<1>1. PICK ms : ms = SetMpp(SetBit(SetBit(h.ms, "MPIE", "MIE" \in h.ms),
                                   "MIE", FALSE), h.priv)
  OBVIOUS
<1>2. PICK pc : g = [h EXCEPT !.pc = pc, !.mepc = h.pc, !.ms = ms, !.priv = M]
  BY <1>1 DEF EnterM, HartType
<1>3. g.ms = ms /\ g.mepc = h.pc
  BY <1>2 DEF HartType
<1>4. PICK ns : ns = SetBit(SetBit(SetBit(SetMpp(ms, U), "MPIE", TRUE),
                                   "MIE", "MPIE" \in ms),
                            "MPRV", Mpp(ms) = M /\ "MPRV" \in ms)
  OBVIOUS
<1>5. r.hart = [g EXCEPT !.ms = ns, !.priv = Mpp(ms), !.pc = h.pc]
  <2>1. Raise(g, "IllegalInstruction").trap # None
    BY DEF Raise, None
  <2>2. ReturnFromM(g) = [g EXCEPT !.ms = ns, !.priv = Mpp(ms), !.pc = h.pc]
    BY <1>2, <1>3, <1>4 DEF ReturnFromM, HartType
  <2>3. r = Done(ReturnFromM(g))
    BY <2>1 DEF MRetExec
  <2> QED
    BY <2>2, <2>3 DEF Done
<1>6. Mpp(ms) = h.priv
  <2>1. h.priv \in 0 .. 3
    BY Modes DEF HartType
  <2>2. /\ "MPP0" \in ms <=> h.priv % 2 = 1
        /\ "MPP1" \in ms <=> h.priv >= 2
    BY <1>1, <2>1 DEF SetMpp, SetBit
  <2> QED
    BY <2>1, <2>2 DEF Mpp
<1>7. ns \ lost = h.ms \ lost
  BY <1>1, <1>4, ZenonT(40) DEF SetBit, SetMpp
<1>8. r.hart = [h EXCEPT !.mepc = h.pc, !.ms = ns]
  <2>1. r.hart = [g EXCEPT !.ms = ns, !.priv = h.priv, !.pc = h.pc]
    BY <1>5, <1>6
  <2> QED
    BY <1>2, <2>1, ZenonT(40) DEF HartType
<1>9. /\ r.hart.ms = ns
      /\ [r.hart EXCEPT !.mepc = 0, !.ms = ns \ lost]
           = [h EXCEPT !.mepc = 0, !.ms = ns \ lost]
  BY <1>8 DEF HartType
<1> QED
  BY <1>7, <1>9

\* From every reachable state in an architected mode, a trap and the return
\* from it give back the whole hart but for what a trap to that mode
\* overwrites (HandleTrap, MRetExec, SRetExec).
THEOREM ReturnsRestore == Spec => []TrapThenReturnRestores
<1>1. ASSUME TypeOK PROVE TrapThenReturnRestores
  <2>1. SUFFICES ASSUME hart.priv # Reserved, NEW t \in Exceptions \cup Interrupts,
                        NEW h, h = HandleTrap(hart, t, hart.pc),
                        NEW r, r = IF h.priv = S THEN SRetExec(h) ELSE MRetExec(h),
                        r.trap = None
                 PROVE  IF h.priv = S
                        THEN [r.hart EXCEPT !.sepc = 0, !.ms = @ \ {"SPIE", "SPP", "MPRV"}]
                               = [hart EXCEPT !.sepc = 0, !.ms = @ \ {"SPIE", "SPP", "MPRV"}]
                        ELSE [r.hart EXCEPT !.mepc = 0, !.ms = @ \ {"MPIE", "MPP0", "MPP1", "MPRV"}]
                               = [hart EXCEPT !.mepc = 0, !.ms = @ \ {"MPIE", "MPP0", "MPP1", "MPRV"}]
    BY DEF TrapThenReturnRestores
  <2>2. hart \in HartType /\ t # None /\ S # M
    BY <1>1, MachineOutranks DEF TypeOK, Exceptions, Interrupts, None, S, M
  <2>3. CASE TrapToS(hart, t)
    <3>1. h = EnterS(hart, t, hart.pc) /\ h.priv = S
      BY <2>1, <2>2, <2>3 DEF HandleTrap, EnterS, HartType
    <3> QED
      BY <2>1, <2>2, <2>3, <3>1, RoundTripS
  <2>4. CASE ~ TrapToS(hart, t)
    <3>1. h = EnterM(hart, t, hart.pc) /\ h.priv = M
      BY <2>1, <2>2, <2>4 DEF HandleTrap, EnterM, HartType
    <3> QED
      BY <2>1, <2>2, <3>1, RoundTripM
  <2> QED
    BY <2>3, <2>4
<1> QED
  BY <1>1, TypeCorrect, PTL
=============================================================================
