-------------------------------- MODULE Jit --------------------------------
(***************************************************************************)
(* The code emitter (src/jit/jit.cc): it translates a block of decoded     *)
(* instructions to code for the host of module A64.  Guest registers live  *)
(* in host registers while the code runs, except gp and tp, which stay in  *)
(* the object of the hart; an instruction that names one of these borrows  *)
(* x0, x1 or x2, which are a0, a1 and a2 to the guest.  A block is opened  *)
(* by EmitProlog, closed by EmitEpilog, and called once.  An instruction   *)
(* is put together by hand, as in the unit test, or decoded from a word.   *)
(***************************************************************************)
EXTENDS A64, Assembler

CONSTANT
  Sessions       \* [instructions, words, length, files, mem, start, junk]: the
                 \* instructions and the words that a block is made of and how
                 \* many are counted, the contents of the registers before it
                 \* is called, the guest's memory, the pc of the block, and
                 \* what host memory and registers hold that nobody wrote

\* A decoded instruction, in the fields that the emitter reads.
Instruction ==
  [op : STRING, token : STRING, rd : Register, rs1 : Register, rs2 : Register, imm : Int,
   mem_size : Nat, pc : Int, size : {4}]

\* The tokens of each opcode that has an emitter.
EmitTokens ==
  [ kReg   |-> {"ADD", "SUB", "SLL", "SLT", "SLTU", "XOR", "SRL", "SRA", "OR", "AND", "MUL",
                "MULH", "MULHSU", "MULHU", "DIV", "DIVU", "REM", "REMU"},
    kRv32  |-> {"ADDW", "SUBW", "SLLW", "SRLW", "SRAW", "MULW", "DIVW", "DIVUW", "REMW", "REMUW"},
    kImm   |-> {"ADDI", "SLTI", "SLTIU", "XORI", "ORI", "ANDI", "SLLI", "SRLI", "SRAI"},
    kImm32 |-> {"ADDIW", "SLLIW", "SRLIW", "SRAIW"},
    kLui   |-> {"LUI"}, kAuipc |-> {"AUIPC"}, kJal |-> {"JAL"}, kJalr |-> {"JALR"},
    kLoad  |-> {"LB", "LH", "LW", "LD", "LBU", "LHU", "LWU"},
    kStore |-> {"SB", "SH", "SW", "SD"} ]

\* What a constructor of DecodeInfo, or a careful test, makes.
WellFormed(i) ==
  /\ i \in Instruction
  /\ i.op \in DOMAIN EmitTokens /\ i.token # "UNKNOWN" =>
       /\ i.token \in EmitTokens[i.op]
       /\ i.op \in {"kLoad", "kStore"} => i.mem_size = kAccessMemBytes[i.token]

Registers == 0 .. 2^Bits - 1

\* A byte has an eighth of the bits of a register.
ASSUME JitAssumption ==
  /\ Bits >= 8 /\ Base = 2^(Bits \div 8) /\ PowersOfBase
  /\ \A s \in Sessions :
       /\ \A i \in s.instructions : WellFormed(i)
       /\ \A a \in s.words : a.word \in InstWord /\ a.info \in Instruction /\ Assembles(a)
       /\ s.length \in Registers /\ s.start \in Nat /\ s.junk \subseteq Registers
       /\ \A f \in s.files : f \in [DOMAIN f -> Registers] /\ DOMAIN f \subseteq Register
       /\ DOMAIN s.mem \subseteq Nat /\ s.mem \in [DOMAIN s.mem -> Byte]

VARIABLES
  session,       \* the one of Sessions that this is
  stage,         \* "new", "open", "closed" or "returned"
  code,          \* what the assembler holds, a piece for each emitter called
  delta_instret_,
  host,          \* the machine, see A64
  block, refused,   \* history: the instructions emitted, and whether Emit
                    \* returned false for one
  read,          \* history: the latest instruction, and what the block's author
                 \* meant by it
  before         \* history: the registers of the guest when the block was called

vars == <<session, stage, code, delta_instret_, host, block, refused, read, before>>

-----------------------------------------------------------------------------
(* Registers                                                               *)

kRv64ToA64Map ==
  <<8, 18, -1, -1, 9, 10, 11, 16, 17, 0, 1, 2, 3, 4, 5, 6, 7, 19, 20, 21, 22, 23,
    24, 25, 26, 27, 28, 12, 13, 14, 15>>

kA64ToRv64Map ==
  <<10, 11, 12, 13, 14, 15, 16, 17, 1, 5, 6, 7, 28, 29, 30, 31, 8, 9, 2, 18, 19,
    20, 21, 22, 23, 24, 25, 26, 27>>

A64Reg(r) == IF r = 0 THEN Zr ELSE kRv64ToA64Map[r]
Mapped(r) == A64Reg(r) >= 0

\* XRegToMem(r) is the address <<29, r>>: x29 holds the address of the hart.
Cpu == 29

\* The loops over registers, as pairs of a host register and its place: the guest
\* registers that have a host register, the ones that a call may change, and
\* those of the caller.
MappedRegs == {<<A64Reg(r), r>> : r \in {g \in 0 .. 31 : Mapped(g)}}
VolatileRegs == {<<i, kA64ToRv64Map[i + 1]>> : i \in 0 .. 18}
AllRegs == {<<i, i>> : i \in 0 .. 30}
FrameRegs == {<<29, 0>>, <<30, 1>>}

SaveVolatileA64Reg == <<Strs(VolatileRegs, Cpu)>>

RestoreVolatileA64Reg == <<Ldrs(VolatileRegs, Cpu)>>

\* The frame around the code for one instruction, in slots of the stack: the host
\* register of an operand is its own or the one it borrows, which is saved on the
\* stack.  The result is in the host register of rd (the old value of rd, which is
\* loaded first, is not used).  An operand that the instruction lacks is 0.
Borrows(r, x) == IF Mapped(r) THEN A64Reg(r) ELSE x

SaveAndLoad(r, x) ==
  IF Mapped(r) THEN <<>> ELSE <<Str(x, Sp, x), Ldr(x, Cpu, r)>>
GiveBack(r, x) == IF Mapped(r) THEN <<>> ELSE <<Ldr(x, Sp, x)>>

Result(rd, body) ==
  IF Mapped(rd) THEN body
  ELSE <<Str(0, Sp, 0)>> \o body \o <<Str(0, Cpu, rd), Ldr(0, Sp, 0)>>

Frame(slots, rd, rs1, rs2, body) ==
  IF Mapped(rd) /\ Mapped(rs1) /\ Mapped(rs2) THEN body
  ELSE <<AddSp(-slots)>> \o SaveAndLoad(rs2, 2) \o SaveAndLoad(rs1, 1) \o Result(rd, body)
         \o GiveBack(rs1, 1) \o GiveBack(rs2, 2) \o <<AddSp(slots)>>

-----------------------------------------------------------------------------
(* Arithmetic                                                              *)

\* Tokens that take one instruction of the host.
RegOps ==
  [ ADD |-> "add", SUB |-> "sub", SLL |-> "lsl", XOR |-> "eor", SRL |-> "lsr",
    SRA |-> "asr", OR |-> "orr", AND |-> "and", MUL |-> "mul", MULH |-> "smulh",
    MULHU |-> "umulh" ]

\* A division, with the result for a divisor of 0 apart.
Division(w, rd, rs1, rs2, op, rest, zero) ==
  <<Cbz(w, rs2, "zero"), Op(op, w, rd, rs1, rs2)>> \o rest
    \o <<B("end"), Bind("zero"), zero, Bind("end")>>

SelectA64RegInstruction(rd, rs1, rs2, token) ==
  LET remainder == <<Msub(Bits, rd, rd, rs2, rs1)>>
      ones      == Mov(rd, 2^Bits - 1)
  IN  CASE token \in DOMAIN RegOps -> <<Op(RegOps[token], Bits, rd, rs1, rs2)>>
        [] token = "SLT"  -> <<Cmp(rs1, rs2), Cset(rd, "kLT")>>
        [] token = "SLTU" -> <<Cmp(rs1, rs2), Cset(rd, "kLO")>>
        [] token = "MULHSU" ->
             << Cbz(Bits, rs1, "zero"), Cbz(Bits, rs2, "zero"), TbnzTop(rs1, "signed"),
                Op("umulh", Bits, rd, rs1, rs2), B("end"),
                Bind("signed"), Op("sub", Bits, rd, Zr, rs1),
                Op("umulh", Bits, rd, rd, rs2), Op("orn", Bits, rd, Zr, rd), B("end"),
                Bind("zero"), Mov(rd, 0), Bind("end") >>
        [] token = "DIV"  -> Division(Bits, rd, rs1, rs2, "sdiv", <<>>, ones)
        [] token = "DIVU" -> Division(Bits, rd, rs1, rs2, "udiv", <<>>, ones)
        [] token = "REM"  -> Division(Bits, rd, rs1, rs2, "sdiv", remainder, MovReg(rd, rs1))
        [] token = "REMU" -> Division(Bits, rd, rs1, rs2, "udiv", remainder, MovReg(rd, rs1))

Reg32Ops ==
  [ ADDW |-> "add", SUBW |-> "sub", SLLW |-> "lsl", SRLW |-> "lsr", SRAW |-> "asr",
    MULW |-> "mul" ]

SelectA64Reg32Instruction(wd, ws1, ws2, token) ==
  LET remainder == <<Msub(Half, wd, wd, ws2, ws1)>>
      ones      == Mov(wd, 2^Half - 1)
      rs1       == OpImm("add", Half, wd, ws1, 0)   \* mov wd, ws1
  IN  (CASE token \in DOMAIN Reg32Ops -> <<Op(Reg32Ops[token], Half, wd, ws1, ws2)>>
         [] token = "DIVW"  -> Division(Half, wd, ws1, ws2, "sdiv", <<>>, ones)
         [] token = "DIVUW" -> Division(Half, wd, ws1, ws2, "udiv", <<>>, ones)
         [] token = "REMW"  -> Division(Half, wd, ws1, ws2, "sdiv", remainder, rs1)
         [] token = "REMUW" -> Division(Half, wd, ws1, ws2, "udiv", remainder, rs1))
      \o <<Sxt(wd, wd, Half)>>

ImmOps ==
  [ ADDI |-> "add", XORI |-> "eor", ORI |-> "orr", ANDI |-> "and", SLLI |-> "lsl",
    SRLI |-> "lsr", SRAI |-> "asr" ]

SelectA64ImmInstruction(rd, rs1, imm, token) ==
  <<Mov(rd, Reg(imm))>> \o
    CASE token \in DOMAIN ImmOps -> <<Op(ImmOps[token], Bits, rd, rs1, rd)>>
      [] token = "SLTI"  -> <<Cmp(rs1, rd), Cset(rd, "kLT")>>
      [] token = "SLTIU" -> <<Cmp(rs1, rd), Cset(rd, "kLO")>>

Imm32Ops == [ADDIW |-> "add", SLLIW |-> "lsl", SRLIW |-> "lsr", SRAIW |-> "asr"]

SelectA64Imm32Instruction(wd, ws1, imm, token) ==
  <<Mov(wd, U32(imm)), Op(Imm32Ops[token], Half, wd, ws1, wd), Sxt(wd, wd, Half)>>

-----------------------------------------------------------------------------
(* One operator for each kind of instruction: the code it appends.         *)

EmitReg(info) ==
  IF info.rd = 0 THEN <<>>
  ELSE Frame(4, info.rd, info.rs1, info.rs2,
             SelectA64RegInstruction(Borrows(info.rd, 0), Borrows(info.rs1, 1),
                                     Borrows(info.rs2, 2), info.token))

EmitReg32(info) ==
  IF info.rd = 0 THEN <<>>
  ELSE Frame(4, info.rd, info.rs1, info.rs2,
             SelectA64Reg32Instruction(Borrows(info.rd, 0), Borrows(info.rs1, 1),
                                       Borrows(info.rs2, 2), info.token))

EmitImm(info) ==
  IF info.rd = 0 THEN <<>>
  ELSE Frame(2, info.rd, info.rs1, 0,
             SelectA64ImmInstruction(Borrows(info.rd, 0), Borrows(info.rs1, 1),
                                     info.imm, info.token))

EmitImm32(info) ==
  IF info.rd = 0 THEN <<>>
  ELSE Frame(2, info.rd, info.rs1, 0,
             SelectA64Imm32Instruction(Borrows(info.rd, 0), Borrows(info.rs1, 1),
                                       info.imm, info.token))

EmitLui(info) ==
  IF info.rd = 0 THEN <<>>
  ELSE Frame(2, info.rd, 0, 0, <<Mov(Borrows(info.rd, 0), Reg(info.imm))>>)

\* The sum with pc is kept in the 32 bits of imm.
EmitAuipc(info) == EmitLui([info EXCEPT !.imm = I32(info.imm + info.pc)])

\* The new pc goes through the host register of rd, before the link does.
EmitJal(info) ==
  LET d == Borrows(info.rd, 0)
  IN  Frame(2, info.rd, 0, 0,
            << Mov(d, Offset(info.pc, info.imm)), Str(d, Cpu, kPcBias), Mov(d, Next4(info)) >>)

EmitJalr(info) ==
  LET d == Borrows(info.rd, 0)
      n == Borrows(info.rs1, 1)
  IN  Frame(2, info.rd, info.rs1, 0,
            << Mov(d, Reg(info.imm)), Op("add", Bits, d, d, n),
               OpImm("and", Bits, d, d, 2^Bits - 2), Str(d, Cpu, kPcBias),
               Mov(d, Next4(info)) >>)

-----------------------------------------------------------------------------
(* Loads and stores call MmuLoad and MmuStore.                             *)

\* Emitted code leaves a block early by a branch to this label, a member that
\* is never given a label of the assembler.
epilog_tag_ == "invalid"

\* 0 in w0 if the call raised no trap, kept on the stack.
TrapRaised(slot) ==
  << Mov(0, TrapPtr), LdrW(0, 0, 0), OpImm("sub", Half, 0, 0, kNone), Str(0, Sp, slot) >>

SelectSignExtendInstruction(token, d) ==
  CASE token = "LB" -> <<Sxt(d, d, Bits \div 8)>>
    [] token = "LH" -> <<Sxt(d, d, Bits \div 4)>>
    [] token = "LW" -> <<Sxt(d, d, Half)>>
    [] OTHER        -> <<>>

\* x0 is a0 to the guest.
RecoverX0 == Ldr(0, Cpu, kA64ToRv64Map[1])

\* The assembler takes no instruction that names a label it did not make.
Assembled(i, label) == IF label = epilog_tag_ THEN <<>> ELSE <<i>>

\* Mutant: the failing path keeps its stack.
LeaveBlock_NoFree(slots) ==
  <<Bind("fail"), RecoverX0>> \o Assembled(B(epilog_tag_), epilog_tag_) \o <<Bind("end")>>

LeaveBlock(slots) ==
  <<Bind("fail"), RecoverX0, AddSp(slots)>> \o Assembled(B(epilog_tag_), epilog_tag_)
    \o <<Bind("end")>>

EmitLoad(info) ==
  SaveVolatileA64Reg
  \o << AddSp(-4), Strs(FrameRegs, Sp),
        IF Mapped(info.rs1) THEN MovReg(1, A64Reg(info.rs1)) ELSE Ldr(1, Cpu, info.rs1),
        Mov(2, Reg(info.imm)), Op("add", Bits, 1, 1, 2),
        MovReg(0, 29), Mov(2, info.mem_size), Mov(3, TrapPtr), Mov(4, LoadPtr), Blr(4),
        Str(0, Sp, 3) >>
  \o TrapRaised(2)
  \o RestoreVolatileA64Reg
  \o <<Ldrs(FrameRegs, Sp), LdrW(0, Sp, 2), Cbnz(Half, 0, "fail"), Ldr(0, Sp, 3)>>
  \o SelectSignExtendInstruction(info.token, 0)
  \o <<Str(0, Cpu, info.rd), RecoverX0, AddSp(4)>>
  \o (IF Mapped(info.rd) THEN <<Ldr(A64Reg(info.rd), Cpu, info.rd)>> ELSE <<>>)
  \o <<B("end")>> \o LeaveBlock(4)

EmitStore(info) ==
  SaveVolatileA64Reg
  \o <<AddSp(-6), Strs(FrameRegs, Sp)>>
  \o (IF Mapped(info.rs2) THEN <<Str(A64Reg(info.rs2), Sp, 3)>>
      ELSE <<Ldr(0, Cpu, info.rs2), Str(0, Sp, 3), RecoverX0>>)
  \o (IF Mapped(info.rs1)
      THEN <<Mov(0, Reg(info.imm)), Op("add", Bits, 0, 0, A64Reg(info.rs1))>>
      ELSE <<Ldr(0, Cpu, info.rs1), Mov(1, Reg(info.imm)), Op("add", Bits, 0, 0, 1)>>)
  \o << Str(0, Sp, 2), MovReg(0, 29), Ldr(1, Sp, 2), Mov(2, info.mem_size), Ldr(3, Sp, 3),
        Mov(4, TrapPtr), Mov(5, StorePtr), Blr(5) >>
  \o TrapRaised(4)
  \o RestoreVolatileA64Reg
  \o <<Ldrs(FrameRegs, Sp), LdrW(0, Sp, 4), Cbnz(Half, 0, "fail"),
       RecoverX0, AddSp(6), B("end")>>
  \o LeaveBlock(6)

-----------------------------------------------------------------------------
(* The emitter                                                             *)

HostRegs == [i \in 0 .. 30 |-> Pointer(10 + i)]
StackSize == 40

Init ==
  /\ session \in Sessions
  /\ \E file \in session.files :
       before = [r \in 0 .. 31 |-> IF r \in DOMAIN file THEN file[r] ELSE r]
  /\ host = [ x |-> HostRegs, sp |-> StackSize, cmp |-> <<0, 0>>, skip |-> "none",
              stack |-> [i \in 0 .. StackSize - 1 |-> 0],
              cpu |-> [i \in 0 .. 33 |-> IF i \in 0 .. 31 THEN before[i]
                                         ELSE IF i = kPcBias THEN session.start ELSE 0],
              mem |-> session.mem, trap |-> kNone ]
  /\ stage = "new" /\ code = <<>> /\ delta_instret_ = 0
  /\ block = <<>> /\ refused = FALSE /\ read = <<>>

EmitProlog ==
  /\ stage = "new"
  /\ stage' = "open"
  /\ code' = << <<AddSp(-32), Strs(AllRegs, Sp), Mov(29, CpuPtr), Ldrs(MappedRegs, Cpu)>> >>
  /\ UNCHANGED <<session, delta_instret_, host, block, refused, read, before>>

Emitted(info) ==
  CASE info.op = "kReg"   -> EmitReg(info)
    [] info.op = "kLui"   -> EmitLui(info)
    [] info.op = "kAuipc" -> EmitAuipc(info)
    [] info.op = "kImm"   -> EmitImm(info)
    [] info.op = "kRv32"  -> EmitReg32(info)
    [] info.op = "kJal"   -> EmitJal(info)
    [] info.op = "kJalr"  -> EmitJalr(info)
    [] info.op = "kImm32" -> EmitImm32(info)
    [] info.op = "kLoad"  -> EmitLoad(info)
    [] info.op = "kStore" -> EmitStore(info)

\* An instruction that has no emitter is counted and nothing is appended; one
\* that the decoder does not know is not even counted.  means is what the block
\* should do: [info, has], where has are the fields that the instruction has.
Emit(info, means) ==
  /\ stage = "open"
  /\ delta_instret_ < session.length
  /\ IF info.op \in DOMAIN EmitTokens /\ info.token # "UNKNOWN"
     THEN /\ code' = Append(code, Emitted(info))
          /\ block' = Append(block, means.info)
          /\ UNCHANGED refused
     ELSE refused' = TRUE /\ UNCHANGED <<code, block>>
  /\ delta_instret_' = IF info.op = "kUndef" \/ info.token = "UNKNOWN"
                       THEN delta_instret_ ELSE delta_instret_ + 1
  /\ read' = <<info, means>>
  /\ UNCHANGED <<session, stage, host, before>>

\* Mutant: the registers borrowed are not given back.
CommitInstret_Keeps ==
  << AddSp(-2), Str(0, Sp, 0), Str(1, Sp, 1), Mov(0, delta_instret_),
     Ldr(1, Cpu, kInstretBias), Op("add", Bits, 0, 0, 1), Str(0, Cpu, kInstretBias),
     Ldr(0, Sp, 0), AddSp(2) >>

CommitInstret ==
  << AddSp(-2), Str(0, Sp, 0), Str(1, Sp, 1), Mov(0, delta_instret_),
     Ldr(1, Cpu, kInstretBias), Op("add", Bits, 0, 0, 1), Str(0, Cpu, kInstretBias),
     Ldr(0, Sp, 0), Ldr(1, Sp, 1), AddSp(2) >>

EmitEpilog ==
  /\ stage = "open"
  /\ stage' = "closed"
  /\ code' = Append(code, Assembled(Bind(epilog_tag_), epilog_tag_) \o CommitInstret
                            \o <<Strs(MappedRegs, Cpu), Ldrs(AllRegs, Sp), AddSp(32)>>)
  /\ delta_instret_' = 0
  /\ UNCHANGED <<session, host, block, refused, read, before>>

\* The call of the block.
Call ==
  /\ stage = "closed"
  /\ stage' = "returned"
  /\ \E junk \in session.junk : host' = RunAll(code, host, junk)
  /\ UNCHANGED <<session, code, delta_instret_, block, refused, read, before>>

Done == stage = "returned" /\ UNCHANGED vars

Pc == session.start + 4 * Len(block)

EmitInstruction ==
  \E i \in session.instructions :
    LET info == [i EXCEPT !.pc = Pc] IN Emit(info, [info |-> info, has |-> {}])

EmitWord ==
  \E a \in session.words, junk \in session.junk :
    Emit(DecodeInfo(a.word, Pc, junk), [info |-> [a.info EXCEPT !.pc = Pc], has |-> a.has])

Next ==
  \/ EmitProlog
  \/ EmitInstruction
  \/ EmitWord
  \/ EmitEpilog
  \/ Call
  \/ Done

Spec == Init /\ [][Next]_vars

-----------------------------------------------------------------------------
(* Properties                                                              *)

\* What the interpreter makes of the block: it stops at the first trap.
Tick(s, info) ==
  LET at   == TargetAddr(s, info)
      span == at .. at + info.mem_size - 1
      fail == info.op \in {"kLoad", "kStore"} /\ ~ (span \subseteq DOMAIN s.mem)
      done == [s EXCEPT !.instret = @ + 1]
  IN  IF s.trap # kNone THEN s
      ELSE IF fail THEN [done EXCEPT !.trap = kFault]
      ELSE IF info.op = "kStore"
      THEN Exec([done EXCEPT !.mem = Patch(@, at, StoreData(s, info))], info, <<>>)
      ELSE Exec(done, info, IF info.op = "kLoad" THEN Slice(s.mem, at, info.mem_size)
                            ELSE <<>>)

Interpreted ==
  LET after[k \in 0 .. Len(block)] ==
        IF k = 0
        THEN [ xregs |-> [before EXCEPT ![0] = 0], pc |-> session.start, instret |-> 0,
               mem |-> session.mem, trap |-> kNone ]
        ELSE Tick(after[k - 1], block[k])
  IN  after[Len(block)]

Jumps(info) == info.op \in {"kJal", "kJalr"}

\* A returned block and the interpreter agree on the registers, memory, the
\* trap and the number of instructions, and on pc if the block ends in a jump.
Agrees(s) ==
  /\ \A r \in 0 .. 31 : host.cpu[r] = s.xregs[r]
  /\ host.mem = s.mem
  /\ host.trap = s.trap
  /\ ~ refused => host.cpu[kInstretBias] = s.instret
  /\ block # <<>> /\ Jumps(block[Len(block)]) => host.cpu[kPcBias] = s.pc

\* The host registers that the code for an instruction writes while operands in
\* them have still to be read: those borrowed for rs1 and rs2, and that of rd
\* where the result takes several instructions.
WritesEarly(info) ==
  LET d == Borrows(info.rd, 0)
      n == Borrows(info.rs1, 1)
      m == Borrows(info.rs2, 2)
      three    == info.op \in {"kReg", "kRv32"}
      borrowed == (IF Mapped(info.rs1) THEN {} ELSE {1})
                    \union (IF three /\ ~ Mapped(info.rs2) THEN {2} ELSE {})
      own      == {A64Reg(r) : r \in {info.rd, info.rs1} \union IF three THEN {info.rs2} ELSE {}}
  IN  \/ borrowed \intersect own # {}
      \/ info.token \in {"REM", "REMU", "REMW", "REMUW"} /\ d \in {n, m}
      \/ info.token = "MULHSU" /\ d = m
      \/ info.op \in {"kImm", "kImm32", "kJalr"} /\ d = n

\* The operands that the emitter translates rightly.
Apart(info) ==
  CASE info.op = "kAuipc" -> I32(info.imm + info.pc) = info.imm + info.pc
    [] info.op = "kLui"   -> TRUE
    [] info.op = "kLoad"  -> TRUE
    [] info.op = "kStore" -> A64Reg(info.rs1) # 0
    [] info.op = "kJal"   -> info.rd # 0
    [] info.op = "kJalr"  -> info.rd # 0 /\ ~ WritesEarly(info)
    [] OTHER              -> info.rd = 0 \/ ~ WritesEarly(info)

\* Every instruction was reached: a trap, if any, is the last one's.
Reached(s) == s.instret = Len(block)

\* The immediate fits a register, as it always does in one of 64 bits.
Fits(info) == I64(info.imm) = info.imm

\* Translated code does what the interpreter does with the same block, if the
\* operands of each instruction are apart and no instruction but the last
\* traps: the host registers borrowed for gp and tp, and those that the calls
\* of MmuLoad and MmuStore change, are those of other guest registers, and what
\* the decoder leaves unwritten is not used.
TranslationCorrect ==
  stage = "returned" /\ (\A k \in DOMAIN block : Apart(block[k]) /\ Fits(block[k])) =>
    LET s == Interpreted IN Reached(s) => Agrees(s)

\* A word that an assembler made decodes to the instruction it was made for: the
\* entry of the table that GetToken finds first, the registers, the immediate
\* put together from its pieces, and the bytes of an access; a word that is no
\* instruction decodes to none.  FENCE.TSO and PAUSE decode to FENCE, whose entry
\* stands before theirs and matches their words, so that theirs are never found.
\* (All three do nothing in the executor.)
DecodesBack ==
  read # <<>> =>
    LET info == read[1]
        meant == read[2].info
    IN  /\ info.op = meant.op
        /\ info.token = IF meant.token \in {"FENCE_TSO", "PAUSE"} THEN "FENCE" ELSE meant.token
        /\ \A f \in read[2].has : info[f] = meant[f]

\* A block gives its caller back sp and all registers, whichever of its
\* accesses fail and whatever the frames inside it are.
HostRestored == stage = "returned" => host.x = HostRegs /\ host.sp = StackSize
=============================================================================
