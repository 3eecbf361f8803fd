----------------------------- MODULE Assembler ------------------------------
(***************************************************************************)
(* How an assembler encodes instructions, external to the repository: the  *)
(* formats and numbers of the instruction set, from which the word for a   *)
(* token, its registers and its immediate is put together.  The emulator   *)
(* runs what such a program wrote.                                         *)
(***************************************************************************)
EXTENDS Decode

\* The opcode of each token, and funct3 where it has one: position in a list
\* that starts at 0, "-" for the numbers that are not used.
Lists ==
  [ kBranch |-> <<"BEQ", "BNE", "-", "-", "BLT", "BGE", "BLTU", "BGEU">>,
    kLoad   |-> <<"LB", "LH", "LW", "LD", "LBU", "LHU", "LWU">>,
    kStore  |-> <<"SB", "SH", "SW", "SD">>,
    kImm    |-> <<"ADDI", "SLLI", "SLTI", "SLTIU", "XORI", "SRLI", "ORI", "ANDI">>,
    kReg    |-> <<"ADD", "SLL", "SLT", "SLTU", "XOR", "SRL", "OR", "AND">>,
    kImm32  |-> <<"ADDIW", "SLLIW", "-", "-", "-", "SRLIW">>,
    kRv32   |-> <<"ADDW", "SLLW", "-", "-", "-", "SRLW">>,
    kFence  |-> <<"FENCE", "FENCE_I">>,
    kSystem |-> <<"-", "CSRRW", "CSRRS", "CSRRC", "-", "CSRRWI", "CSRRSI", "CSRRCI">>,
    kJalr   |-> <<"JALR">> ]

MulLists ==
  [ kReg  |-> <<"MUL", "MULH", "MULHSU", "MULHU", "DIV", "DIVU", "REM", "REMU">>,
    kRv32 |-> <<"MULW", "-", "-", "-", "DIVW", "DIVUW", "REMW", "REMUW">> ]

\* Bit 30 of the word tells these from the token at the same place of a list.
Alternates ==
  [ SUB |-> "ADD", SRA |-> "SRL", SUBW |-> "ADDW", SRAW |-> "SRLW", SRAI |-> "SRLI",
    SRAIW |-> "SRLIW" ]

\* funct5 of the atomic instructions; the width is funct3.
Atomics ==
  [ AMOADD |-> 0, AMOSWAP |-> 1, LR |-> 2, SC |-> 3, AMOXOR |-> 4, AMOOR |-> 8,
    AMOAND |-> 12, AMOMIN |-> 16, AMOMAX |-> 20, AMOMINU |-> 24, AMOMAXU |-> 28 ]

AmoTokens ==
  [ AMOADD |-> <<"AMOADD_W", "AMOADD_D">>, AMOSWAP |-> <<"AMOSWAP_W", "AMOSWAP_D">>,
    LR |-> <<"LR_W", "LR_D">>, SC |-> <<"SC_W", "SC_D">>,
    AMOXOR |-> <<"AMOXOR_W", "AMOXOR_D">>, AMOOR |-> <<"AMOOR_W", "AMOOR_D">>,
    AMOAND |-> <<"AMOAND_W", "AMOAND_D">>, AMOMIN |-> <<"AMOMIN_W", "AMOMIN_D">>,
    AMOMAX |-> <<"AMOMAX_W", "AMOMAX_D">>, AMOMINU |-> <<"AMOMINU_W", "AMOMINU_D">>,
    AMOMAXU |-> <<"AMOMAXU_W", "AMOMAXU_D">> ]

\* funct7 and rs2 of the instructions without operands.
Plains == [ECALL |-> <<0, 0>>, EBREAK |-> <<0, 1>>, SRET |-> <<8, 2>>, MRET |-> <<24, 2>>,
           WFI |-> <<8, 5>>]

\* The same of the fences with a name of their own; words of FENCE too.
Fences == [FENCE_TSO |-> <<65, 19>>, PAUSE |-> <<0, 16>>]

Uppers == [LUI |-> "kLui", AUIPC |-> "kAuipc", JAL |-> "kJal"]

Listed(lists, op, token) ==
  op \in DOMAIN lists /\ \E i \in DOMAIN lists[op] : lists[op][i] = token

Place(lists, op, token) ==
  CHOOSE i \in DOMAIN lists[op] : lists[op][i] = token

-----------------------------------------------------------------------------
(* An instruction is [op, token, rd, rs1, rs2, imm, mem_size]; a register  *)
(* or an immediate that its format lacks is ignored.                       *)

Bit(x, n) == (x \div 2^n) % 2

R(w, a, f7) == [w EXCEPT !.rd = a.rd, !.rs1 = a.rs1, !.rs2 = a.rs2, !.f7 = f7]
I(w, a)     == LET u == a.imm % 4096
               IN  [w EXCEPT !.rd = a.rd, !.rs1 = a.rs1, !.rs2 = u % 32, !.f7 = u \div 32]
St(w, a)    == LET u == a.imm % 4096
               IN  [w EXCEPT !.rd = u % 32, !.rs1 = a.rs1, !.rs2 = a.rs2, !.f7 = u \div 32]
Br(w, a)    == [w EXCEPT !.rd = 2 * ((a.imm \div 2) % 16) + Bit(a.imm, 11),
                         !.rs1 = a.rs1, !.rs2 = a.rs2,
                         !.f7 = 64 * Bit(a.imm, 12) + ((a.imm \div 32) % 64)]
Up(w, a)    == LET u == (a.imm \div 4096) % 1048576
               IN  [w EXCEPT !.rd = a.rd, !.f3 = u % 8, !.rs1 = (u \div 8) % 32,
                             !.rs2 = (u \div 256) % 32, !.f7 = u \div 8192]
Jm(w, a)    == [w EXCEPT !.rd = a.rd, !.f3 = (a.imm \div 4096) % 8,
                         !.rs1 = (a.imm \div 32768) % 32,
                         !.rs2 = 2 * ((a.imm \div 2) % 16) + Bit(a.imm, 11),
                         !.f7 = 64 * Bit(a.imm, 20) + ((a.imm \div 32) % 64)]

IsShift(token) == token \in {"SLLI", "SRLI", "SRAI", "SLLIW", "SRLIW", "SRAIW"}

\* The word for an atomic instruction of width 2^f3.
AmoWord(a, amo, f3) ==
  [ op |-> OpCode.kAmo, rd |-> a.rd, f3 |-> f3, rs1 |-> a.rs1, rs2 |-> a.rs2,
    f7 |-> 4 * Atomics[amo] ]

Encode(a) ==
  LET alt    == a.token \in DOMAIN Alternates
      token  == IF alt THEN Alternates[a.token] ELSE a.token
      mul    == Listed(MulLists, a.op, token)
      blank  == [op |-> OpCode[a.op], rd |-> 0, f3 |-> 0, rs1 |-> 0, rs2 |-> 0, f7 |-> 0]
      w      == IF \/ a.op \notin DOMAIN Lists
                   \/ token \in DOMAIN Plains \union DOMAIN Fences \union {"SFENCE_VMA"}
                THEN blank
                ELSE [blank EXCEPT !.f3 = Place(IF mul THEN MulLists ELSE Lists, a.op, token) - 1]
  IN  CASE a.token \in DOMAIN Plains -> [w EXCEPT !.f7 = Plains[a.token][1], !.rs2 = Plains[a.token][2]]
        [] a.token \in DOMAIN Fences -> [w EXCEPT !.f7 = Fences[a.token][1], !.rs2 = Fences[a.token][2]]
        [] a.token = "SFENCE_VMA"    -> [R(w, a, 9) EXCEPT !.rd = 0]
        [] a.op \in {"kReg", "kRv32"} -> R(w, a, IF mul THEN 1 ELSE IF alt THEN 32 ELSE 0)
        [] IsShift(a.token)          -> [I(w, a) EXCEPT !.f7 = @ + IF alt THEN 32 ELSE 0]
        [] a.op = "kStore"           -> St(w, a)
        [] a.op = "kBranch"          -> Br(w, a)
        [] a.op = "kJal"             -> Jm(w, a)
        [] a.op \in {"kLui", "kAuipc"} -> Up(w, a)
        [] OTHER                     -> I(w, a)

-----------------------------------------------------------------------------
(* What is an instruction: the operands that it has and the immediates     *)
(* that fit it; the words that are none.                                   *)

Register == 0 .. 31

InstWord ==
  [op : 0 .. 127, rd : Register, f3 : 0 .. 7, rs1 : Register, rs2 : Register, f7 : 0 .. 127]

Vacant(lists, op, f3) == f3 + 1 \notin DOMAIN lists[op] \/ lists[op][f3 + 1] = "-"

\* The token is one of its opcode.
Named(a) ==
  \/ a.token \in DOMAIN Uppers /\ a.op = Uppers[a.token]
  \/ a.token \in DOMAIN Plains \union {"SFENCE_VMA"} /\ a.op = "kSystem"
  \/ a.token \in DOMAIN Fences /\ a.op = "kFence"
  \/ /\ a.token # "-"
     /\ \/ Listed(Lists, a.op, a.token)
        \/ Listed(MulLists, a.op, a.token)
        \/ a.token \in DOMAIN Alternates /\ Listed(Lists, a.op, Alternates[a.token])

Encodable(a) ==
  CASE a.token \in {"SLLI", "SRLI", "SRAI"}    -> a.imm \in 0 .. 63
    [] a.token \in {"SLLIW", "SRLIW", "SRAIW"} -> a.imm \in 0 .. 31
    [] a.op \in {"kSystem", "kFence"}          -> a.imm \in 0 .. 4095
    [] a.op = "kBranch" -> a.imm \in -4096 .. 4095 /\ a.imm % 2 = 0
    [] a.op = "kJal"    -> a.imm \in -1048576 .. 1048575 /\ a.imm % 2 = 0
    [] a.op \in {"kLui", "kAuipc"} -> a.imm % 4096 = 0 /\ a.imm \div 4096 \in -524288 .. 524287
    [] OTHER            -> a.imm \in -2048 .. 2047

Has(a) ==
  CASE a.op \in {"kReg", "kRv32"}     -> {"rd", "rs1", "rs2"}
    [] a.op = "kStore"                -> {"rs1", "rs2", "imm", "mem_size"}
    [] a.op = "kLoad"                 -> {"rd", "rs1", "imm", "mem_size"}
    [] a.op = "kBranch"               -> {"rs1", "rs2", "imm"}
    [] a.op = "kAmo"                  -> {"rd", "rs1", "rs2", "mem_size"}
    [] a.token = "SFENCE_VMA"         -> {"rs1", "rs2"}
    [] a.op \in {"kLui", "kAuipc", "kJal"} -> {"rd", "imm"}
    [] a.op = "kFence" \/ a.token \in DOMAIN Plains -> {}
    [] OTHER                          -> {"rd", "rs1", "imm"}

\* The bytes of a load or store are in the two low bits of funct3.
Width(a) == 2^((Place(Lists, a.op, a.token) - 1) % 4)

\* No instruction.  (The words that differ from a shift of a word in the lowest bit
\* of f7 are reserved; the decoder takes them for shifts.)
Unassigned(w) ==
  LET op == OpOf(w.op)
  IN  CASE op \in {"kReg", "kRv32"} ->
             \/ w.f7 \notin {0, 1, 32}
             \/ w.f7 = 0 /\ Vacant(Lists, op, w.f3)
             \/ w.f7 = 1 /\ Vacant(MulLists, op, w.f3)
             \/ w.f7 = 32 /\ w.f3 \notin {0, 5}
        [] op = "kImm" ->
             \/ w.f3 = 1 /\ w.f7 \notin {0, 1}
             \/ w.f3 = 5 /\ w.f7 \notin {0, 1, 32, 33}
        [] op = "kImm32" ->
             \/ Vacant(Lists, op, w.f3)
             \/ w.f3 = 1 /\ w.f7 # 0
             \/ w.f3 = 5 /\ w.f7 \notin {0, 1, 32, 33}
        [] op = "kSystem" ->
             IF w.f3 # 0 THEN Vacant(Lists, op, w.f3)
             ELSE /\ w.rd = 0 => w.f7 # 9
                  /\ w.rd = 0 /\ w.rs1 = 0 =>
                       \A token \in DOMAIN Plains : Plains[token] # <<w.f7, w.rs2>>
        [] op = "kAmo" ->
             \/ w.f3 \notin {2, 3}
             \/ \A amo \in DOMAIN Atomics : Atomics[amo] # w.f7 \div 4
             \/ w.f7 \div 4 = Atomics.LR /\ w.rs2 # 0
        [] op \in {"kBranch", "kLoad", "kStore", "kFence", "kJalr"} -> Vacant(Lists, op, w.f3)
        [] OTHER -> op \notin {"kLui", "kAuipc", "kJal"}

\* A word, [word, info, has]: the instruction that it was made for, and which of the
\* fields of info it has.
Assembles(a) ==
  /\ a.has = IF a.info.token = "UNKNOWN" THEN {} ELSE Has(a.info)
  /\ \/ /\ Named(a.info) /\ Encodable(a.info)
        /\ a.info.op \in {"kLoad", "kStore"} => a.info.mem_size = Width(a.info)
        /\ a.word = Encode(a.info)
     \/ \E amo \in DOMAIN Atomics, f3 \in {2, 3} :
          /\ a.info.op = "kAmo" /\ a.info.token = AmoTokens[amo][f3 - 1]
          /\ a.info.mem_size = 2^f3 /\ (amo = "LR" => a.info.rs2 = 0)
          /\ a.word = AmoWord(a.info, amo, f3)
     \/ /\ Unassigned(a.word)
        /\ a.info.op = OpOf(a.word.op) /\ a.info.token = "UNKNOWN"
=============================================================================
