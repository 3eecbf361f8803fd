------------------------------- MODULE Decode -------------------------------
(***************************************************************************)
(* The decoder (src/cpu/decode.cc, include/cpu/decode.h).  An instruction  *)
(* word is the record of the fields of RTypeDesc, [op, rd, f3, rs1, rs2,   *)
(* f7], which together are its 32 bits.  A token is the string of its      *)
(* name.  Immediates have their real width.                                *)
(***************************************************************************)
EXTENDS Integers, Sequences

OpCode ==
  [ kReg |-> 51, kImm |-> 19, kLui |-> 55, kBranch |-> 99, kStore |-> 35, kLoad |-> 3,
    kSystem |-> 115, kAuipc |-> 23, kJal |-> 111, kJalr |-> 103, kImm32 |-> 27,
    kRv32 |-> 59, kFence |-> 15, kAmo |-> 47, kUndef |-> 0 ]

\* The name of an opcode; the code keeps the number.
OpOf(n) ==
  IF \E name \in DOMAIN OpCode : OpCode[name] = n
  THEN CHOOSE name \in DOMAIN OpCode : OpCode[name] = n ELSE "unlisted"

-----------------------------------------------------------------------------
(* The table.  An entry constrains the fields under its mask: the opcode   *)
(* alone, with funct3, with the upper 7, 6 or 5 bits as well, or more.     *)

Entry(token, op, sig) == [token |-> token, sig |-> [f \in DOMAIN sig \union {"op"} |->
                            IF f = "op" THEN OpCode[op] ELSE sig[f]]]

Op0(token, op)         == Entry(token, op, <<>>)
Op3(token, op, f3)     == Entry(token, op, [f3 |-> f3])
Op7(token, op, f3, f7) == Entry(token, op, [f3 |-> f3, f7 |-> f7])
Op6(token, op, f3, f6) == Entry(token, op, [f3 |-> f3, f6 |-> f6])
Op5(token, f3, f5)     == Entry(token, "kAmo", [f3 |-> f3, f5 |-> f5])
LrOp(token, f3)        == Entry(token, "kAmo", [f3 |-> f3, f5 |-> 2, rs2 |-> 0])
Whole(token, op, f7, rs2) ==
  Entry(token, op, [rd |-> 0, f3 |-> 0, rs1 |-> 0, rs2 |-> rs2, f7 |-> f7])

InstTable1 ==
  << Op3("ADDI", "kImm", 0),    Op3("LD", "kLoad", 3),      Op3("SD", "kStore", 3),
     Op3("BNE", "kBranch", 1),  Op0("AUIPC", "kAuipc"),     Op0("LUI", "kLui"),
     Op6("SLLI", "kImm", 1, 0), Op3("ADDIW", "kImm32", 0),  Op0("JAL", "kJal"),
     Op7("ADD", "kReg", 0, 0),  Op3("JALR", "kJalr", 0),    Op3("BEQ", "kBranch", 0),
     Op3("BLT", "kBranch", 4),  Op3("BGE", "kBranch", 5),   Op3("BLTU", "kBranch", 6),
     Op3("BGEU", "kBranch", 7), Op3("LB", "kLoad", 0),      Op3("LH", "kLoad", 1),
     Op3("LW", "kLoad", 2),     Op3("LBU", "kLoad", 4) >>

InstTable2 ==
  << Op3("LHU", "kLoad", 5),    Op3("SB", "kStore", 0),     Op3("SH", "kStore", 1),
     Op3("SW", "kStore", 2),    Op3("SLTI", "kImm", 2),     Op3("SLTIU", "kImm", 3),
     Op3("XORI", "kImm", 4),    Op3("ORI", "kImm", 6),      Op3("ANDI", "kImm", 7),
     Op7("SUB", "kReg", 0, 32), Op7("SLL", "kReg", 1, 0),   Op7("SLT", "kReg", 2, 0),
     Op7("SLTU", "kReg", 3, 0), Op7("XOR", "kReg", 4, 0),   Op7("SRL", "kReg", 5, 0),
     Op7("SRA", "kReg", 5, 32), Op7("OR", "kReg", 6, 0),    Op7("AND", "kReg", 7, 0),
     Op3("FENCE", "kFence", 0),
     Entry("FENCE_TSO", "kFence", [f3 |-> 0, rs2 |-> 19, f7 |-> 65]) >>

InstTable3 ==
  << Whole("PAUSE", "kFence", 0, 16), Whole("ECALL", "kSystem", 0, 0),
     Whole("EBREAK", "kSystem", 0, 1), Op3("LWU", "kLoad", 6),
     Op6("SRLI", "kImm", 5, 0),    Op6("SRAI", "kImm", 5, 16),
     Op7("SLLIW", "kImm32", 1, 0), Op6("SRLIW", "kImm32", 5, 0),
     Op6("SRAIW", "kImm32", 5, 16), Op7("ADDW", "kRv32", 0, 0),
     Op7("SUBW", "kRv32", 0, 32),  Op7("SLLW", "kRv32", 1, 0),
     Op7("SRLW", "kRv32", 5, 0),   Op7("SRAW", "kRv32", 5, 32),
     Whole("MRET", "kSystem", 24, 2), Whole("WFI", "kSystem", 8, 5),
     Op3("CSRRW", "kSystem", 1),   Op3("CSRRS", "kSystem", 2),
     Op3("CSRRC", "kSystem", 3),   Op3("CSRRWI", "kSystem", 5) >>

InstTable4 ==
  << Op3("CSRRSI", "kSystem", 6),  Op3("CSRRCI", "kSystem", 7), Op3("FENCE_I", "kFence", 1),
     Op7("MUL", "kReg", 0, 1),     Op7("MULH", "kReg", 1, 1),   Op7("MULHSU", "kReg", 2, 1),
     Op7("MULHU", "kReg", 3, 1),   Op7("DIV", "kReg", 4, 1),    Op7("DIVU", "kReg", 5, 1),
     Op7("REM", "kReg", 6, 1),     Op7("REMU", "kReg", 7, 1),   Op7("MULW", "kRv32", 0, 1),
     Op7("DIVW", "kRv32", 4, 1),   Op7("DIVUW", "kRv32", 5, 1), Op7("REMW", "kRv32", 6, 1),
     Op7("REMUW", "kRv32", 7, 1),  Whole("SRET", "kSystem", 8, 2),
     Entry("SFENCE_VMA", "kSystem", [rd |-> 0, f3 |-> 0, f7 |-> 9]),
     LrOp("LR_W", 2), LrOp("LR_D", 3) >>

InstTable5 ==
  << Op5("SC_W", 2, 3),        Op5("SC_D", 3, 3),        Op5("AMOSWAP_D", 3, 1),
     Op5("AMOSWAP_W", 2, 1),   Op5("AMOADD_D", 3, 0),    Op5("AMOADD_W", 2, 0),
     Op5("AMOXOR_D", 3, 4),    Op5("AMOXOR_W", 2, 4),    Op5("AMOAND_D", 3, 12),
     Op5("AMOAND_W", 2, 12),   Op5("AMOOR_D", 3, 8),     Op5("AMOOR_W", 2, 8),
     Op5("AMOMIN_D", 3, 16),   Op5("AMOMIN_W", 2, 16),   Op5("AMOMAX_D", 3, 20),
     Op5("AMOMAX_W", 2, 20),   Op5("AMOMINU_D", 3, 24),  Op5("AMOMINU_W", 2, 24),
     Op5("AMOMAXU_D", 3, 28),  Op5("AMOMAXU_W", 2, 28) >>

kInstTable == InstTable1 \o InstTable2 \o InstTable3 \o InstTable4 \o InstTable5

\* The bits of a word under a part of a mask.
Field(w, f) ==
  CASE f = "f6" -> w.f7 \div 2
    [] f = "f5" -> w.f7 \div 4
    [] OTHER    -> w[f]

Matches(w, entry) == \A f \in DOMAIN entry.sig : Field(w, f) = entry.sig[f]

\* GetToken: the first entry that matches.
GetToken(w) ==
  LET hits == {i \in DOMAIN kInstTable : Matches(w, kInstTable[i])}
  IN  IF hits = {} THEN "UNKNOWN"
      ELSE kInstTable[CHOOSE i \in hits : \A j \in hits : i <= j].token

-----------------------------------------------------------------------------
(* Immediates and sizes                                                    *)

\* A bit field of n bits declared int32_t.
SignedField(x, n) == IF x >= 2^(n - 1) THEN x - 2^n ELSE x

\* Mutant: bit 11 of the offset of a branch is taken for bit 0.
GetImmB_Bit0(w) == SignedField(w.f7 \div 64, 1) * 4096 + (w.f7 % 64) * 32 + w.rd

\* GetImm, one operator for each type of descriptor.
GetImmB(w) == SignedField(w.f7 \div 64, 1) * 4096 + (w.rd % 2) * 2048
                + (w.f7 % 64) * 32 + (w.rd - (w.rd % 2))

GetImmJ(w) == SignedField(w.f7 \div 64, 1) * 1048576 + (w.rs1 * 8 + w.f3) * 4096
                + (w.rs2 % 2) * 2048 + (w.f7 % 64) * 32 + (w.rs2 - (w.rs2 % 2))

GetImmI(w) == SignedField(w.f7 * 32 + w.rs2, 12)
GetImmS(w) == SignedField(w.f7, 7) * 32 + w.rd
GetImmU(w) == SignedField(w.f7 * 8192 + w.rs2 * 256 + w.rs1 * 8 + w.f3, 20) * 4096
GetImmCsr(w) == w.f7 * 32 + w.rs2

GetShamt(w, is_rv32) == IF is_rv32 THEN w.rs2 ELSE (w.f7 % 2) * 32 + w.rs2

CsrTokens == {"CSRRW", "CSRRS", "CSRRC", "CSRRWI", "CSRRSI", "CSRRCI"}

\* imm is assigned for some opcodes only; otherwise it is what the object's
\* memory held, junk.
ImmOf(w, op, token, junk) ==
  CASE op = "kStore"  -> GetImmS(w)
    [] op = "kBranch" -> GetImmB(w)
    [] op \in {"kAuipc", "kLui"} -> GetImmU(w)
    [] op = "kJal"    -> GetImmJ(w)
    [] op \in {"kImm", "kImm32", "kJalr", "kLoad"} ->
         IF token \in {"SLLI", "SRLI", "SRAI"} THEN GetShamt(w, FALSE)
         ELSE IF token \in {"SLLIW", "SRLIW", "SRAIW"} THEN GetShamt(w, TRUE)
         ELSE GetImmI(w)
    [] op = "kSystem" /\ token \in CsrTokens -> GetImmCsr(w)
    [] OTHER -> junk

kAccessMemBytes ==
  [ LB |-> 1, LH |-> 2, LW |-> 4, LBU |-> 1, LHU |-> 2, SB |-> 1, SH |-> 2, SW |-> 4,
    LWU |-> 4, LD |-> 8, SD |-> 8 ]

\* A load or store that does not decode has the token -1, with which the code
\* reads a byte outside the array: junk.
MemSizeOf(w, op, token, junk) ==
  CASE op = "kAmo" -> 2^w.f3
    [] op \in {"kLoad", "kStore"} /\ token \in DOMAIN kAccessMemBytes -> kAccessMemBytes[token]
    [] OTHER -> junk

\* The constructor.  word ends up in trap values only, br_target is never read.
DecodeInfo(w, addr, junk) ==
  LET token == GetToken(w)
      op    == OpOf(w.op)
  IN  [ op |-> op, token |-> token, rd |-> w.rd, rs1 |-> w.rs1, rs2 |-> w.rs2,
        imm |-> ImmOf(w, op, token, junk), mem_size |-> MemSizeOf(w, op, token, junk),
        pc |-> addr, size |-> 4 ]
=============================================================================
