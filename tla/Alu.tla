-------------------------------- MODULE Alu --------------------------------
(***************************************************************************)
(* The arithmetic instructions on a register file of three registers and   *)
(* one doubleword of memory, and what the instruction set says of the      *)
(* values that module Arithmetic computes.                                 *)
(***************************************************************************)
EXTENDS Arithmetic, Functions

CONSTANT Imms    \* the immediate operands, sign-extended by the decoder

ASSUME AluAssumption == Imms \subseteq -(2^(Bits - 1)) .. 2^(Bits - 1) - 1

VARIABLES
  xregs,         \* x0, x1 and x2
  mem            \* the doubleword that AMOs work on

aluVars == <<xregs, mem>>

AluInit == xregs = [r \in 0 .. 2 |-> 0] /\ mem = 0

\* The write of rd, and the clearing of x0 after the execute stage.
Write(rd, val) == xregs' = [xregs EXCEPT ![rd] = val, ![0] = 0]

RegType(rd, rs1, rs2) ==
  \E val \in Range(RegTypeExec(xregs[rs1], xregs[rs2])) : Write(rd, val) /\ UNCHANGED mem

Rv32Type(rd, rs1, rs2) ==
  \E val \in Range(Rv32TypeExec(xregs[rs1], xregs[rs2])) : Write(rd, val) /\ UNCHANGED mem

ImmType(rd, rs1, imm) ==
  \E val \in Range(ImmTypeExec(xregs[rs1], imm)) : Write(rd, val) /\ UNCHANGED mem

Imm32Type(rd, rs1, imm) ==
  \E val \in Range(Imm32TypeExec(xregs[rs1], imm)) : Write(rd, val) /\ UNCHANGED mem

\* The arithmetic part of AmoTypeExec, for an access that does not fault.
AmoTypeD(rd, rs2) ==
  \E val \in Range(AmoD(xregs[rs2], mem)) : mem' = val /\ Write(rd, mem)

AmoTypeW(rd, rs2) ==
  \E val \in Range(AmoW(xregs[rs2], U32(mem))) :
    /\ mem' = mem - U32(mem) + val
    /\ Write(rd, Reg(I32(mem)))

AluNext ==
  \E rd \in 0 .. 2 :
    \/ \E rs1, rs2 \in 0 .. 2 : RegType(rd, rs1, rs2)
    \/ \E rs1, rs2 \in 0 .. 2 : Rv32Type(rd, rs1, rs2)
    \/ \E rs1 \in 0 .. 2, imm \in Imms : ImmType(rd, rs1, imm)
    \/ \E rs1 \in 0 .. 2, imm \in Imms : Imm32Type(rd, rs1, imm)
    \/ \E rs2 \in 0 .. 2 : AmoTypeD(rd, rs2)
    \/ \E rs2 \in 0 .. 2 : AmoTypeW(rd, rs2)

AluSpec == AluInit /\ [][AluNext]_aluVars

-----------------------------------------------------------------------------
(* Properties: what the instruction set says of the values computed.  Every *)
(* content of x1, x2 and mem is reached.                                   *)

X1 == xregs[1]
X2 == xregs[2]

\* PortableMulUnsignedHi, the fallback for hosts without a widening multiply,
\* is the high half of the unsigned product: no carry between its four
\* partial products is lost.
PortableIsHigh == PortableMulUnsignedHi(X1, X2) = MulUint64Hi(X1, X2)

\* MULH is the high half of the signed product for operands of every sign:
\* the code multiplies absolute values and negates the high half, so it must
\* borrow exactly when the low half is not 0.
MulhIsHigh == RegTypeExec(X1, X2).MULH = Reg((I64(X1) * I64(X2)) \div 2^Bits)

\* MULHSU is the high half of the product of a signed and an unsigned
\* operand, as the M extension that the emulator claims defines it.
MulhsuIsHigh == RegTypeExec(X1, X2).MULHSU = Reg((I64(X1) * X2) \div 2^Bits)

\* x = y * q + r for quotient q and remainder r of a division of x by y, as
\* numbers of w bits; r is smaller than y and has the sign of x.
Divides(x, y, q, r, w) ==
  /\ (x - (y * q) - r) % 2^w = 0
  /\ y # 0 => Abs(r) < Abs(y) /\ (r # 0 => (r < 0) = (x < 0))
  /\ y = 0 => r = x

\* The quotient and the remainder that the four pairs of divide instructions
\* compute belong to one division, division by 0 and the signed overflow
\* included, in which both branches of the code are special cases.
DivisionsAgree ==
  LET d == RegTypeExec(X1, X2)
      w == Rv32TypeExec(X1, X2)
  IN  /\ Divides(I64(X1), I64(X2), I64(d.DIV), I64(d.REM), Bits)
      /\ Divides(X1, X2, d.DIVU, d.REMU, Bits)
      /\ Divides(I32(X1), I32(X2), I64(w.DIVW), I64(w.REMW), Half)
      /\ Divides(U32(X1), U32(X2), U32(w.DIVUW), U32(w.REMUW), Half)

\* Each word instruction is the instruction on full registers applied to its
\* extended operands, with the low word of the result sign-extended: the
\* result of an overflow, of a division by 0 and of the unsigned forms too.
WordsAreNarrowed ==
  LET s == RegTypeExec(Reg(I32(X1)), Reg(I32(X2)))
      u == RegTypeExec(U32(X1), U32(X2))
      shift == X2 % Half
      low(x) == Reg(I32(x))
      w == Rv32TypeExec(X1, X2)
  IN  /\ w.ADDW = low(s.ADD) /\ w.SUBW = low(s.SUB) /\ w.MULW = low(s.MUL)
      /\ w.DIVW = low(s.DIV) /\ w.REMW = low(s.REM)
      /\ w.DIVUW = low(u.DIVU) /\ w.REMUW = low(u.REMU)
      /\ w.SLLW = low(RegTypeExec(X1, shift).SLL)
      /\ w.SRLW = low(RegTypeExec(U32(X1), shift).SRL)
      /\ w.SRAW = low(RegTypeExec(Reg(I32(X1)), shift).SRA)

\* An immediate instruction computes what the register form does with the
\* immediate in a register, sign-extended also where it is then taken as
\* unsigned (SLTIU, the logical ones).
ImmediatesAgree ==
  \A imm \in Imms :
    LET r == RegTypeExec(X1, Reg(imm))
        i == ImmTypeExec(X1, imm)
        w == Rv32TypeExec(X1, Reg(imm))
        j == Imm32TypeExec(X1, imm)
    IN  /\ i.ADDI = r.ADD /\ i.SLTI = r.SLT /\ i.SLTIU = r.SLTU
        /\ i.XORI = r.XOR /\ i.ORI = r.OR /\ i.ANDI = r.AND
        /\ i.SLLI = r.SLL /\ i.SRLI = r.SRL /\ i.SRAI = r.SRA
        /\ j.ADDIW = w.ADDW /\ j.SLLIW = w.SLLW
        /\ j.SRLIW = w.SRLW /\ j.SRAIW = w.SRAW

\* Branches decide as the comparison instructions do, and BGE and BGEU are the
\* complements of BLT and BLTU: operands of opposite signs and the least number
\* included, where the signed and the unsigned order differ.
BranchesAgree ==
  LET r == RegTypeExec(X1, X2)
  IN  /\ Taken("BLT", X1, X2) = (r.SLT = 1) /\ Taken("BGE", X1, X2) = (r.SLT = 0)
      /\ Taken("BLTU", X1, X2) = (r.SLTU = 1) /\ Taken("BGEU", X1, X2) = (r.SLTU = 0)
      /\ Taken("BEQ", X1, X2) = (r.SUB = 0) /\ Taken("BNE", X1, X2) = (r.SUB # 0)

\* An AMO on a word stores the low word of what the AMO on doublewords would
\* store for sign-extended operands: whatever the upper half of rs2 holds,
\* the comparisons of MIN, MAX, MINU and MAXU are those of words.
AmoWordsAgree ==
  LET w == AmoW(X2, U32(mem))
      d == AmoD(Reg(I32(X2)), Reg(I32(mem)))
  IN  \A op \in DOMAIN w : w[op] = U32(d[op])
=============================================================================
