----------------------------- MODULE Arithmetic -----------------------------
(***************************************************************************)
(* The integer, multiply, divide and atomic arithmetic of the executor     *)
(* (src/cpu/executor.cc) and of src/libs/arithmetic.cc, on registers of    *)
(* Bits bits and words of half as many, instead of 64 and 32.  A register  *)
(* holds a number in 0 .. 2^Bits - 1.  Signed overflow wraps and shifts    *)
(* take their count modulo the width, which is what the instructions that  *)
(* compilers emit for these C++ expressions do; the language leaves both   *)
(* undefined.                                                              *)
(***************************************************************************)
EXTENDS Integers

CONSTANT Bits    \* width of a register, a power of 2

\* The equations of ^ for the widths that occur; the prover knows none.
PowersOf2 ==
  /\ 2^0 = 1 /\ 2^1 = 2
  /\ \A n \in 0 .. Bits : 2^n \in Nat \ {0}
  /\ \A m, n \in 0 .. Bits : m + n <= Bits => 2^(m + n) = 2^m * 2^n

ASSUME ArithmeticAssumption == Bits \in {4, 8, 16, 32, 64} /\ PowersOf2

Half == Bits \div 2

\* The low w bits of x as a signed number; a number as a register holds it.
Signed(x, w) == LET u == x % 2^w IN IF u >= 2^(w - 1) THEN u - 2^w ELSE u
Reg(x) == x % 2^Bits

I64(x) == Signed(x, Bits)
I32(x) == Signed(x, Half)
U32(x) == x % 2^Half

Abs(x) == IF x < 0 THEN -x ELSE x
Bool(b) == IF b THEN 1 ELSE 0
Least(x, y) == IF y < x THEN y ELSE x
Greatest(x, y) == IF x < y THEN y ELSE x
Complement(x) == 2^Bits - 1 - x

\* The bits of a number that are 1; the number whose bits are 1 in a set; the
\* bitwise operators.
Ones(x) == {i \in 0 .. Bits - 1 : (x \div 2^i) % 2 = 1}

Number(S) ==
  LET low[n \in 0 .. Bits] ==
        IF n = 0 THEN 0 ELSE low[n - 1] + (IF n - 1 \in S THEN 2^(n - 1) ELSE 0)
  IN  low[Bits]

And(a, b) == Number(Ones(a) \cap Ones(b))
Or(a, b) == Number(Ones(a) \cup Ones(b))
Xor(a, b) == Number((Ones(a) \cup Ones(b)) \ (Ones(a) \cap Ones(b)))

\* Division and remainder of C++, towards 0.
Quot(x, y) == IF (x < 0) = (y < 0) THEN Abs(x) \div Abs(y) ELSE -(Abs(x) \div Abs(y))
Rem(x, y) == x - y * Quot(x, y)

Least64 == -(2^(Bits - 1))
Least32 == -(2^(Half - 1))

-----------------------------------------------------------------------------
(* src/libs/arithmetic                                                     *)

\* The multiply instruction of the host.
MulUint64Hi(a, b) == (a * b) \div 2^Bits

\* Mutant: the carry out of the middle columns is dropped.
PortableMulUnsignedHi_NoCarry(a, b) ==
  LET h == 2^Half
  IN  Reg((a \div h) * (b \div h) + (((a \div h) * (b % h)) \div h)
            + (((b \div h) * (a % h)) \div h))

\* The fallback, from four products of halves.
PortableMulUnsignedHi(a, b) ==
  LET h     == 2^Half
      hi    == (a \div h) * (b \div h)
      ab    == (a \div h) * (b % h)
      ba    == (b \div h) * (a % h)
      lo    == (a % h) * (b % h)
      carry == ((ab % h) + (ba % h) + (lo \div h)) \div h
  IN  Reg(hi + (ab \div h) + (ba \div h) + carry)

-----------------------------------------------------------------------------
(* The instructions: for a pair of operands, the value each computes.      *)

\* Mutant: the product is negated as its high half alone would be.
Mulh_NoBorrow(a, b) ==
  LET res == MulUint64Hi(Abs(I64(a)), Abs(I64(b)))
  IN  IF (I64(a) < 0) # (I64(b) < 0) THEN Complement(res) ELSE res

Mulh(a, b) ==
  LET res == MulUint64Hi(Abs(I64(a)), Abs(I64(b)))
  IN  IF (I64(a) < 0) # (I64(b) < 0)
      THEN Reg(Complement(res) + Bool(Reg(a * b) = 0))
      ELSE res

Mulhsu(a, b) ==
  IF a = 0 \/ b = 0 THEN 0
  ELSE IF I64(a) < 0 THEN Complement(MulUint64Hi(Abs(I64(a)), b))
  ELSE MulUint64Hi(a, b)

\* Signed and unsigned division; least is the least number of the width.
Div(x, y, least) ==
  IF y = 0 THEN -1 ELSE IF x = least /\ y = -1 THEN least ELSE Quot(x, y)

DivU(x, y) == IF y = 0 THEN -1 ELSE x \div y

RemS(x, y, least) ==
  IF y = 0 THEN x ELSE IF x = least /\ y = -1 THEN 0 ELSE Rem(x, y)

\* Mutant: the remainder of a division by 0 is 0.
RemU_Zero(x, y) == IF y = 0 THEN 0 ELSE x % y

RemU(x, y) == IF y = 0 THEN x ELSE x % y

RegTypeExec(a, b) ==
  [ ADD    |-> Reg(a + b),
    SUB    |-> Reg(a - b),
    SLL    |-> Reg(a * 2^(b % Bits)),
    SLT    |-> Bool(I64(a) < I64(b)),
    SLTU   |-> Bool(a < b),
    XOR    |-> Xor(a, b),
    SRL    |-> a \div 2^(b % Bits),
    SRA    |-> Reg(I64(a) \div 2^(b % Bits)),
    OR     |-> Or(a, b),
    AND    |-> And(a, b),
    MUL    |-> Reg(a * b),
    MULH   |-> Mulh(a, b),
    MULHSU |-> Mulhsu(a, b),
    MULHU  |-> MulUint64Hi(a, b),
    DIV    |-> Reg(Div(I64(a), I64(b), Least64)),
    DIVU   |-> Reg(DivU(a, b)),
    REM    |-> Reg(RemS(I64(a), I64(b), Least64)),
    REMU   |-> Reg(RemU(a, b)) ]

\* Mutant: the unsigned comparison is the signed one.
Taken_Signed(token, a, b) ==
  CASE token = "BEQ"  -> a = b
    [] token = "BNE"  -> a # b
    [] token \in {"BLT", "BLTU"} -> I64(a) < I64(b)
    [] token \in {"BGE", "BGEU"} -> I64(a) >= I64(b)

\* Whether a branch is taken.
Taken(token, a, b) ==
  CASE token = "BEQ"  -> a = b
    [] token = "BNE"  -> a # b
    [] token = "BLT"  -> I64(a) < I64(b)
    [] token = "BGE"  -> I64(a) >= I64(b)
    [] token = "BLTU" -> a < b
    [] token = "BGEU" -> a >= b

\* An int32_t as it is written to a register.
Word(x) == Reg(I32(x))

\* Mutant: an unsigned word is zero-extended.
UnsignedWord_Zero(x) == IF x < 0 THEN Reg(x) ELSE U32(x)

\* A uint32_t, or the -1 of a division by 0, as it is written to a register:
\* cast to int32_t first.
UnsignedWord(x) == Reg(I32(x))

Rv32TypeExec(a, b) ==
  [ ADDW  |-> Word(I32(a) + I32(b)),
    SUBW  |-> Word(I32(a) - I32(b)),
    SLLW  |-> Word(I32(a) * 2^(b % Half)),
    SRLW  |-> UnsignedWord(U32(a) \div 2^(b % Half)),
    SRAW  |-> Word(I32(a) \div 2^(b % Half)),
    MULW  |-> Word(I32(a) * I32(b)),
    DIVW  |-> Word(Div(I32(a), I32(b), Least32)),
    DIVUW |-> UnsignedWord(DivU(U32(a), U32(b))),
    REMW  |-> Word(RemS(I32(a), I32(b), Least32)),
    REMUW |-> UnsignedWord(RemU(U32(a), U32(b))) ]

\* GetShamt of the decoder: the count of a shift, the low bits of its immediate.
Shamt(imm, is_rv32) == imm % (IF is_rv32 THEN Half ELSE Bits)

\* Mutant: the immediate is zero-extended from its own width before the
\* unsigned comparison.
Unsigned_Narrow(imm) == imm % 2^Half

\* The conversion of an immediate to uint64_t.
Unsigned(imm) == Reg(imm)

ImmTypeExec(a, imm) ==
  LET shamt == Shamt(imm, FALSE)
  IN  [ ADDI  |-> Reg(I64(a) + imm),
        SLTI  |-> Bool(I64(a) < imm),
        SLTIU |-> Bool(a < Unsigned(imm)),
        XORI  |-> Xor(a, Unsigned(imm)),
        ORI   |-> Or(a, Unsigned(imm)),
        ANDI  |-> And(a, Unsigned(imm)),
        SLLI  |-> Reg(a * 2^shamt),
        SRLI  |-> a \div 2^shamt,
        SRAI  |-> Reg(I64(a) \div 2^shamt) ]

Imm32TypeExec(a, imm) ==
  LET shamt == Shamt(imm, TRUE)
  IN  [ ADDIW |-> Word(I32(a) + imm),
        SLLIW |-> Word(I32(a) * 2^shamt),
        SRLIW |-> UnsignedWord(U32(a) \div 2^shamt),
        SRAIW |-> Word(I32(a) \div 2^shamt) ]

\* What an AMO stores for the value b of rs2 and the value m in memory: the
\* doubleword forms, and the word forms, which store the low word only.
AmoD(b, m) ==
  [ SWAP |-> b,
    ADD  |-> Reg(b + m),
    XOR  |-> Xor(b, m),
    AND  |-> And(b, m),
    OR   |-> Or(b, m),
    MIN  |-> Reg(Least(I64(b), I64(m))),
    MAX  |-> Reg(Greatest(I64(b), I64(m))),
    MINU |-> Least(b, m),
    MAXU |-> Greatest(b, m) ]

\* Mutant: the unsigned forms compare whole registers.
AmoW_Wide(b, m) ==
  [ SWAP |-> U32(b), ADD |-> U32(b + m), XOR |-> Xor(U32(b), U32(m)),
    AND |-> And(U32(b), U32(m)), OR |-> Or(U32(b), U32(m)),
    MIN |-> U32(Least(I32(b), I32(m))), MAX |-> U32(Greatest(I32(b), I32(m))),
    MINU |-> U32(Least(b, U32(m))), MAXU |-> U32(Greatest(b, U32(m))) ]

AmoW(b, m) ==
  [ SWAP |-> U32(I32(b)),
    ADD  |-> U32(I32(b) + I32(m)),
    XOR  |-> U32(Xor(Reg(I32(b)), Reg(I32(m)))),
    AND  |-> U32(And(Reg(I32(b)), Reg(I32(m)))),
    OR   |-> U32(Or(Reg(I32(b)), Reg(I32(m)))),
    MIN  |-> U32(Least(I32(b), I32(m))),
    MAX  |-> U32(Greatest(I32(b), I32(m))),
    MINU |-> Least(U32(b), U32(m)),
    MAXU |-> Greatest(U32(b), U32(m)) ]
=============================================================================
