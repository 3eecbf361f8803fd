------------------------------- MODULE MCJit -------------------------------
EXTENDS Jit

Inst(op, token, rd, rs1, rs2, imm, mem_size) ==
  [op |-> op, token |-> token, rd |-> rd, rs1 |-> rs1, rs2 |-> rs2, imm |-> imm,
   mem_size |-> mem_size, pc |-> 0, size |-> 4]

RegTokens == DOMAIN RegOps \union {"SLT", "SLTU", "MULHSU", "DIV", "DIVU", "REM", "REMU"}
Reg32Tokens == DOMAIN Reg32Ops \union {"DIVW", "DIVUW", "REMW", "REMUW"}
ImmTokens == DOMAIN ImmOps \union {"SLTI", "SLTIU"}

\* Every token on operands of all signs, with a divisor of 0 and overflows.
ValueInstructions ==
  {Inst("kReg", t, 1, 5, 18, 0, 0) : t \in RegTokens}
    \union {Inst("kRv32", t, 1, 5, 18, 0, 0) : t \in Reg32Tokens}
    \union {Inst("kImm", t, 1, 5, 0, imm, 0) : t \in ImmTokens, imm \in {-3, 0, 6}}
    \union {Inst("kImm32", t, 1, 5, 0, imm, 0) : t \in DOMAIN Imm32Ops, imm \in {-3, 0, 6}}

Values == {0, 1, 3, 127, 128, 200, 255}

\* Operands in each kind of place: zero, gp and tp in memory, a0 .. a2 whose host
\* registers are borrowed, t0 and ra that a call may change, s2 that it keeps.
Operands == {0, 3, 4, 10, 11, 12, 5, 18}

OperandInstructions ==
  {Inst("kReg", t, rd, rs1, rs2, 0, 0) :
     t \in {"SUB", "REM", "MULHSU"}, rd \in Operands, rs1 \in Operands, rs2 \in Operands}
  \union {Inst("kRv32", t, rd, rs1, rs2, 0, 0) :
     t \in {"SUBW", "REMUW"}, rd \in {3, 10, 11}, rs1 \in Operands, rs2 \in Operands}
  \union {Inst(op[1], op[2], rd, rs1, 0, 6, 0) :
     op \in {<<"kImm", "ADDI">>, <<"kImm32", "ADDIW">>, <<"kJalr", "JALR">>},
     rd \in Operands, rs1 \in Operands}
  \union {Inst(op[1], op[2], rd, 0, 0, imm, 0) :
     op \in {<<"kLui", "LUI">>, <<"kAuipc", "AUIPC">>, <<"kJal", "JAL">>},
     rd \in Operands, imm \in {-4, 4}}

\* Blocks: accesses that succeed and that fail, between instructions that use
\* borrowed registers.
BlockInstructions ==
  {Inst("kLoad", t[1], rd, rs1, 0, imm, t[2]) :
     t \in {<<"LB", 1>>, <<"LHU", 2>>, <<"LD", 8>>}, rd \in {0, 3, 10, 2},
     rs1 \in {4, 11}, imm \in {1}}
  \union {Inst("kStore", t[1], 0, rs1, rs2, imm, t[2]) :
     t \in {<<"SB", 1>>, <<"SD", 8>>}, rs1 \in {4, 11}, rs2 \in {0, 3, 10, 2}, imm \in {-2}}
  \union {Inst("kLoad", "LD", 10, 0, 0, 6, 8), Inst("kStore", "SD", 0, 0, 18, 6, 8),
          Inst("kReg", "ADD", 3, 10, 4, 0, 0), Inst("kReg", "SUB", 2, 3, 12, 0, 0),
          Inst("kJalr", "JALR", 3, 4, 0, 2, 0), Inst("kAuipc", "AUIPC", 4, 0, 0, 2, 0),
          Inst("kBranch", "BEQ", 0, 0, 0, 4, 0), Inst("kUndef", "UNKNOWN", 0, 0, 0, 0, 0)}

File == [r \in {3, 4, 5, 10, 11, 12, 18} |->
  CASE r = 3 -> 77 [] r = 4 -> 18 [] r = 5 -> 250 [] r = 10 -> 20 [] r = 11 -> 19
    [] r = 12 -> 3 [] r = 18 -> 129]

Memory == [a \in 16 .. 31 |-> IF a \in {17, 18, 20, 24, 26} THEN 1 ELSE 0]

-----------------------------------------------------------------------------
(* Words: every token, with immediates at the ends of their ranges and of  *)
(* the pieces they are encoded in, and words that are no instruction.      *)

WordFor(info) == [word |-> Encode(info), info |-> info, has |-> Has(info)]

TokensOf(lists) ==
  UNION {{<<op, lists[op][i]>> : i \in {k \in DOMAIN lists[op] : lists[op][k] # "-"}} :
         op \in DOMAIN lists}

ListedTokens ==
  TokensOf(Lists) \union TokensOf(MulLists)
    \union {<<"kReg", "SUB">>, <<"kReg", "SRA">>, <<"kRv32", "SUBW">>, <<"kRv32", "SRAW">>,
            <<"kImm", "SRAI">>, <<"kImm32", "SRAIW">>}

Imms(op, token) ==
  CASE token \in {"SLLI", "SRLI", "SRAI"} -> {0, 31, 32, 63}
    [] token \in {"SLLIW", "SRLIW", "SRAIW"} -> {0, 31}
    [] op \in {"kReg", "kRv32"} -> {0}
    [] op = "kFence"  -> {255}
    [] op = "kSystem" -> {0, 833, 4095}
    [] op = "kBranch" -> {-4096, -2, 2, 16, 32, 2048, 4094}
    [] OTHER          -> {-2048, -1, 0, 31, 32, 2047}

ListedWords ==
  LET bytes(op, token) == IF op \in {"kLoad", "kStore"} THEN kAccessMemBytes[token] ELSE 0
  IN  UNION {{WordFor(Inst(t[1], t[2], r[1], r[2], r[3], imm, bytes(t[1], t[2]))) :
                r \in {<<1, 5, 18>>, <<6, 17, 31>>}, imm \in Imms(t[1], t[2])} : t \in ListedTokens}

UpperWords ==
  {WordFor(Inst(Uppers[t], t, 1, 0, 0, imm, 0)) : t \in {"LUI", "AUIPC"},
     imm \in {(-524288) * 4096, -4096, 0, 4096 * 7, 4096 * 8, 4096 * 255, 4096 * 256, 524287 * 4096}}
  \union {WordFor(Inst("kJal", "JAL", 1, 0, 0, imm, 0)) :
     imm \in {-1048576, -2, 2, 32, 2048, 4096, 32768, 524288, 1048574}}

AmoWords ==
  LET word(t, a, f3) ==
        LET info == Inst("kAmo", t, 1, 5, IF a = "LR" THEN 0 ELSE 18, 0, 2^f3)
        IN  [ word |-> AmoWord(info, a, f3), info |-> info, has |-> Has(info) ]
  IN  UNION {{word(AmoTokens[a][1], a, 2), word(AmoTokens[a][2], a, 3)} : a \in DOMAIN AmoTokens}

PlainWords ==
  {WordFor(Inst("kSystem", t, 0, 0, 0, 0, 0)) : t \in DOMAIN Plains}
    \union {WordFor(Inst("kFence", t, 0, 0, 0, 0, 0)) : t \in DOMAIN Fences}
    \union {WordFor(Inst("kSystem", "SFENCE_VMA", 0, 5, 18, 0, 0))}

NoInstruction(op, f3, f7) ==
  [ word |-> [op |-> op, rd |-> 1, f3 |-> f3, rs1 |-> 5, rs2 |-> 18, f7 |-> f7],
    info |-> Inst(OpOf(op), "UNKNOWN", 0, 0, 0, 0, 0), has |-> {} ]

OtherWords ==
  {NoInstruction(OpCode.kLoad, 7, 0), NoInstruction(OpCode.kStore, 4, 0),
   NoInstruction(OpCode.kBranch, 2, 0), NoInstruction(OpCode.kReg, 0, 2),
   NoInstruction(OpCode.kImm, 1, 32), NoInstruction(OpCode.kRv32, 1, 32),
   NoInstruction(OpCode.kJalr, 1, 0), NoInstruction(OpCode.kSystem, 4, 0),
   NoInstruction(OpCode.kAmo, 1, 0), NoInstruction(OpCode.kAmo, 2, 20),
   NoInstruction(OpCode.kAmo, 2, 8), NoInstruction(7, 2, 0), NoInstruction(0, 0, 0)}

MCSessions ==
  { [instructions |-> ValueInstructions, words |-> {}, length |-> 1, mem |-> Memory, start |-> 0,
     files |-> {[r \in {5, 18} |-> IF r = 5 THEN a ELSE b] : a \in Values, b \in Values},
     junk |-> {0}],
    [instructions |-> OperandInstructions, words |-> {}, length |-> 1, mem |-> Memory, start |-> 0,
     files |-> {File}, junk |-> {0}],
    [instructions |-> BlockInstructions, words |-> {}, length |-> 2, mem |-> Memory, start |-> 0,
     files |-> {File}, junk |-> {170}],
    [instructions |-> {}, length |-> 1, mem |-> Memory, start |-> 0, files |-> {File},
     words |-> ListedWords \union UpperWords \union AmoWords \union PlainWords
                 \union OtherWords,
     junk |-> {170}] }
=============================================================================
