-------------------------------- MODULE A64 --------------------------------
(***************************************************************************)
(* The host of the code emitter: the instructions of a 64-bit ARM that     *)
(* src/jit/jit.cc emits, and the machine that runs them.  The machine is   *)
(* external to the repository; MmuLoad and MmuStore, which emitted code    *)
(* calls, are not.                                                         *)
(*                                                                         *)
(* Registers hold numbers, of Bits bits when they are guest values.  The   *)
(* machine is a record: x, the registers x0 .. x30; sp and stack, in       *)
(* doublewords; cmp, the operands last compared; skip, the label that a    *)
(* branch is on the way to, or "none" (all branches go forward); cpu, the  *)
(* object of the emulated hart, in doublewords (its 32 registers, pc_ and  *)
(* instret_); mem, the guest's memory; trap, the type in exit_trap_.       *)
(***************************************************************************)
EXTENDS Executor, Sequences

\* Register 31 is the zero register as an operand and sp as a base.
Zr == 31
Sp == 31

\* Pointers of the host, outside the guest's numbers.
Pointer(n) == 2^Bits + n
CpuPtr == Pointer(0)
TrapPtr == Pointer(1)
LoadPtr == Pointer(2)
StorePtr == Pointer(3)

kPcBias == 32
kInstretBias == 33

\* The types of exit_trap_ that the code tells apart.
kNone == 3
kFault == 1

-----------------------------------------------------------------------------
(* Instructions                                                            *)

Mov(d, imm)         == [op |-> "mov", d |-> d, imm |-> imm]
MovReg(d, n)        == [op |-> "move", d |-> d, n |-> n]
Op(op, w, d, n, m)  == [op |-> op, w |-> w, d |-> d, n |-> n, m |-> m]
OpImm(op, w, d, n, imm) == [op |-> op, w |-> w, d |-> d, n |-> n, imm |-> imm]
Msub(w, d, n, m, a) == [op |-> "msub", w |-> w, d |-> d, n |-> n, m |-> m, a |-> a]
Sxt(d, n, w)        == [op |-> "sxt", w |-> w, d |-> d, n |-> n]
Cmp(n, m)           == [op |-> "cmp", n |-> n, m |-> m]
Cset(d, cond)       == [op |-> "cset", d |-> d, cond |-> cond]
Ldr(d, base, at)    == [op |-> "ldr", w |-> Bits, d |-> d, base |-> base, at |-> at]
LdrW(d, base, at)   == [op |-> "ldr", w |-> Half, d |-> d, base |-> base, at |-> at]
Str(d, base, at)    == [op |-> "str", d |-> d, base |-> base, at |-> at]
Ldrs(moves, base)   == [op |-> "ldrs", moves |-> moves, base |-> base]
Strs(moves, base)   == [op |-> "strs", moves |-> moves, base |-> base]
AddSp(n)            == [op |-> "sp", by |-> n]
Blr(n)              == [op |-> "blr", n |-> n]
B(to)               == [op |-> "b", to |-> to]
Cbz(w, n, to)       == [op |-> "cbz", w |-> w, n |-> n, to |-> to]
Cbnz(w, n, to)      == [op |-> "cbnz", w |-> w, n |-> n, to |-> to]
TbnzTop(n, to)      == [op |-> "tbnz", n |-> n, to |-> to]
Bind(label)         == [op |-> "bind", label |-> label]

-----------------------------------------------------------------------------
(* The two functions                                                       *)

\* A call leaves x19 .. x29 and sp, and anything in the other registers.
Clobbered(m, junk) ==
  [m EXCEPT !.x = [i \in 0 .. 30 |-> IF i \in 19 .. 29 THEN @[i] ELSE junk]]

Accessible(m) == m.x[1] .. m.x[1] + m.x[2] - 1 \subseteq DOMAIN m.mem

\* MmuLoad(cpu, addr, size, &trap), and MmuStore(cpu, addr, size, data, &trap).
MmuLoad(m, junk) ==
  LET after == Clobbered(m, junk)
  IN  IF Accessible(m)
      THEN [after EXCEPT !.x[0] = FromBytes(Slice(m.mem, m.x[1], m.x[2]), m.x[2]),
                         !.trap = kNone]
      ELSE [after EXCEPT !.x[0] = 0, !.trap = kFault]

MmuStore(m, junk) ==
  LET after == Clobbered(m, junk)
  IN  IF Accessible(m)
      THEN [after EXCEPT !.mem = Patch(m.mem, m.x[1], ToBytes(m.x[3], m.x[2])),
                         !.trap = kNone]
      ELSE [after EXCEPT !.trap = kFault]

-----------------------------------------------------------------------------
(* The machine                                                             *)

Get(m, i) == IF i = Zr THEN 0 ELSE m.x[i]
Set(m, i, val) == IF i = Zr THEN m ELSE [m EXCEPT !.x[i] = val]

Value(op, w, a, b) ==
  LET u == a % 2^w
      v == b % 2^w
      s == Signed(a, w)
      t == Signed(b, w)
  IN  CASE op = "add"   -> u + v
        [] op = "sub"   -> u - v
        [] op = "and"   -> And(u, v)
        [] op = "orr"   -> Or(u, v)
        [] op = "eor"   -> Xor(u, v)
        [] op = "orn"   -> Or(u, 2^w - 1 - v)
        [] op = "lsl"   -> u * 2^(v % w)
        [] op = "lsr"   -> u \div 2^(v % w)
        [] op = "asr"   -> s \div 2^(v % w)
        [] op = "mul"   -> u * v
        [] op = "smulh" -> (s * t) \div 2^w
        [] op = "umulh" -> (u * v) \div 2^w
        [] op = "sdiv"  -> IF t = 0 THEN 0 ELSE Quot(s, t)
        [] op = "udiv"  -> IF v = 0 THEN 0 ELSE u \div v

\* The doubleword at an address, and the machine with another one there.
Peek(m, base, at) ==
  CASE base = Sp                -> m.stack[m.sp + at]
    [] base # Sp /\ m.x[base] = CpuPtr  -> m.cpu[at]
    [] base # Sp /\ m.x[base] = TrapPtr -> m.trap

Poke(m, base, at, val) ==
  CASE base = Sp                -> [m EXCEPT !.stack[m.sp + at] = val]
    [] base # Sp /\ m.x[base] = CpuPtr -> [m EXCEPT !.cpu[at] = val]

\* The same for several registers: moves are the pairs of a register and a place.
PeekAll(m, base, moves) ==
  [m EXCEPT !.x = [i \in DOMAIN @ |->
     IF \E p \in moves : p[1] = i
     THEN Peek(m, base, (CHOOSE p \in moves : p[1] = i)[2]) ELSE @[i]]]

Spread(m, f, moves, at) ==
  [s \in DOMAIN f |->
     IF \E p \in moves : p[2] = s - at
     THEN Get(m, (CHOOSE p \in moves : p[2] = s - at)[1]) ELSE f[s]]

PokeAll(m, base, moves) ==
  CASE base = Sp                -> [m EXCEPT !.stack = Spread(m, @, moves, m.sp)]
    [] base # Sp /\ m.x[base] = CpuPtr -> [m EXCEPT !.cpu = Spread(m, @, moves, 0)]

Branch(m, taken, to) == IF taken THEN [m EXCEPT !.skip = to] ELSE m

\* One instruction; junk is what a call leaves in the registers it may use.
Execute(m, i, junk) ==
  CASE i.op = "mov"  -> Set(m, i.d, i.imm)
    [] i.op = "move" -> Set(m, i.d, Get(m, i.n))
    [] i.op = "msub" -> Set(m, i.d, (Get(m, i.a) - (Get(m, i.n) * Get(m, i.m))) % 2^i.w)
    [] i.op = "sxt"  -> Set(m, i.d, Reg(Signed(Get(m, i.n), i.w)))
    [] i.op = "cmp"  -> [m EXCEPT !.cmp = <<Get(m, i.n), Get(m, i.m)>>]
    [] i.op = "cset" -> Set(m, i.d, Bool(IF i.cond = "kLT" THEN I64(m.cmp[1]) < I64(m.cmp[2])
                                         ELSE m.cmp[1] < m.cmp[2]))
    [] i.op = "ldr"  -> Set(m, i.d, IF i.w = Bits THEN Peek(m, i.base, i.at)
                                    ELSE Peek(m, i.base, i.at) % 2^i.w)
    [] i.op = "str"  -> Poke(m, i.base, i.at, Get(m, i.d))
    [] i.op = "ldrs" -> PeekAll(m, i.base, i.moves)
    [] i.op = "strs" -> PokeAll(m, i.base, i.moves)
    [] i.op = "sp"   -> [m EXCEPT !.sp = @ + i.by]
    [] i.op = "blr"  -> IF m.x[i.n] = LoadPtr THEN MmuLoad(m, junk) ELSE MmuStore(m, junk)
    [] i.op = "b"    -> Branch(m, TRUE, i.to)
    [] i.op = "cbz"  -> Branch(m, Get(m, i.n) % 2^i.w = 0, i.to)
    [] i.op = "cbnz" -> Branch(m, Get(m, i.n) % 2^i.w # 0, i.to)
    [] i.op = "tbnz" -> Branch(m, I64(Get(m, i.n)) < 0, i.to)
    [] i.op = "bind" -> m
    [] OTHER         ->
         LET b == IF "imm" \in DOMAIN i THEN i.imm ELSE Get(m, i.m)
         IN  Set(m, i.d, Value(i.op, i.w, Get(m, i.n), b) % 2^i.w)

\* An instruction on the way to a label is not executed.
Reach(m, i, junk) ==
  CASE m.skip = "none" -> Execute(m, i, junk)
    [] m.skip # "none" /\ i = Bind(m.skip) -> [m EXCEPT !.skip = "none"]
    [] OTHER -> m

\* The machine after instructions, and after a sequence of such pieces of code.
\* (The bound variable x makes TLC compute the machine before an instruction
\* once, and before the one after it.)
Run(code, m, junk) ==
  LET after[k \in 0 .. Len(code)] ==
        IF k = 0 THEN m
        ELSE CHOOSE r \in {Reach(x, code[k], junk) : x \in {after[k - 1]}} : TRUE
  IN  after[Len(code)]

RunAll(pieces, m, junk) ==
  LET after[k \in 0 .. Len(pieces)] ==
        IF k = 0 THEN m
        ELSE CHOOSE r \in {Run(pieces[k], x, junk) : x \in {after[k - 1]}} : TRUE
  IN  after[Len(pieces)]
=============================================================================
