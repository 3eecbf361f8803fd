------------------------------- MODULE Clint -------------------------------
(***************************************************************************)
(* The core-local interruptor (src/device/clint.cc): the clock mtime, and  *)
(* for each hart the deadline mtimecmp and the software interrupt msip, as *)
(* the bytes that loads and stores of any width copy.  The state is a      *)
(* record [msip, mtimecmp, mtime] of byte arrays.                          *)
(***************************************************************************)
EXTENDS Bytes

CONSTANT Harts   \* main has one hart, the unit test two

kMsipBase == 0
kMtimeCmpBase == 16384
kMtimeBase == 49144

\* The three register files: where each begins and its bytes.
Files ==
  [ msip     |-> [base |-> kMsipBase,     size |-> 4 * Harts],
    mtimecmp |-> [base |-> kMtimeCmpBase, size |-> 8 * Harts],
    mtime    |-> [base |-> kMtimeBase,    size |-> 8] ]

\* The register file that holds all bytes of an access: at most one.  An
\* access in none of them is refused.
Holds(f, addr, bytes) ==
  /\ Files[f].base <= addr
  /\ addr + bytes <= Files[f].base + Files[f].size

Mapped(addr, bytes) == \E f \in DOMAIN Files : Holds(f, addr, bytes)
FileOf(addr, bytes) == CHOOSE f \in DOMAIN Files : Holds(f, addr, bytes)

\* Clint::Load of an access that is mapped.
LoadValue(c, addr, bytes) ==
  LET f == FileOf(addr, bytes)
  IN  Slice(c[f], addr - Files[f].base, bytes)

\* Mutant: a word that is not the first keeps its upper bits.
MaskMsip_First(msip) ==
  [i \in DOMAIN msip |-> IF i = 0 THEN msip[0] % 2 ELSE IF i < 4 THEN 0 ELSE msip[i]]

\* The loop after a store to msip: of every word only bit 0 is kept.
MaskMsip(msip) == [i \in DOMAIN msip |-> IF i % 4 = 0 THEN msip[i] % 2 ELSE 0]

\* Clint::Store of an access that is mapped.
DoStore(c, addr, buf, bytes) ==
  LET f    == FileOf(addr, bytes)
      file == Patch(c[f], addr - Files[f].base, buf)
  IN  [c EXCEPT ![f] = IF f = "msip" THEN MaskMsip(file) ELSE file]

\* Mutant: only the low word of the deadline is compared.
MachineTimerIrq_Low(c, hart) ==
  FromBytes(c.mtime, 8) > FromBytes(Slice(c.mtimecmp, 8 * hart, 4), 4)

MachineTimerIrq(c, hart) ==
  FromBytes(c.mtime, 8) > FromBytes(Slice(c.mtimecmp, 8 * hart, 8), 8)

MachineSoftwareIrq(c, hart) == c.msip[4 * hart] % 2 = 1

\* Mutant: the clock counts iterations of the loop.
DoUpdateMtime_Counts(c, now) ==
  [c EXCEPT !.mtime = ToBytes((FromBytes(c.mtime, 8) + 1) % Base^8, 8)]

\* Mutant: the clock keeps the time at which the device was made.
DoUpdateMtime_Once(c, now) == c

\* UpdateMtime, when the host's clock shows now.
DoUpdateMtime(c, now) == [c EXCEPT !.mtime = ToBytes(now, 8)]

\* Clint::Tick, which only the unit test calls: the clock wraps.
DoTick(c) == [c EXCEPT !.mtime = ToBytes((FromBytes(c.mtime, 8) + 1) % Base^8, 8)]

\* The constructor and Reset.
NewClint(now) ==
  [ msip     |-> [i \in 0 .. 4 * Harts - 1 |-> 0],
    mtimecmp |-> [i \in 0 .. 8 * Harts - 1 |-> 0],
    mtime    |-> ToBytes(now, 8) ]

\* Every register file has its bytes, and every word of msip is 0 or 1.
IsClint(c) ==
  /\ c \in [ msip     : [0 .. 4 * Harts - 1 -> Byte],
             mtimecmp : [0 .. 8 * Harts - 1 -> Byte],
             mtime    : [0 .. 7 -> Byte] ]
  /\ \A i \in DOMAIN c.msip : c.msip[i] > 0 => i % 4 = 0 /\ c.msip[i] = 1
=============================================================================
