------------------------------- MODULE Bytes -------------------------------
(***************************************************************************)
(* Little-endian numbers and memcpy.  A byte takes Base values instead of  *)
(* 256, so that numbers of eight bytes stay small; accesses keep their     *)
(* widths of 1, 2, 4 and 8 bytes.  A buffer, like an array of bytes, is a  *)
(* function on 0 .. n - 1.                                                 *)
(***************************************************************************)
EXTENDS Integers

CONSTANT Base    \* a power of 2

Byte == 0 .. Base - 1

\* The equations of ^ for the widths that occur; the prover knows none.
PowersOfBase == Base^0 = 1 /\ \A i \in 0 .. 7 : Base^(i + 1) = Base * Base^i

\* The numbers of n bytes.
Numbers(n) == 0 .. Base^n - 1

\* The n low bytes of a number, and the number that a buffer holds.
ToBytes(x, n) == [i \in 0 .. n - 1 |-> (x \div Base^i) % Base]

FromBytes(buf, n) ==
  LET value[i \in 0 .. n] ==
        IF i = n THEN 0 ELSE buf[i] + Base * value[i + 1]
  IN  value[0]

\* The number of n bytes x taken as signed.
SignExtend(x, n) == IF 2 * x >= Base^n THEN x - Base^n ELSE x

\* memcpy out of and into an array.
Slice(array, at, n) == [i \in 0 .. n - 1 |-> array[at + i]]

Patch(array, at, buf) ==
  [k \in DOMAIN array |-> IF k - at \in DOMAIN buf THEN buf[k - at] ELSE array[k]]
=============================================================================
