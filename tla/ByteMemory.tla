----------------------------- MODULE ByteMemory -----------------------------
(***************************************************************************)
(* What the bus promises for the memory and the clock: regions of bytes at *)
(* fixed addresses.  An access that lies in a region is done, to exactly   *)
(* the bytes it names; any other is refused and changes nothing.           *)
(***************************************************************************)
EXTENDS Integers

CONSTANTS
  Accesses,      \* [op, addr, bytes, buf]; op is "load" or "store"
  Elsewhere,     \* those of them that another device answers
  Regions,       \* the place of each region, [base, size]
  Volatile,      \* regions that change by themselves
  Flags          \* regions of words of which only bit 0 is kept

VARIABLES
  mem,           \* the bytes of each region that is there
  reply          \* the last access and its result, [acc, ok, data]

vars == <<mem, reply>>

Holds(r, acc) ==
  /\ Regions[r].base <= acc.addr
  /\ acc.addr + acc.bytes <= Regions[r].base + Regions[r].size

Kept(r, i, b) == IF r \in Flags THEN IF i % 4 = 0 THEN b % 2 ELSE 0 ELSE b

Init == reply = [acc |-> [op |-> "none"]]

\* Regions are added; what is there stays.
Attach ==
  /\ DOMAIN mem \subseteq DOMAIN mem'
  /\ \A r \in DOMAIN mem : mem'[r] = mem[r]
  /\ UNCHANGED reply

Load(acc, r) ==
  /\ acc.op = "load" /\ Holds(r, acc)
  /\ reply' = [ acc |-> acc, ok |-> TRUE,
                data |-> [i \in 0 .. acc.bytes - 1 |->
                            mem[r][acc.addr - Regions[r].base + i]] ]
  /\ UNCHANGED mem

Store(acc, r) ==
  /\ acc.op = "store" /\ Holds(r, acc)
  /\ reply' = [acc |-> acc, ok |-> TRUE, data |-> <<>>]
  /\ mem' = [mem EXCEPT ![r] =
       [i \in DOMAIN @ |->
          LET k == Regions[r].base + i - acc.addr
          IN  IF k \in 0 .. acc.bytes - 1 THEN Kept(r, i, acc.buf[k]) ELSE @[i]]]

Refuse(acc) ==
  /\ \A r \in DOMAIN mem : ~ Holds(r, acc)
  /\ reply' = [acc |-> acc, ok |-> FALSE, data |-> <<>>]
  /\ UNCHANGED mem

Answered(acc) == acc \in Elsewhere /\ UNCHANGED mem

\* A reset of some regions, and a step of the clock.
Clear ==
  /\ DOMAIN mem' = DOMAIN mem
  /\ \A r \in DOMAIN mem \ Volatile : mem'[r] = [i \in DOMAIN mem[r] |-> 0]
  /\ UNCHANGED reply

Advance ==
  /\ DOMAIN mem' = DOMAIN mem
  /\ \A r \in DOMAIN mem \ Volatile : mem'[r] = mem[r]
  /\ UNCHANGED reply

Next ==
  \/ \E acc \in Accesses :
       /\ reply'.acc = acc
       /\ \/ \E r \in DOMAIN mem : Load(acc, r) \/ Store(acc, r)
          \/ Refuse(acc)
          \/ Answered(acc)
  \/ Attach \/ Clear \/ Advance

Spec == Init /\ [][Next]_vars
=============================================================================
