---------------------------- MODULE VirtualMemory ----------------------------
(***************************************************************************)
(* What the MMU promises to the program it runs: an access is translated   *)
(* by a leaf that the page tables held, for its address and address space, *)
(* at some moment since the last SFENCE.VMA that covers them.  There is no *)
(* TLB here: may[k][v] is the set of the leaves that may still be used for *)
(* page v in address space k, or in all of them when k is Global.          *)
(***************************************************************************)
EXTENDS Sv39

CONSTANTS
  Asids,        \* address space identifiers, 0 among them
  Pages,        \* the virtual pages the program has translated
  Accesses,     \* the fetches, loads and stores it makes
  SatpWrites    \* the values it writes to satp

VARIABLES
  mem,          \* the page table entries
  satp,
  may,
  outcome       \* the last access and its effect, for the properties

vars == <<mem, satp, may, outcome>>

Global == -1

NoMay == [k \in Asids \cup {Global} |-> [v \in Pages |-> {}]]

\* The leaves of m together with those the page tables hold for space s.
Grow(m, tables, s) ==
  [k \in Asids \cup {Global} |->
     IF k \notin {s.asid, Global} THEN m[k]
     ELSE [v \in Pages |->
             LET l == PageTableWalk(tables, s, v)
             IN  IF l.page_size > 0 /\ (k = Global => "G" \in l.flags)
                 THEN m[k][v] \cup {l} ELSE m[k][v]]]

\* The leaves of m left by SFENCE.VMA for these pages and this address space;
\* 0 stands for all of them, the global mappings included.
Fenced(m, covers, asid) ==
  [k \in Asids \cup {Global} |-> [v \in Pages |->
     IF v \in covers /\ (asid = 0 \/ k = asid) THEN {} ELSE m[k][v]]]

Quiet == [access |-> [kind |-> None], effect |-> PageFault]

Init ==
  /\ mem = [s \in Slots |-> ZeroPte]
  /\ satp = ResetSatp
  /\ may = NoMay
  /\ outcome = Quiet

\* The effects access a may have now.
Effects(a) ==
  IF UsePhysAddr(satp, a) THEN {Reach(Physical(a.va))}
  ELSE IF ~ Canonical(a.va) THEN {PageFault}
  ELSE {Through(a, l) : l \in may[satp.asid][a.va] \cup may[Global][a.va]
                              \cup {PageTableWalk(mem, satp, a.va)}}

Access(a) ==
  /\ outcome'.access = a
  /\ outcome' \in [access : {a}, effect : Effects(a)]
  /\ mem' = Written(mem, a, outcome'.effect)
  /\ UNCHANGED satp
  /\ may' = Grow(may, mem', satp)

WriteSatp(w) ==
  /\ outcome' = Quiet
  /\ satp' = SatpAfter(satp, w)
  /\ UNCHANGED mem
  /\ may' = Grow(may, mem, satp')

SfenceVma(covers, asid) ==
  /\ outcome' = Quiet
  /\ UNCHANGED <<mem, satp>>
  /\ may' = Grow(Fenced(may, covers, asid), mem, satp)

Reset ==
  /\ outcome' = Quiet
  /\ mem' = [s \in Slots |-> ZeroPte]
  /\ satp' = ResetSatp
  /\ may' = NoMay

Next ==
  \/ \E a \in Accesses : Access(a)
  \/ \E w \in SatpWrites : WriteSatp(w)
  \/ \E covers \in {Pages} \cup {{v} : v \in Pages}, asid \in Asids :
       SfenceVma(covers, asid)
  \/ Reset

Spec == Init /\ [][Next]_vars
=============================================================================
