-------------------------------- MODULE Sv39 --------------------------------
(***************************************************************************)
(* Address translation as a function of the page tables in memory          *)
(* (Sv39::PageTableWalk and the checks of Mmu::Fetch, Load and Store in    *)
(* src/cpu/mmu.cc).  The offset in a page is carried along unchanged and   *)
(* is left out: a virtual address is its page, the fields blank and vpn_0, *)
(* vpn_1, vpn_2 of Sv39VirtualAddress; a physical address is its page, the *)
(* fields ppn_0, ppn_1, ppn_2 of Sv39PhysicalAddress.  An access that runs *)
(* over the end of a page is not modelled.                                 *)
(***************************************************************************)
EXTENDS Integers

CONSTANTS
  VpnCount,     \* entries of a page table, and values of a vpn field (2^9)
  MaxBlank,     \* the largest value of the field blank (2^25 - 1)
  Slots,        \* the page table entries in memory: <<page, index>>
  Backed        \* the physical pages behind which there is a device

ASSUME Sv39Assumption ==
  /\ VpnCount \in Nat \ {0}
  /\ MaxBlank \in Nat \ {0}

None == "none"

Levels == 0 .. 2

VPages == [blank : 0 .. MaxBlank, vpn : [Levels -> 0 .. VpnCount - 1]]

PPages == [Levels -> Nat]

\* kSv39VirtualAddressLegal: bits 39 to 63 equal bit 38.
Canonical(v) ==
  \/ v.blank = 0        /\ 2 * v.vpn[2] < VpnCount
  \/ v.blank = MaxBlank /\ 2 * v.vpn[2] >= VpnCount

\* The levels whose index is part of the offset in a page of this size, where
\* page_size is 1 for 4 KB, 2 for 2 MB and 3 for 1 GB.
OffsetLevels(page_size) == {i \in Levels : i < page_size - 1}

GetTlbTag(v, page_size) ==
  [blank |-> v.blank, vpn |-> [i \in Levels \ OffsetLevels(page_size) |-> v.vpn[i]]]

-----------------------------------------------------------------------------
(* The page table walk.  "reserved" stands for the fields reserved, pbmt.  *)

PteFlags == {"V", "R", "W", "X", "U", "G", "A", "D", "reserved"}

Ptes == [flags : SUBSET PteFlags, ppn : PPages]

ZeroPte == [flags |-> {}, ppn |-> [i \in Levels |-> 0]]

Invalid(pte) ==
  \/ "V" \notin pte.flags
  \/ "R" \notin pte.flags /\ "W" \in pte.flags
  \/ "reserved" \in pte.flags

\* The entry of level i for v, in the table at this page.  Memory outside the
\* slots is zero, or fails to load: the walk ends in both cases.
Found(mem, table, v, i) ==
  IF <<table, v.vpn[i]>> \in Slots THEN mem[<<table, v.vpn[i]>>] ELSE ZeroPte

IsPointer(pte) == ~ Invalid(pte) /\ pte.flags \cap {"R", "W", "X"} = {}

\* PageTableWalk returning false; no leaf has page_size 0.
NoLeaf == [ppn |-> ZeroPte.ppn, flags |-> {}, page_size |-> 0]

\* What the walk returns when its loop ends at this entry of level i: a leaf
\* that is aligned to its size, or NoLeaf.
LeafAt(pte, i) ==
  IF \/ Invalid(pte)
     \/ IsPointer(pte)
     \/ \E j \in OffsetLevels(i + 1) : pte.ppn[j] # 0
  THEN NoLeaf
  ELSE [ppn |-> pte.ppn, flags |-> pte.flags, page_size |-> i + 1]

\* PageTableWalk.
PageTableWalk(mem, satp, v) ==
  LET pte2 == Found(mem, satp.ppn, v, 2)
      pte1 == Found(mem, pte2.ppn, v, 1)
      pte0 == Found(mem, pte1.ppn, v, 0)
  IN  IF satp.mode # "sv39" THEN NoLeaf
      ELSE IF ~ IsPointer(pte2) THEN LeafAt(pte2, 2)
      ELSE IF ~ IsPointer(pte1) THEN LeafAt(pte1, 1)
      ELSE LeafAt(pte0, 0)

-----------------------------------------------------------------------------
(* What an access a = [kind, priv, mprv, mpp, mxr, va] does with a leaf.   *)
(* Its effect is the physical page it reaches, or the trap it raises.      *)

\* Are addresses physical?  Fetch does not look at mstatus.mprv.
UsePhysAddr(satp, a) ==
  \/ satp.mode = "bare"
  \/ a.priv = "M" /\ (a.kind = "fetch" \/ ~ a.mprv \/ a.mpp = "M")

\* The checks on the flags of a leaf.  The check of the privilege mode is
\* commented out in Load and Store.
Permitted(a, flags) ==
  /\ "A" \in flags
  /\ CASE a.kind = "fetch" -> /\ "X" \in flags
                              /\ a.priv = "U" => "U" \in flags
                              /\ a.priv = "S" => "U" \notin flags
       [] a.kind = "load"  -> "R" \in flags \/ (a.mxr /\ "X" \in flags)
       [] a.kind = "store" -> "W" \in flags /\ "D" \in flags

\* The page of a physical address, given in the fields of a virtual one.
Physical(v) == [v.vpn EXCEPT ![2] = @ + v.blank * VpnCount]

\* The sum carries nothing from a level to the next: the walk returned only
\* leaves whose ppn is 0 below their size.
MapVirtualAddress(ppn, page_size, v) ==
  [i \in Levels |-> ppn[i] + IF i \in OffsetLevels(page_size) THEN v.vpn[i] ELSE 0]

Reach(page) == [trap |-> IF page \in Backed THEN None ELSE "access_fault",
                page |-> page]

PageFault == [trap |-> "page_fault", page |-> ZeroPte.ppn]

\* The effect of access a through leaf l.
Through(a, l) ==
  IF l.page_size = 0 THEN PageFault
  ELSE IF ~ Permitted(a, l.flags) THEN PageFault
  ELSE Reach(MapVirtualAddress(l.ppn, l.page_size, a.va))

\* Memory after access a with effect r: a store that reaches a page table
\* writes the value in it.
Written(mem, a, r) ==
  IF a.kind = "store" /\ r.trap = None /\ <<r.page, a.index>> \in Slots
  THEN [mem EXCEPT ![<<r.page, a.index>>] = a.value]
  ELSE mem

-----------------------------------------------------------------------------
(* satp, written by a CSR instruction: a mode other than bare and sv39     *)
(* leaves the mode as it is, and takes the two other fields.               *)

SatpAfter(satp, w) ==
  IF w.mode \in {"bare", "sv39"} THEN w ELSE [w EXCEPT !.mode = satp.mode]

ResetSatp == [mode |-> "bare", asid |-> 0, ppn |-> ZeroPte.ppn]
=============================================================================
