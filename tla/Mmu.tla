-------------------------------- MODULE Mmu --------------------------------
(***************************************************************************)
(* The MMU with its TLB (Sv39 and Mmu in src/cpu/mmu.cc): lookup, fill on  *)
(* a miss with round-robin replacement, and SFENCE.VMA.  It is shown to    *)
(* implement VirtualMemory.                                                *)
(***************************************************************************)
EXTENDS Sv39

CONSTANTS
  kTlbSize,     \* 2 in the code
  Asids, Pages, Accesses, SatpWrites,
  Programs      \* what the guest may do: [accesses, satps]

ASSUME MmuAssumption ==
  /\ kTlbSize \in Nat \ {0}
  /\ 0 \in Asids /\ Asids \subseteq Nat
  /\ Pages \subseteq VPages
  /\ \A p \in Programs : p.accesses \subseteq Accesses /\ p.satps \subseteq SatpWrites
  /\ \A a \in Accesses : \/ a.va \in Pages
                         \/ ~ Canonical(a.va)
                         \/ a.priv = "M" /\ ~ a.mprv
  /\ SatpWrites \subseteq [mode : {"bare", "sv39", "other"}, asid : Asids, ppn : PPages]

\* Page tables point into physical memory below VpnCount gigapages, where
\* GetPpnByPageTableEntry drops no bit of ppn_2.
ASSUME PhysicalMemoryFits ==
  \A a \in Accesses :
    a.kind = "store" => a.value \in Ptes /\ a.value.ppn[2] < VpnCount

VARIABLES
  program,      \* the one of Programs that runs
  mem,          \* the page table entries
  satp,
  tlb,          \* tlb_
  index,        \* index_, the entry the next fill replaces
  may,          \* history: see VirtualMemory
  outcome       \* history: the last access and its effect

vars == <<program, mem, satp, tlb, index, may, outcome>>

VM == INSTANCE VirtualMemory
        WITH mem <- mem, satp <- satp, may <- may, outcome <- outcome

Entries == 0 .. kTlbSize - 1

\* memset(tlb_, 0, sizeof(tlb_)).
ZeroEntry == [ppn |-> ZeroPte.ppn, asid |-> 0, flags |-> {}, page_size |-> 0,
              tag |-> [blank |-> 0, vpn |-> ZeroPte.ppn]]

Init ==
  /\ program \in Programs
  /\ mem = [s \in Slots |-> ZeroPte]
  /\ satp = ResetSatp
  /\ tlb = [i \in Entries |-> ZeroEntry]
  /\ index = 0
  /\ may = VM!NoMay
  /\ outcome = VM!Quiet

\* Mutant: an entry of any address space matches.
Matches_AnyAsid(e, v) ==
  /\ e.page_size > 0
  /\ GetTlbTag(v, e.page_size) = e.tag

\* Does entry e translate v in the current address space?
Matches(e, v) ==
  /\ e.asid = satp.asid \/ "G" \in e.flags
  /\ e.page_size > 0
  /\ GetTlbTag(v, e.page_size) = e.tag

Hits(v) == {i \in Entries : Matches(tlb[i], v)}

\* LookUpTlb, when it finds an entry: the first one.
LookUpTlb(v) == CHOOSE i \in Hits(v) : \A j \in Hits(v) : i <= j

\* GetPpnByPageTableEntry: ppn_2, of 26 bits, becomes a field of 9 bits.
GetPpnByPageTableEntry(ppn) == [ppn EXCEPT ![2] = @ % VpnCount]

\* The entry that GetTlbEntry fills with leaf l of v.
Filled(l, v) ==
  [ppn |-> GetPpnByPageTableEntry(l.ppn), tag |-> GetTlbTag(v, l.page_size),
   asid |-> satp.asid, flags |-> l.flags, page_size |-> l.page_size]

\* What a translated access uses, and what it leaves in the TLB: nothing for
\* an address that is not legal, an entry that hits, or the walk's result.
GetTlbEntry(v) ==
  LET l == PageTableWalk(mem, satp, v)
  IN  IF ~ Canonical(v) THEN [entry |-> NoLeaf, fill |-> FALSE]
      ELSE IF Hits(v) # {} THEN [entry |-> tlb[LookUpTlb(v)], fill |-> FALSE]
      ELSE IF l.page_size = 0 THEN [entry |-> NoLeaf, fill |-> FALSE]
      ELSE [entry |-> Filled(l, v), fill |-> TRUE]

\* Mutant: the index runs past the end of the TLB.
Advance_NoWrap == index + 1

\* Round robin.
Advance == (index + 1) % kTlbSize

\* Mmu::Fetch, Load and Store.
Access(a) ==
  LET got == IF UsePhysAddr(satp, a) THEN [entry |-> NoLeaf, fill |-> FALSE]
             ELSE GetTlbEntry(a.va)
      r   == IF UsePhysAddr(satp, a) THEN Reach(Physical(a.va))
             ELSE Through(a, got.entry)
  IN  /\ mem' = Written(mem, a, r)
      /\ tlb' = IF got.fill THEN [tlb EXCEPT ![index] = got.entry] ELSE tlb
      /\ index' = IF got.fill THEN Advance ELSE index
      /\ may' = VM!Grow(may, mem', satp)
      /\ outcome' = [access |-> a, effect |-> r]
      /\ UNCHANGED <<program, satp>>

\* A CSR write to satp leaves the TLB alone.
WriteSatp(w) ==
  /\ satp' = SatpAfter(satp, w)
  /\ may' = VM!Grow(may, mem, satp')
  /\ outcome' = VM!Quiet
  /\ UNCHANGED <<program, mem, tlb, index>>

\* Mutant: only entries filled for this very page are found.
Flushes_PageTag(e, covers, asid) ==
  /\ asid = 0 \/ e.asid = asid
  /\ \/ covers = Pages
     \/ e.page_size > 0 /\ \E v \in covers : e.tag = GetTlbTag(v, 1)

\* Does FlushTlb clear entry e?  covers is one page, or all of them when the
\* address is 0.
Flushes(e, covers, asid) ==
  /\ asid = 0 \/ e.asid = asid
  /\ \/ covers = Pages
     \/ /\ e.page_size > 0
        /\ \E v \in covers : e.tag = GetTlbTag(v, e.page_size)

\* SfenceVmaExec and FlushTlb.
SfenceVma(covers, asid) ==
  /\ tlb' = [i \in Entries |-> IF Flushes(tlb[i], covers, asid)
                               THEN [tlb[i] EXCEPT !.page_size = 0] ELSE tlb[i]]
  /\ may' = VM!Grow(VM!Fenced(may, covers, asid), mem, satp)
  /\ outcome' = VM!Quiet
  /\ UNCHANGED <<program, mem, satp, index>>

\* CPU::Reset, as far as the MMU, satp and memory go.
Reset ==
  /\ mem' = [s \in Slots |-> ZeroPte]
  /\ satp' = ResetSatp
  /\ tlb' = [i \in Entries |-> ZeroEntry]
  /\ index' = 0
  /\ may' = VM!NoMay
  /\ outcome' = VM!Quiet
  /\ UNCHANGED program

Next ==
  \/ \E a \in program.accesses : Access(a)
  \/ \E w \in program.satps : WriteSatp(w)
  \/ \E covers \in {Pages} \cup {{v} : v \in Pages}, asid \in Asids :
       SfenceVma(covers, asid)
  \/ Reset

Spec == Init /\ [][Next]_vars

-----------------------------------------------------------------------------
\* Types of the MMU's state.
TypeOK ==
  /\ mem \in [Slots -> Ptes]
  /\ satp \in [mode : {"bare", "sv39"}, asid : Asids, ppn : PPages]
  /\ index \in Entries
  /\ DOMAIN tlb = Entries
  /\ \A i \in Entries : /\ tlb[i].ppn \in PPages
                         /\ tlb[i].asid \in Asids
                         /\ tlb[i].flags \subseteq PteFlags
                         /\ tlb[i].page_size \in 0 .. 3

\* The leaf that entry e remembers.
LeafOf(e) == [ppn |-> e.ppn, flags |-> e.flags, page_size |-> e.page_size]

\* Whatever the program wrote to its page tables and to satp, and in whatever
\* order, an entry that FlushTlb left valid is a leaf that a walk of its own
\* address space found since the last SFENCE.VMA covering any page the entry
\* translates; a global one, since the last covering all address spaces.
TlbSound ==
  \A i \in Entries, v \in Pages :
    tlb[i].page_size > 0 /\ tlb[i].tag = GetTlbTag(v, tlb[i].page_size) =>
      /\ LeafOf(tlb[i]) \in may[tlb[i].asid][v]
      /\ "G" \in tlb[i].flags => LeafOf(tlb[i]) \in may[VM!Global][v]

\* The MMU with its TLB implements VirtualMemory: fetches, loads and stores
\* have no effect but those of page tables not older than the last fence.
ImplementsVirtualMemory == VM!Spec
=============================================================================
