----------------------------- MODULE MmuProofs -----------------------------
(***************************************************************************)
(* For every page table, program, address space and size of the TLB: the   *)
(* TLB holds nothing older than the fence that covers it, and the MMU      *)
(* implements VirtualMemory.                                               *)
(***************************************************************************)
EXTENDS Mmu, TLAPS, WellFoundedInduction

\* Every set of numbers that is not empty has a least one.
LEMMA NatMin ==
  ASSUME NEW T, T \subseteq Nat, T # {}
  PROVE  \E x \in T : \A y \in T : x <= y
<1> DEFINE R == OpToRel(<, Nat)
<1>1. IsWellFoundedOn(R, Nat)
  BY NatLessThanWellFounded
<1>2. PICK x \in T : \A y \in T : ~ (<<y, x>> \in R)
  <2> HIDE DEF R
  <2> QED
    BY <1>1, WFMin
<1>3. ASSUME NEW y \in T PROVE x <= y
  <2>1. ~ (<<y, x>> \in R)
    BY <1>2
  <2>2. <<y, x>> \in Nat \X Nat
    OBVIOUS
  <2>3. ~ (y < x)
    BY <2>1, <2>2 DEF OpToRel
  <2> QED
    BY <2>3
<1> QED
  BY <1>3

-----------------------------------------------------------------------------
(* The walk                                                                *)

\* VirtualMemory and Mmu share the operators of Sv39.
LEMMA SameWalk ==
  \A tables, s, v : VM!PageTableWalk(tables, s, v) = PageTableWalk(tables, s, v)
<1>1. VM!ZeroPte = ZeroPte /\ VM!NoLeaf = NoLeaf
  BY DEF VM!ZeroPte, VM!NoLeaf, VM!Levels, ZeroPte, NoLeaf, Levels
<1>2. \A tables, t, v, i : VM!Found(tables, t, v, i) = Found(tables, t, v, i)
  BY <1>1 DEF VM!Found, Found
<1>3. \A pte : /\ VM!Invalid(pte) <=> Invalid(pte)
               /\ VM!IsPointer(pte) <=> IsPointer(pte)
  BY DEF VM!Invalid, Invalid, VM!IsPointer, IsPointer
<1>4. \A pte, i : VM!LeafAt(pte, i) = LeafAt(pte, i)
  BY <1>1, <1>3 DEF VM!LeafAt, LeafAt, VM!OffsetLevels, OffsetLevels, VM!Levels, Levels
<1> QED
  BY <1>1, <1>2, <1>3, <1>4 DEF VM!PageTableWalk, PageTableWalk

\* Pages with the same tag agree on the indices that the walk to a leaf of
\* that size uses.
LEMMA TagIndices ==
  ASSUME NEW v, NEW w, NEW page_size, GetTlbTag(v, page_size) = GetTlbTag(w, page_size)
  PROVE  /\ v.blank = w.blank
         /\ \A i \in Levels \ OffsetLevels(page_size) : v.vpn[i] = w.vpn[i]
<1>1. /\ GetTlbTag(v, page_size).blank = GetTlbTag(w, page_size).blank
      /\ GetTlbTag(v, page_size).vpn = GetTlbTag(w, page_size).vpn
  OBVIOUS
<1>2. \A u : /\ GetTlbTag(u, page_size).blank = u.blank
             /\ \A i \in Levels \ OffsetLevels(page_size) :
                  GetTlbTag(u, page_size).vpn[i] = u.vpn[i]
  BY DEF GetTlbTag
<1> QED
  BY <1>1, <1>2

\* LeafAt returns a leaf of the size of its level, with the fields of the
\* entry, or none.
LEMMA LeafAtSpec ==
  ASSUME NEW pte, NEW i \in Levels
  PROVE  LET l == LeafAt(pte, i)
         IN  \/ l = NoLeaf
             \/ l = [ppn |-> pte.ppn, flags |-> pte.flags, page_size |-> i + 1]
BY DEF LeafAt

\* The pages that a leaf's tag covers are translated by that leaf: what
\* justifies keeping one entry for all of them (PageTableWalk, GetTlbTag).
LEMMA WalkByTag ==
  ASSUME NEW tables, NEW s, NEW v, NEW w,
         NEW l, l = PageTableWalk(tables, s, v), l.page_size > 0,
         GetTlbTag(v, l.page_size) = GetTlbTag(w, l.page_size)
  PROVE  PageTableWalk(tables, s, w) = l
<1> DEFINE p2(u) == Found(tables, s.ppn, u, 2)
           p1(u) == Found(tables, p2(u).ppn, u, 1)
           p0(u) == Found(tables, p1(u).ppn, u, 0)
<1>0. \A u : PageTableWalk(tables, s, u) =
               IF s.mode # "sv39" THEN NoLeaf
               ELSE IF ~ IsPointer(p2(u)) THEN LeafAt(p2(u), 2)
               ELSE IF ~ IsPointer(p1(u)) THEN LeafAt(p1(u), 1)
               ELSE LeafAt(p0(u), 0)
  BY DEF PageTableWalk
<1>1. NoLeaf.page_size = 0
  BY DEF NoLeaf
<1>2. s.mode = "sv39"
  BY <1>0, <1>1
<1>3. \A i \in Levels \ OffsetLevels(l.page_size) : v.vpn[i] = w.vpn[i]
  BY TagIndices
<1>4. \A i \in Levels : \A pte : LeafAt(pte, i).page_size \in {0, i + 1}
  BY <1>1, LeafAtSpec
<1>5. \A t, i : v.vpn[i] = w.vpn[i] => Found(tables, t, v, i) = Found(tables, t, w, i)
  BY DEF Found
<1>6. Levels = {0, 1, 2}
  BY DEF Levels
<1> HIDE DEF p2, p1, p0
<1>7. CASE ~ IsPointer(p2(v))
  <2>1. l = LeafAt(p2(v), 2) /\ l.page_size = 3
    BY <1>0, <1>2, <1>4, <1>6, <1>7
  <2>2. v.vpn[2] = w.vpn[2]
    BY <1>3, <1>6, <2>1 DEF OffsetLevels
  <2>3. p2(w) = p2(v)
    BY <1>5, <2>2 DEF p2
  <2> QED
    BY <1>0, <1>2, <1>7, <2>1, <2>3
<1>8. CASE IsPointer(p2(v)) /\ ~ IsPointer(p1(v))
  <2>1. l = LeafAt(p1(v), 1) /\ l.page_size = 2
    BY <1>0, <1>2, <1>4, <1>6, <1>8
  <2>2. v.vpn[2] = w.vpn[2] /\ v.vpn[1] = w.vpn[1]
    BY <1>3, <1>6, <2>1 DEF OffsetLevels
  <2>3. p2(w) = p2(v) /\ p1(w) = p1(v)
    BY <1>5, <2>2 DEF p2, p1
  <2> QED
    BY <1>0, <1>2, <1>8, <2>1, <2>3
<1>9. CASE IsPointer(p2(v)) /\ IsPointer(p1(v))
  <2>1. l = LeafAt(p0(v), 0) /\ l.page_size = 1
    BY <1>0, <1>2, <1>4, <1>6, <1>9
  <2>2. v.vpn[2] = w.vpn[2] /\ v.vpn[1] = w.vpn[1] /\ v.vpn[0] = w.vpn[0]
    BY <1>3, <1>6, <2>1 DEF OffsetLevels
  <2>3. p2(w) = p2(v) /\ p1(w) = p1(v) /\ p0(w) = p0(v)
    <3>1. p2(w) = p2(v)
      BY <1>5, <2>2 DEF p2
    <3>2. p1(w) = p1(v)
      BY <1>5, <2>2, <3>1 DEF p1
    <3> QED
      BY <1>5, <2>2, <3>1, <3>2 DEF p0
  <2> QED
    BY <1>0, <1>2, <1>9, <2>1, <2>3
<1> QED
  BY <1>7, <1>8, <1>9
\* Every leaf comes from an entry of memory: its fields are those of an entry
\* and its ppn fits where memory's do.
Fits(tables) == \A x \in Slots : tables[x].ppn[2] < VpnCount

Leaves == [ppn : PPages, flags : SUBSET PteFlags, page_size : 0 .. 3]

LEMMA FoundType ==
  ASSUME NEW tables \in [Slots -> Ptes], Fits(tables), NEW t, NEW v, NEW i
  PROVE  Found(tables, t, v, i) \in Ptes /\ Found(tables, t, v, i).ppn[2] < VpnCount
<1>1. ZeroPte \in Ptes /\ ZeroPte.ppn[2] < VpnCount
  BY Sv39Assumption DEF Sv39Assumption, ZeroPte, Ptes, PPages, Levels
<1> QED
  BY <1>1 DEF Found, Fits

LEMMA WalkType ==
  ASSUME NEW tables \in [Slots -> Ptes], Fits(tables), NEW s, NEW v,
         NEW l, l = PageTableWalk(tables, s, v)
  PROVE  l \in Leaves /\ l.ppn[2] < VpnCount
<1>1. NoLeaf \in Leaves /\ NoLeaf.ppn[2] < VpnCount
  BY Sv39Assumption DEF Sv39Assumption, NoLeaf, Leaves, ZeroPte, PPages, Levels
<1>2. ASSUME NEW pte \in Ptes, pte.ppn[2] < VpnCount, NEW i \in Levels
      PROVE  LeafAt(pte, i) \in Leaves /\ LeafAt(pte, i).ppn[2] < VpnCount
  <2>1. i + 1 \in 0 .. 3
    BY DEF Levels
  <2> QED
    BY <1>1, <1>2, <2>1, LeafAtSpec DEF Leaves, Ptes
<1>3. PICK p2, p1, p0 :
        /\ p2 = Found(tables, s.ppn, v, 2)
        /\ p1 = Found(tables, p2.ppn, v, 1)
        /\ p0 = Found(tables, p1.ppn, v, 0)
  OBVIOUS
<1>4. l \in {NoLeaf, LeafAt(p2, 2), LeafAt(p1, 1), LeafAt(p0, 0)}
  BY <1>3 DEF PageTableWalk
<1>5. /\ p2 \in Ptes /\ p1 \in Ptes /\ p0 \in Ptes
      /\ p2.ppn[2] < VpnCount /\ p1.ppn[2] < VpnCount /\ p0.ppn[2] < VpnCount
  BY <1>3, FoundType
<1> QED
  BY <1>1, <1>2, <1>4, <1>5 DEF Levels

\* A fill keeps the leaf as it is: GetPpnByPageTableEntry drops nothing.
LEMMA FilledLeaf ==
  ASSUME NEW l \in Leaves, l.ppn[2] < VpnCount, NEW v,
         NEW e, e = Filled(l, v)
  PROVE  /\ LeafOf(e) = l /\ e.ppn = l.ppn /\ e.flags = l.flags
         /\ e.page_size = l.page_size /\ e.asid = satp.asid
         /\ e.tag = GetTlbTag(v, l.page_size)
<1>1. l.ppn \in [Levels -> Nat] /\ 2 \in Levels
  BY DEF Leaves, PPages, Levels
<1>2. l.ppn[2] % VpnCount = l.ppn[2]
  BY <1>1, Sv39Assumption DEF Sv39Assumption
<1>3. GetPpnByPageTableEntry(l.ppn) = l.ppn
  BY <1>1, <1>2 DEF GetPpnByPageTableEntry
<1>4. e = [ppn |-> l.ppn, tag |-> GetTlbTag(v, l.page_size),
           asid |-> satp.asid, flags |-> l.flags, page_size |-> l.page_size]
  BY <1>3 DEF Filled
<1> QED
  BY <1>4 DEF LeafOf, Leaves

-----------------------------------------------------------------------------
(* The leaves that may be used                                             *)

Spaces == Asids \cup {VM!Global}

\* Grow forgets nothing, and adds the leaf that the tables hold now.
LEMMA GrowSpec ==
  ASSUME NEW m, NEW tables, NEW s, NEW k \in Spaces, NEW v \in Pages,
         NEW l, l = PageTableWalk(tables, s, v)
  PROVE  /\ m[k][v] \subseteq VM!Grow(m, tables, s)[k][v]
         /\ l.page_size > 0 /\ k \in {s.asid, VM!Global}
              /\ (k = VM!Global => "G" \in l.flags)
            => l \in VM!Grow(m, tables, s)[k][v]
<1>1. VM!PageTableWalk(tables, s, v) = l
  BY SameWalk
<1>2. VM!Grow(m, tables, s)[k] =
        IF k \notin {s.asid, VM!Global} THEN m[k]
        ELSE [u \in Pages |->
                LET x == VM!PageTableWalk(tables, s, u)
                IN  IF x.page_size > 0 /\ (k = VM!Global => "G" \in x.flags)
                    THEN m[k][u] \cup {x} ELSE m[k][u]]
  BY DEF VM!Grow, Spaces
<1>3. CASE k \notin {s.asid, VM!Global}
  BY <1>2, <1>3
<1>4. CASE k \in {s.asid, VM!Global}
  <2>1. VM!Grow(m, tables, s)[k][v] =
          IF l.page_size > 0 /\ (k = VM!Global => "G" \in l.flags)
          THEN m[k][v] \cup {l} ELSE m[k][v]
    BY <1>1, <1>2, <1>4
  <2> QED
    BY <2>1
<1> QED
  BY <1>3, <1>4

\* The leaves of the current tables are among those that may be used.
Current ==
  \A v \in Pages :
    LET l == PageTableWalk(mem, satp, v)
    IN  l.page_size > 0 =>
          /\ l \in may[satp.asid][v]
          /\ "G" \in l.flags => l \in may[VM!Global][v]

LEMMA GrowIsCurrent ==
  ASSUME NEW m, NEW tables, NEW s, s.asid \in Asids, NEW n, n = VM!Grow(m, tables, s),
         NEW v \in Pages, NEW l, l = PageTableWalk(tables, s, v), l.page_size > 0
  PROVE  /\ l \in n[s.asid][v]
         /\ "G" \in l.flags => l \in n[VM!Global][v]
<1>1. s.asid \in Spaces /\ VM!Global \in Spaces /\ s.asid # VM!Global
  BY MmuAssumption DEF MmuAssumption, Spaces, VM!Global
<1> QED
  BY <1>1, GrowSpec
-----------------------------------------------------------------------------
(* The TLB is never older than the last fence                              *)

IInv == TypeOK /\ Fits(mem) /\ TlbSound /\ Current

\* LookUpTlb finds an entry that matches when there is one.
LEMMA LookUpSpec ==
  ASSUME NEW v, Hits(v) # {}
  PROVE  LookUpTlb(v) \in Hits(v)
<1>1. Hits(v) \subseteq Nat
  BY MmuAssumption DEF MmuAssumption, Hits, Entries
<1>2. \E i \in Hits(v) : \A j \in Hits(v) : i <= j
  BY <1>1, NatMin
<1> QED
  BY <1>2 DEF LookUpTlb

\* What GetTlbEntry returns: nothing where the walk finds nothing or the
\* address is illegal, an entry that matches, or the walk's leaf.
LEMMA GetTlbEntrySpec ==
  ASSUME NEW v, NEW got, got = GetTlbEntry(v),
         NEW l, l = PageTableWalk(mem, satp, v), l \in Leaves
  PROVE  \/ /\ got = [entry |-> NoLeaf, fill |-> FALSE]
            /\ ~ Canonical(v) \/ l.page_size = 0
         \/ /\ Canonical(v)
            /\ \E i \in Hits(v) : got = [entry |-> tlb[i], fill |-> FALSE]
         \/ /\ Canonical(v) /\ l.page_size > 0
            /\ got = [entry |-> Filled(l, v), fill |-> TRUE]
<1>1. l.page_size \in 0 .. 3
  BY DEF Leaves
<1>2. CASE ~ Canonical(v)
  BY <1>2 DEF GetTlbEntry
<1>3. CASE Canonical(v) /\ Hits(v) # {}
  BY <1>3, LookUpSpec DEF GetTlbEntry
<1>4. CASE Canonical(v) /\ Hits(v) = {}
  BY <1>1, <1>4 DEF GetTlbEntry
<1> QED
  BY <1>2, <1>3, <1>4

\* An access that is translated names a page of Pages or an illegal address.
LEMMA TranslatedPage ==
  ASSUME NEW a \in Accesses, ~ UsePhysAddr(satp, a), Canonical(a.va)
  PROVE  a.va \in Pages
BY MmuAssumption DEF MmuAssumption, UsePhysAddr

\* A store keeps the entries well formed and their ppn small.
LEMMA WrittenFits ==
  ASSUME NEW tables \in [Slots -> Ptes], Fits(tables), NEW a \in Accesses, NEW r
  PROVE  Written(tables, a, r) \in [Slots -> Ptes] /\ Fits(Written(tables, a, r))
<1>1. CASE a.kind = "store" /\ r.trap = None /\ <<r.page, a.index>> \in Slots
  <2>1. a.value \in Ptes /\ a.value.ppn[2] < VpnCount
    BY <1>1, PhysicalMemoryFits DEF PhysicalMemoryFits
  <2>2. Written(tables, a, r) = [tables EXCEPT ![<<r.page, a.index>>] = a.value]
    BY <1>1 DEF Written
  <2> QED
    BY <2>1, <2>2 DEF Fits
<1>2. CASE ~ (a.kind = "store" /\ r.trap = None /\ <<r.page, a.index>> \in Slots)
  <2>1. Written(tables, a, r) = tables
    BY <1>2 DEF Written
  <2> QED
    BY <2>1
<1> QED
  BY <1>1, <1>2

\* What one entry must satisfy, with the leaves m that may be used.
EntrySound(e, m) ==
  \A v \in Pages :
    e.page_size > 0 /\ e.tag = GetTlbTag(v, e.page_size) =>
      /\ LeafOf(e) \in m[e.asid][v]
      /\ "G" \in e.flags => LeafOf(e) \in m[VM!Global][v]

LEMMA SoundMonotone ==
  ASSUME NEW e, e.asid \in Asids, NEW m, NEW n, EntrySound(e, m),
         \A k \in Spaces, v \in Pages : m[k][v] \subseteq n[k][v]
  PROVE  EntrySound(e, n)
BY DEF EntrySound, Spaces

\* The entry that a miss fills is sound before the access: the walk's leaf
\* may be used for every page that the tag covers.
LEMMA FillSound ==
  ASSUME IInv, NEW v, NEW l, l = PageTableWalk(mem, satp, v), l.page_size > 0,
         NEW e, e = Filled(l, v)
  PROVE  EntrySound(e, may)
<1>1. l \in Leaves /\ l.ppn[2] < VpnCount
  BY WalkType DEF IInv, TypeOK
<1>2. /\ LeafOf(e) = l /\ e.flags = l.flags /\ e.page_size = l.page_size
      /\ e.asid = satp.asid /\ e.tag = GetTlbTag(v, l.page_size)
  BY <1>1, FilledLeaf
<1>3. ASSUME NEW w \in Pages, e.tag = GetTlbTag(w, e.page_size)
      PROVE  PageTableWalk(mem, satp, w) = l
  <2>1. GetTlbTag(v, l.page_size) = GetTlbTag(w, l.page_size)
    BY <1>2, <1>3
  <2> HIDE DEF LeafOf
  <2> QED
    BY <2>1, WalkByTag
<1> QED
  BY <1>2, <1>3 DEF EntrySound, IInv, Current
\* TlbSound, entry by entry.
LEMMA TlbSoundByEntry ==
  TlbSound <=> \A i \in Entries : EntrySound(tlb[i], may)
BY DEF TlbSound, EntrySound

LEMMA TlbSoundByEntryNext ==
  TlbSound' <=> \A i \in Entries : EntrySound(tlb'[i], may')
BY DEF TlbSound, EntrySound, LeafOf

LEMMA CurrentNext ==
  ASSUME NEW m, may' = VM!Grow(m, mem', satp'), satp'.asid \in Asids
  PROVE  Current'
BY GrowIsCurrent DEF Current

\* Entry types, and the entry of a reset.
EntryOK(e) ==
  /\ e.ppn \in PPages /\ e.asid \in Asids
  /\ e.flags \subseteq PteFlags /\ e.page_size \in 0 .. 3

LEMMA ZeroEntryOK == EntryOK(ZeroEntry) /\ ZeroEntry.page_size = 0
BY MmuAssumption DEF MmuAssumption, EntryOK, ZeroEntry, ZeroPte, PPages, Levels

\* The fetches, loads and stores.
LEMMA AccessKeeps ==
  ASSUME IInv, NEW a \in Accesses, Access(a)
  PROVE  IInv'
<1> DEFINE got == IF UsePhysAddr(satp, a) THEN [entry |-> NoLeaf, fill |-> FALSE]
                  ELSE GetTlbEntry(a.va)
           r   == IF UsePhysAddr(satp, a) THEN Reach(Physical(a.va))
                  ELSE Through(a, got.entry)
           l   == PageTableWalk(mem, satp, a.va)
<1>1. /\ mem' = Written(mem, a, r)
      /\ tlb' = IF got.fill THEN [tlb EXCEPT ![index] = got.entry] ELSE tlb
      /\ index' = IF got.fill THEN (index + 1) % kTlbSize ELSE index
      /\ may' = VM!Grow(may, mem', satp)
      /\ satp' = satp
  BY DEF Access, Advance
<1>2. l \in Leaves /\ l.ppn[2] < VpnCount
  BY WalkType DEF IInv, TypeOK
<1>3. got.fill => got.entry = Filled(l, a.va) /\ l.page_size > 0
  BY <1>2, GetTlbEntrySpec, SMTT(20)
<1> HIDE DEF got, r, l
<1>4. mem' \in [Slots -> Ptes] /\ Fits(mem')
  BY <1>1, WrittenFits DEF IInv, TypeOK
<1>5. got.fill => EntryOK(got.entry) /\ EntrySound(got.entry, may)
  <2>1. SUFFICES ASSUME got.fill PROVE EntryOK(got.entry) /\ EntrySound(got.entry, may)
    OBVIOUS
  <2>2. satp.asid \in Asids
    BY DEF IInv, TypeOK
  <2>3. EntryOK(got.entry)
    BY <1>2, <1>3, <2>1, <2>2, FilledLeaf DEF EntryOK, Leaves
  <2>4. EntrySound(got.entry, may)
    BY <1>3, <2>1, FillSound DEF l
  <2> QED
    BY <2>3, <2>4
<1>6. index \in Entries /\ index' \in Entries /\ DOMAIN tlb' = Entries
  <2>1. (index + 1) % kTlbSize \in 0 .. kTlbSize - 1
    BY MmuAssumption DEF MmuAssumption, IInv, TypeOK, Entries
  <2> QED
    BY <1>1, <2>1 DEF IInv, TypeOK, Entries
<1>7. \A i \in Entries : EntryOK(tlb'[i]) /\ EntrySound(tlb'[i], may)
  <2>1. \A i \in Entries : EntryOK(tlb[i]) /\ EntrySound(tlb[i], may)
    BY TlbSoundByEntry DEF IInv, TypeOK, EntryOK
  <2>2. \A i \in Entries : tlb'[i] = tlb[i] \/ (got.fill /\ tlb'[i] = got.entry)
    BY <1>1, <1>6 DEF IInv, TypeOK
  <2> QED
    BY <1>5, <2>1, <2>2
<1>8. TlbSound'
  <2>1. \A k \in Spaces, v \in Pages : may[k][v] \subseteq may'[k][v]
    BY <1>1, GrowSpec
  <2>2. \A i \in Entries : EntrySound(tlb'[i], may')
    BY <1>7, <2>1, SoundMonotone DEF EntryOK
  <2> QED
    BY <2>2, TlbSoundByEntryNext
<1>9. Current'
  BY <1>1, CurrentNext DEF IInv, TypeOK
<1>10. TypeOK'
  BY <1>1, <1>4, <1>6, <1>7 DEF IInv, TypeOK, EntryOK
<1> QED
  BY <1>4, <1>8, <1>9, <1>10 DEF IInv

\* Writes of satp: the TLB stays, and the leaves of the new space are added.
LEMMA WriteSatpKeeps ==
  ASSUME IInv, NEW w \in SatpWrites, WriteSatp(w)
  PROVE  IInv'
<1>1. satp' \in [mode : {"bare", "sv39"}, asid : Asids, ppn : PPages]
  <2>1. w \in [mode : {"bare", "sv39", "other"}, asid : Asids, ppn : PPages]
    BY MmuAssumption DEF MmuAssumption
  <2> QED
    BY <2>1 DEF WriteSatp, SatpAfter, IInv, TypeOK
<1>2. /\ mem' = mem /\ tlb' = tlb /\ index' = index
      /\ may' = VM!Grow(may, mem', satp')
  BY DEF WriteSatp
<1>3. TlbSound'
  <2>1. \A k \in Spaces, v \in Pages : may[k][v] \subseteq may'[k][v]
    BY <1>2, GrowSpec
  <2>2. \A i \in Entries : tlb[i].asid \in Asids /\ EntrySound(tlb[i], may)
    BY TlbSoundByEntry DEF IInv, TypeOK
  <2>3. \A i \in Entries : EntrySound(tlb'[i], may')
    BY <1>2, <2>1, <2>2, SoundMonotone
  <2> QED
    BY <2>3, TlbSoundByEntryNext
<1>4. Current'
  BY <1>1, <1>2, CurrentNext
<1>5. TypeOK'
  BY <1>1, <1>2 DEF IInv, TypeOK
<1> QED
  BY <1>2, <1>3, <1>4, <1>5 DEF IInv
\* An entry that FlushTlb leaves valid is one that the fence does not cover.
LEMMA UnflushedSound ==
  ASSUME NEW e, e.asid \in Asids, EntrySound(e, may), NEW covers, covers \subseteq Pages,
         NEW asid \in Asids, ~ Flushes(e, covers, asid)
  PROVE  EntrySound(e, VM!Fenced(may, covers, asid))
<1>1. SUFFICES ASSUME NEW v \in Pages, e.page_size > 0,
                      e.tag = GetTlbTag(v, e.page_size)
               PROVE  /\ LeafOf(e) \in VM!Fenced(may, covers, asid)[e.asid][v]
                      /\ "G" \in e.flags =>
                           LeafOf(e) \in VM!Fenced(may, covers, asid)[VM!Global][v]
  BY DEF EntrySound
<1>2. ~ (v \in covers /\ (asid = 0 \/ e.asid = asid))
  BY <1>1 DEF Flushes
<1>3. asid # VM!Global
  BY MmuAssumption DEF MmuAssumption, VM!Global
<1>4. \A k \in Spaces :
        VM!Fenced(may, covers, asid)[k][v] =
          IF v \in covers /\ (asid = 0 \/ k = asid) THEN {} ELSE may[k][v]
  BY DEF VM!Fenced, Spaces
<1>5. VM!Fenced(may, covers, asid)[e.asid][v] = may[e.asid][v]
  BY <1>2, <1>4 DEF Spaces
<1>6. VM!Fenced(may, covers, asid)[VM!Global][v] = may[VM!Global][v]
  BY <1>2, <1>3, <1>4 DEF Spaces
<1> QED
  BY <1>1, <1>5, <1>6 DEF EntrySound

LEMMA SfenceKeeps ==
  ASSUME IInv, NEW covers, covers \subseteq Pages, NEW asid \in Asids,
         SfenceVma(covers, asid)
  PROVE  IInv'
<1> DEFINE m == VM!Fenced(may, covers, asid)
<1>1. /\ tlb' = [i \in Entries |-> IF Flushes(tlb[i], covers, asid)
                                  THEN [tlb[i] EXCEPT !.page_size = 0] ELSE tlb[i]]
      /\ mem' = mem /\ satp' = satp /\ index' = index
      /\ may' = VM!Grow(m, mem', satp')
  BY DEF SfenceVma
<1> HIDE DEF m
<1>2. ASSUME NEW i \in Entries
      PROVE  EntryOK(tlb'[i]) /\ EntrySound(tlb'[i], may')
  <2>1. EntryOK(tlb[i]) /\ EntrySound(tlb[i], may)
    BY TlbSoundByEntry DEF IInv, TypeOK, EntryOK
  <2>2. CASE Flushes(tlb[i], covers, asid)
    <3>1. tlb'[i] = [tlb[i] EXCEPT !.page_size = 0]
      BY <1>1, <2>2
    <3>2. /\ tlb'[i].page_size \in {0, tlb[i].page_size}
          /\ tlb'[i].ppn = tlb[i].ppn /\ tlb'[i].asid = tlb[i].asid
          /\ tlb'[i].flags = tlb[i].flags
      BY <3>1
    <3> QED
      BY <2>1, <3>1, <3>2 DEF EntryOK, EntrySound
  <2>3. CASE ~ Flushes(tlb[i], covers, asid)
    <3>1. EntrySound(tlb[i], m)
      BY <2>1, <2>3, UnflushedSound DEF m, EntryOK
    <3>2. \A k \in Spaces, v \in Pages : m[k][v] \subseteq may'[k][v]
      BY <1>1, GrowSpec
    <3>3. tlb'[i] = tlb[i]
      BY <1>1, <2>3
    <3> QED
      BY <2>1, <3>1, <3>2, <3>3, SoundMonotone DEF EntryOK
  <2> QED
    BY <2>2, <2>3
<1>3. TlbSound'
  BY <1>2, TlbSoundByEntryNext
<1>4. Current'
  BY <1>1, CurrentNext DEF IInv, TypeOK
<1>5. TypeOK'
  BY <1>1, <1>2 DEF IInv, TypeOK, EntryOK
<1> QED
  BY <1>1, <1>3, <1>4, <1>5 DEF IInv
\* The state that Init and Reset make.
LEMMA FreshState ==
  ASSUME mem = [s \in Slots |-> ZeroPte], satp = ResetSatp,
         tlb = [i \in Entries |-> ZeroEntry], index = 0
  PROVE  IInv
<1>1. ZeroPte \in Ptes /\ ZeroPte.ppn[2] < VpnCount /\ ZeroPte.ppn \in PPages
  BY Sv39Assumption DEF Sv39Assumption, ZeroPte, Ptes, PPages, Levels
<1>2. mem \in [Slots -> Ptes] /\ Fits(mem)
  BY <1>1 DEF Fits
<1>3. TypeOK
  BY <1>1, <1>2, ZeroEntryOK, MmuAssumption
     DEF MmuAssumption, TypeOK, EntryOK, ResetSatp, Entries
<1>4. TlbSound
  BY ZeroEntryOK DEF TlbSound
<1>5. Current
  <2>1. \A v : PageTableWalk(mem, satp, v) = NoLeaf
    BY DEF PageTableWalk, ResetSatp
  <2> QED
    BY <2>1 DEF Current, NoLeaf
<1> QED
  BY <1>2, <1>3, <1>4, <1>5 DEF IInv

LEMMA InitIInv == Init => IInv
BY FreshState DEF Init

LEMMA ResetKeeps ==
  ASSUME Reset
  PROVE  IInv'
<1>1. ZeroPte \in Ptes /\ ZeroPte.ppn[2] < VpnCount /\ ZeroPte.ppn \in PPages
  BY Sv39Assumption DEF Sv39Assumption, ZeroPte, Ptes, PPages, Levels
<1>2. mem' \in [Slots -> Ptes] /\ Fits(mem')
  BY <1>1 DEF Reset, Fits
<1>3. TypeOK'
  BY <1>1, <1>2, ZeroEntryOK, MmuAssumption
     DEF Reset, MmuAssumption, TypeOK, EntryOK, ResetSatp, Entries
<1>4. TlbSound'
  BY ZeroEntryOK DEF Reset, TlbSound
<1>5. Current'
  <2>1. \A v : PageTableWalk(mem', satp', v) = NoLeaf
    BY DEF Reset, PageTableWalk, ResetSatp
  <2> QED
    BY <2>1 DEF Current, NoLeaf
<1> QED
  BY <1>2, <1>3, <1>4, <1>5 DEF IInv

\* The program that runs is one of Programs.
ProgramOK == program \in Programs

LEMMA NextKeeps == IInv /\ ProgramOK /\ [Next]_vars => IInv' /\ ProgramOK'
<1>1. SUFFICES ASSUME IInv, ProgramOK, [Next]_vars PROVE IInv' /\ ProgramOK'
  OBVIOUS
<1>2. ASSUME NEW a \in program.accesses, Access(a) PROVE IInv' /\ ProgramOK'
  <2>1. a \in Accesses
    BY <1>1, <1>2, MmuAssumption DEF MmuAssumption, ProgramOK
  <2> QED
    BY <1>1, <1>2, <2>1, AccessKeeps DEF Access, ProgramOK
<1>3. ASSUME NEW w \in program.satps, WriteSatp(w) PROVE IInv' /\ ProgramOK'
  <2>1. w \in SatpWrites
    BY <1>1, <1>3, MmuAssumption DEF MmuAssumption, ProgramOK
  <2> QED
    BY <1>1, <1>3, <2>1, WriteSatpKeeps DEF WriteSatp, ProgramOK
<1>4. ASSUME NEW covers \in {Pages} \cup {{v} : v \in Pages}, NEW asid \in Asids,
             SfenceVma(covers, asid)
      PROVE  IInv' /\ ProgramOK'
  BY <1>1, <1>4, SfenceKeeps DEF SfenceVma, ProgramOK
<1>5. ASSUME Reset PROVE IInv' /\ ProgramOK'
  BY <1>1, <1>5, ResetKeeps DEF Reset, ProgramOK
<1>6. ASSUME UNCHANGED vars PROVE IInv' /\ ProgramOK'
  BY <1>1, <1>6 DEF vars, IInv, ProgramOK, TypeOK, TlbSound, Current, Fits
<1> QED
  BY <1>1, <1>2, <1>3, <1>4, <1>5, <1>6 DEF Next

LEMMA Invariance == Spec => [](IInv /\ ProgramOK)
<1>1. Init => IInv /\ ProgramOK
  BY InitIInv DEF Init, ProgramOK
<1> QED
  BY <1>1, NextKeeps, PTL DEF Spec

\* Types of the MMU's state: the round-robin index stays in the TLB, and what
\* the fills copy from memory fits the fields of an entry.
THEOREM MmuTypes == Spec => []TypeOK
<1>1. IInv => TypeOK
  BY DEF IInv
<1> QED
  BY <1>1, Invariance, PTL

\* FlushTlb leaves no valid entry older than a fence that covers it, for every
\* size of the TLB, whatever the program stores in its page tables and satp.
THEOREM TlbAlwaysSound == Spec => []TlbSound
<1>1. IInv => TlbSound
  BY DEF IInv
<1> QED
  BY <1>1, Invariance, PTL
-----------------------------------------------------------------------------
(* Mmu implements VirtualMemory                                            *)

LEMMA SameChecks ==
  /\ \A s, a : VM!UsePhysAddr(s, a) <=> UsePhysAddr(s, a)
  /\ \A v : VM!Canonical(v) <=> Canonical(v)
  /\ \A v : VM!Physical(v) = Physical(v)
  /\ \A p : VM!Reach(p) = Reach(p)
  /\ VM!PageFault = PageFault /\ VM!ZeroPte = ZeroPte /\ VM!ResetSatp = ResetSatp
  /\ \A s, w : VM!SatpAfter(s, w) = SatpAfter(s, w)
<1>1. VM!ZeroPte = ZeroPte
  BY DEF VM!ZeroPte, ZeroPte, VM!Levels, Levels
<1>2. VM!PageFault = PageFault /\ VM!ResetSatp = ResetSatp
  BY <1>1 DEF VM!PageFault, PageFault, VM!ResetSatp, ResetSatp
<1>3. \A s, a : VM!UsePhysAddr(s, a) <=> UsePhysAddr(s, a)
  BY DEF VM!UsePhysAddr, UsePhysAddr
<1>4. /\ \A v : VM!Canonical(v) <=> Canonical(v)
      /\ \A v : VM!Physical(v) = Physical(v)
  BY DEF VM!Canonical, Canonical, VM!Physical, Physical
<1>5. \A p : VM!Reach(p) = Reach(p)
  BY DEF VM!Reach, Reach, VM!None, None
<1>6. \A s, w : VM!SatpAfter(s, w) = SatpAfter(s, w)
  BY DEF VM!SatpAfter, SatpAfter
<1> QED
  BY <1>1, <1>2, <1>3, <1>4, <1>5, <1>6

LEMMA SameWritten ==
  \A tables, a, r : VM!Written(tables, a, r) = Written(tables, a, r)
BY DEF VM!Written, Written, VM!None, None

\* An entry and the leaf it remembers have the same effect.
LEMMA SameThrough ==
  \A a, l, e : /\ l.ppn = e.ppn /\ l.flags = e.flags /\ l.page_size = e.page_size
               => VM!Through(a, l) = Through(a, e)
<1>1. \A a, flags : VM!Permitted(a, flags) <=> Permitted(a, flags)
  BY DEF VM!Permitted, Permitted
<1>2. \A ppn, page_size, v :
        VM!MapVirtualAddress(ppn, page_size, v) = MapVirtualAddress(ppn, page_size, v)
  BY DEF VM!MapVirtualAddress, MapVirtualAddress, VM!OffsetLevels, OffsetLevels,
         VM!Levels, Levels
<1> QED
  BY <1>1, <1>2, SameChecks DEF VM!Through, Through

\* Every effect of the code is one that the promise allows: of an entry that
\* hits because TlbSound holds, of a miss because the walk is current.
LEMMA AccessEffect ==
  ASSUME IInv, NEW a \in Accesses, ~ UsePhysAddr(satp, a), NEW got, got = GetTlbEntry(a.va)
  PROVE  Through(a, got.entry) \in VM!Effects(a)
<1>1. PICK l : l = PageTableWalk(mem, satp, a.va)
  OBVIOUS
<1>2. l \in Leaves /\ l.ppn[2] < VpnCount
  BY <1>1, WalkType DEF IInv, TypeOK
<1>3. VM!Effects(a) =
        IF ~ Canonical(a.va) THEN {PageFault}
        ELSE {VM!Through(a, x) : x \in may[satp.asid][a.va] \cup may[VM!Global][a.va]
                                        \cup {l}}
  BY <1>1, SameChecks, SameWalk DEF VM!Effects
<1>4. CASE got.entry = NoLeaf /\ (~ Canonical(a.va) \/ l.page_size = 0)
  <2>1. Through(a, got.entry) = PageFault
    BY <1>4 DEF Through, NoLeaf
  <2>2. CASE ~ Canonical(a.va)
    BY <1>3, <2>1, <2>2
  <2>3. CASE Canonical(a.va) /\ l.page_size = 0
    <3>1. VM!Through(a, l) = PageFault
      BY <2>3, SameChecks DEF VM!Through
    <3> QED
      BY <1>3, <2>1, <2>3, <3>1
  <2> QED
    BY <1>4, <2>2, <2>3
<1>5. CASE Canonical(a.va) /\ \E i \in Hits(a.va) : got.entry = tlb[i]
  <2>1. PICK i \in Hits(a.va) : got.entry = tlb[i]
    BY <1>5
  <2>2. a.va \in Pages
    BY <1>5, TranslatedPage
  <2>3. /\ i \in Entries /\ tlb[i].page_size > 0
        /\ tlb[i].asid = satp.asid \/ "G" \in tlb[i].flags
        /\ tlb[i].tag = GetTlbTag(a.va, tlb[i].page_size)
    BY <2>1 DEF Hits, Matches
  <2>4. LeafOf(tlb[i]) \in may[satp.asid][a.va] \cup may[VM!Global][a.va]
    BY <2>2, <2>3 DEF IInv, TlbSound
  <2>5. VM!Through(a, LeafOf(tlb[i])) = Through(a, tlb[i])
    BY SameThrough DEF LeafOf
  <2> QED
    BY <1>3, <1>5, <2>1, <2>4, <2>5
<1>6. CASE Canonical(a.va) /\ got.entry = Filled(l, a.va)
  <2>1. VM!Through(a, l) = Through(a, got.entry)
    BY <1>2, <1>6, FilledLeaf, SameThrough, SMTT(20)
  <2> QED
    BY <1>3, <1>6, <2>1
<1> QED
  BY <1>1, <1>2, <1>4, <1>5, <1>6, GetTlbEntrySpec
LEMMA AccessImplements ==
  ASSUME IInv, NEW a \in Accesses, Access(a)
  PROVE  VM!Access(a)
<1>1. PICK r : r = IF UsePhysAddr(satp, a) THEN Reach(Physical(a.va))
                   ELSE Through(a, GetTlbEntry(a.va).entry)
  OBVIOUS
<1>2. /\ outcome' = [access |-> a, effect |-> r] /\ mem' = Written(mem, a, r)
      /\ satp' = satp /\ may' = VM!Grow(may, mem', satp)
  BY <1>1 DEF Access
<1>3. r \in VM!Effects(a)
  <2>1. CASE UsePhysAddr(satp, a)
    BY <1>1, <2>1, SameChecks DEF VM!Effects
  <2>2. CASE ~ UsePhysAddr(satp, a)
    BY <1>1, <2>2, AccessEffect
  <2> QED
    BY <2>1, <2>2
<1> QED
  BY <1>2, <1>3, SameWritten DEF VM!Access

LEMMA InitImplements == Init => VM!Init
BY SameChecks DEF Init, VM!Init

LEMMA NextImplements == IInv /\ ProgramOK /\ [Next]_vars => [VM!Next]_(VM!vars)
<1>1. SUFFICES ASSUME IInv, ProgramOK, [Next]_vars PROVE [VM!Next]_(VM!vars)
  OBVIOUS
<1>2. ASSUME NEW a \in program.accesses, Access(a) PROVE VM!Next
  <2>1. a \in Accesses
    BY <1>1, <1>2, MmuAssumption DEF MmuAssumption, ProgramOK
  <2> QED
    BY <1>1, <1>2, <2>1, AccessImplements DEF VM!Next
<1>3. ASSUME NEW w \in program.satps, WriteSatp(w) PROVE VM!Next
  <2>1. w \in SatpWrites
    BY <1>1, <1>3, MmuAssumption DEF MmuAssumption, ProgramOK
  <2>2. VM!WriteSatp(w)
    BY <1>3, SameChecks DEF WriteSatp, VM!WriteSatp
  <2> QED
    BY <2>1, <2>2 DEF VM!Next
<1>4. ASSUME NEW covers \in {Pages} \cup {{v} : v \in Pages}, NEW asid \in Asids,
             SfenceVma(covers, asid)
      PROVE  VM!Next
  <2>1. VM!SfenceVma(covers, asid)
    BY <1>4 DEF SfenceVma, VM!SfenceVma
  <2> QED
    BY <2>1 DEF VM!Next
<1>5. ASSUME Reset PROVE VM!Next
  <2>1. VM!Reset
    BY <1>5, SameChecks DEF Reset, VM!Reset
  <2> QED
    BY <2>1 DEF VM!Next
<1>6. ASSUME UNCHANGED vars PROVE UNCHANGED VM!vars
  BY <1>6 DEF vars, VM!vars
<1> QED
  BY <1>1, <1>2, <1>3, <1>4, <1>5, <1>6 DEF Next

\* The MMU with its TLB implements the memory without one: no fetch, load or
\* store has an effect that page tables not older than the last fence would
\* not give it.
THEOREM MmuImplements == Spec => ImplementsVirtualMemory
<1>1. Spec => VM!Init
  BY InitImplements DEF Spec
<1>2. Spec => [][VM!Next]_(VM!vars)
  BY Invariance, NextImplements, PTL DEF Spec
<1> QED
  BY <1>1, <1>2 DEF ImplementsVirtualMemory, VM!Spec
=============================================================================
