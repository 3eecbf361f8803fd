----------------------------- MODULE BusProofs -----------------------------
(***************************************************************************)
(* The bus with its devices implements ByteMemory, for every layout in     *)
(* which the devices do not overlap, every size of the memory, any number  *)
(* of harts and any accesses.                                              *)
(***************************************************************************)
EXTENDS Bus, DeviceProofs

-----------------------------------------------------------------------------
(* Where an access goes                                                    *)

\* What the proofs use of BusAssumption.
LEMMA LayoutFacts ==
  /\ Len(Order) \in Nat /\ DOMAIN Order = 1 .. Len(Order)
  /\ \A i \in 1 .. Len(Order) : /\ Order[i] \in {"clint", "plic", "uart", "dram"}
                                /\ Layout[Order[i]].base \in Nat /\ Layout[Order[i]].size \in Nat
BY BusAssumption DEF BusAssumption

\* No two devices hold the same byte.
LEMMA Apart ==
  ASSUME NEW addr \in Nat, NEW i \in 1 .. Len(Order), NEW j \in 1 .. Len(Order),
         InNode(Order[i], addr), InNode(Order[j], addr)
  PROVE  i = j
<1>1. SUFFICES ASSUME i # j PROVE FALSE
  OBVIOUS
<1>2. PICK bi \in Nat, si \in Nat, bj \in Nat, sj \in Nat :
        /\ bi = Layout[Order[i]].base /\ si = Layout[Order[i]].size
        /\ bj = Layout[Order[j]].base /\ sj = Layout[Order[j]].size
  BY LayoutFacts, Zenon
<1>3. bi + si <= bj \/ bj + sj <= bi
  <2>1. \A m, n \in DOMAIN Order :
          m # n => \/ Layout[Order[m]].base + Layout[Order[m]].size <= Layout[Order[n]].base
                   \/ Layout[Order[n]].base + Layout[Order[n]].size <= Layout[Order[m]].base
    BY BusAssumption DEF BusAssumption
  <2> QED
    BY <1>1, <1>2, <2>1, LayoutFacts, Zenon
<1>4. bi <= addr /\ addr < bi + si /\ bj <= addr /\ addr < bj + sj
  BY <1>2 DEF InNode
<1> QED
  BY <1>3, <1>4

\* GetDeviceByRange finds the mounted device that holds the address.
LEMMA Found ==
  ASSUME NEW addr \in Nat, dev_cnt_ \in 0 .. Len(Order),
         NEW i, i = GetDeviceByRange(addr)
  PROVE  IF i = -1 THEN \A j \in 1 .. dev_cnt_ : ~ InNode(Order[j], addr)
         ELSE i \in 1 .. dev_cnt_ /\ i \in 1 .. Len(Order) /\ InNode(Order[i], addr)
<1>1. PICK found : found = {j \in 1 .. dev_cnt_ : InNode(Order[j], addr)}
  BY Zenon
<1>2. i = IF found = {} THEN -1 ELSE CHOOSE k \in found : \A j \in found : k <= j
  BY <1>1 DEF GetDeviceByRange
<1>3. CASE found = {}
  BY <1>1, <1>2, <1>3
<1>4. CASE found # {}
  <2>1. PICK k \in found : TRUE
    BY <1>4
  <2>2. k \in 1 .. dev_cnt_ /\ k \in 1 .. Len(Order) /\ InNode(Order[k], addr)
    BY <1>1, LayoutFacts
  <2>3. \A j \in found : j = k
    BY <1>1, <2>2, Apart, LayoutFacts
  <2>4. \E m \in found : \A j \in found : m <= j
    BY <2>2, <2>3
  <2>5. i \in found
    BY <1>2, <1>4, <2>4
  <2> QED
    BY <2>2, <2>3, <2>5
<1> QED
  BY <1>3, <1>4

\* The regions of the two devices lie in them.
LEMMA RegionInNode ==
  ASSUME NEW acc \in Accesses, NEW j \in 1 .. Len(Order), NEW r \in RegionsOf(Order[j]),
         Memory!Holds(r, acc)
  PROVE  InNode(Order[j], acc.addr)
<1>1. PICK a \in Nat, n \in {1, 2, 4, 8} : a = acc.addr /\ n = acc.bytes
  BY BusAssumption DEF BusAssumption
<1>2. PICK b \in Nat, s \in Nat : b = Layout[Order[j]].base /\ s = Layout[Order[j]].size
  BY LayoutFacts
<1>3. Regions[r].base <= acc.addr /\ acc.addr + acc.bytes <= Regions[r].base + Regions[r].size
  BY DEF Memory!Holds
<1>4. CASE Order[j] = "dram"
  <2>1. r = "dram"
    BY <1>4 DEF RegionsOf
  <2>2. Regions[r] = [base |-> b, size |-> DramSize]
    BY <1>2, <1>4, <2>1 DEF Regions
  <2>3. DramSize \in Nat /\ DramSize <= s
    BY <1>2, <1>4, LayoutFacts, BusAssumption DEF BusAssumption
  <2>4. b <= a /\ a + n <= b + DramSize
    BY <1>1, <1>3, <2>2
  <2>5. b <= a /\ a < b + s
    BY <2>3, <2>4
  <2> QED
    BY <1>1, <1>2, <2>5 DEF InNode
<1>5. CASE Order[j] = "clint"
  <2>1. r \in {"msip", "mtimecmp", "mtime"}
    BY <1>5 DEF RegionsOf, C!Files
  <2>2. PICK fb, fs : fb = C!Files[r].base /\ fs = C!Files[r].size
    BY Zenon
  <2>3. Regions[r] = [base |-> b + fb, size |-> fs]
    BY <1>2, <1>5, <2>1, <2>2 DEF Regions, C!Files
  <2>4. Harts \in Nat /\ Harts <= 4095
    BY BusAssumption DEF BusAssumption
  <2>5. fb \in Nat /\ fs \in Nat /\ fb + fs <= 49152
    <3>1. CASE r = "msip"
      BY <2>2, <2>4, <3>1 DEF C!Files, C!kMsipBase
    <3>2. CASE r = "mtimecmp"
      BY <2>2, <2>4, <3>2 DEF C!Files, C!kMtimeCmpBase
    <3>3. CASE r = "mtime"
      BY <2>2, <3>3 DEF C!Files, C!kMtimeBase
    <3> QED
      BY <2>1, <3>1, <3>2, <3>3
  <2>6. 49152 <= s
    BY <1>2, <1>5, LayoutFacts, BusAssumption, SMTT(30) DEF BusAssumption, C!kMtimeBase
  <2>7. b + fb <= a /\ a + n <= b + fb + fs
    BY <1>1, <1>3, <2>3
  <2>8. b <= a /\ a < b + s
    BY <2>5, <2>6, <2>7
  <2> QED
    BY <1>1, <1>2, <2>8 DEF InNode
<1>6. CASE Order[j] \notin {"dram", "clint"}
  BY <1>6 DEF RegionsOf
<1> QED
  BY <1>4, <1>5, <1>6
-----------------------------------------------------------------------------
(* The state of the two devices                                            *)

ClintType(time) ==
  [ msip     : [0 .. 4 * Harts - 1 -> 0 .. 1],
    mtimecmp : [0 .. 8 * Harts - 1 -> Byte],
    mtime    : {time} ]

\* Of every word of msip only bit 0 may be set, so that the loop at the end
\* of Clint::Store leaves the words alone that the store did not reach.
FlagsMasked(msip) == \A i \in 0 .. 4 * Harts - 1 : i % 4 # 0 => msip[i] = 0

ClintOK(c) ==
  c \in ClintType(c.mtime) /\ DOMAIN c.mtime = 0 .. 7 /\ FlagsMasked(c.msip)

BInv ==
  /\ session \in Sessions
  /\ dev_cnt_ \in 0 .. Len(Order)
  /\ dram \in [0 .. DramSize - 1 -> Byte]
  /\ ClintOK(clint)

LEMMA Zero == 0 \in Byte /\ 0 .. 1 \subseteq Byte /\ DramSize \in Nat /\ Harts \in Nat
<1>1. Base \in Nat \ {0, 1} /\ DramSize \in Nat /\ Harts \in Nat
  BY BusAssumption DEF BusAssumption
<1> QED
  BY <1>1 DEF Byte

LEMMA BytesDomain ==
  ASSUME NEW x
  PROVE  DOMAIN C!ToBytes(x, 8) = 0 .. 7
<1>1. 8 - 1 = 7
  OBVIOUS
<1>2. DOMAIN C!ToBytes(x, 8) = 0 .. 8 - 1
  BY Zenon DEF C!ToBytes
<1> QED
  BY <1>1, <1>2

LEMMA NewClintType ==
  ASSUME NEW now
  PROVE  ClintOK(C!NewClint(now))
<1>1. PICK t : t = C!ToBytes(now, 8) /\ DOMAIN t = 0 .. 7
  BY BytesDomain
<1>2. C!NewClint(now) = [msip |-> [i \in 0 .. 4 * Harts - 1 |-> 0],
                         mtimecmp |-> [i \in 0 .. 8 * Harts - 1 |-> 0], mtime |-> t]
  BY <1>1 DEF C!NewClint
<1> QED
  BY <1>1, <1>2, Zero DEF ClintOK, ClintType, FlagsMasked

LEMMA SetMtime ==
  ASSUME NEW c, ClintOK(c), NEW t, DOMAIN t = 0 .. 7, NEW d, d = [c EXCEPT !.mtime = t]
  PROVE  ClintOK(d) /\ d.msip = c.msip /\ d.mtimecmp = c.mtimecmp
BY DEF ClintOK, ClintType, FlagsMasked

\* The bytes an access copies lie in the region that holds it; what is
\* stored in msip is masked.
LEMMA PatchType ==
  ASSUME NEW S, NEW n, NEW array \in [0 .. n -> S], NEW at, NEW buf, NEW m,
         buf \in [0 .. m -> S]
  PROVE  Patch(array, at, buf) \in [0 .. n -> S] /\ C!Patch(array, at, buf) \in [0 .. n -> S]
BY DEF Patch, C!Patch

LEMMA StoreClintType ==
  ASSUME NEW c, ClintOK(c), NEW at, NEW n, NEW buf,
         NEW m, buf \in [0 .. m -> Byte], C!Mapped(at, n), NEW d, d = C!DoStore(c, at, buf, n)
  PROVE  ClintOK(d)
<1>1. PICK f : f = C!FileOf(at, n)
  OBVIOUS
<1>2. f \in {"msip", "mtimecmp", "mtime"}
  BY <1>1 DEF C!FileOf, C!Mapped, C!Files
<1>3. PICK file : file = C!Patch(c[f], at - C!Files[f].base, buf)
  OBVIOUS
<1>4. d = [c EXCEPT ![f] = IF f = "msip" THEN C!MaskMsip(file) ELSE file]
  BY <1>1, <1>3 DEF C!DoStore
<1>5. CASE f = "msip"
  <2>1. PICK x : x = C!MaskMsip(file)
    OBVIOUS
  <2>2. DOMAIN file = 0 .. 4 * Harts - 1
    BY <1>3, <1>5 DEF ClintOK, ClintType, C!Patch
  <2>3. \A i \in DOMAIN file : i % 4 = 0 => file[i] \in Nat
    <3>1. c.msip \in [0 .. 4 * Harts - 1 -> 0 .. 1]
      BY DEF ClintOK, ClintType
    <3>2. \A k \in DOMAIN buf : buf[k] \in Nat
      BY BusAssumption DEF BusAssumption, Byte
    <3>3. PICK o : o = at - C!Files[f].base
      OBVIOUS
    <3>4. file = [k \in DOMAIN c.msip |-> IF k - o \in DOMAIN buf THEN buf[k - o] ELSE c.msip[k]]
      BY <1>3, <1>5, <3>3 DEF C!Patch
    <3>5. SUFFICES ASSUME NEW i \in DOMAIN file PROVE file[i] \in Nat
      OBVIOUS
    <3>6. file[i] = IF i - o \in DOMAIN buf THEN buf[i - o] ELSE c.msip[i]
      BY <3>4
    <3>7. i \in 0 .. 4 * Harts - 1
      BY <2>2
    <3>8. c.msip[i] \in Nat
      <4>1. c.msip[i] \in 0 .. 1
        BY <3>1, <3>7, Zenon
      <4> QED
        BY <4>1
    <3> QED
      BY <3>2, <3>6, <3>8
  <2>4. x = [i \in DOMAIN file |-> IF i % 4 = 0 THEN file[i] % 2 ELSE 0]
    BY <2>1 DEF C!MaskMsip
  <2>5. x \in [0 .. 4 * Harts - 1 -> 0 .. 1] /\ FlagsMasked(x)
    BY <2>2, <2>3, <2>4 DEF FlagsMasked
  <2>6. d = [c EXCEPT !.msip = x]
    BY <1>4, <1>5, <2>1, Zenon
  <2> QED
    BY <2>5, <2>6 DEF ClintOK, ClintType, FlagsMasked
<1>6. CASE f = "mtimecmp"
  <2>1. file \in [0 .. 8 * Harts - 1 -> Byte]
    BY <1>3, <1>6, PatchType, Zenon DEF ClintOK, ClintType, C!Patch
  <2>2. d = [c EXCEPT !.mtimecmp = file]
    BY <1>4, <1>6, Zenon
  <2> QED
    BY <2>1, <2>2 DEF ClintOK, ClintType
<1>7. CASE f = "mtime"
  <2>1. DOMAIN file = 0 .. 7
    BY <1>3, <1>7 DEF ClintOK, C!Patch
  <2>2. d = [c EXCEPT !.mtime = file]
    BY <1>4, <1>7, Zenon
  <2> QED
    BY <2>1, <2>2, SetMtime
<1> QED
  BY <1>2, <1>5, <1>6, <1>7
-----------------------------------------------------------------------------
(* The state stays well-formed                                             *)

LEMMA AccessFacts ==
  ASSUME BInv, NEW acc \in session.accesses
  PROVE  /\ acc \in Accesses /\ acc.addr \in Nat /\ acc.bytes \in {1, 2, 4, 8}
         /\ acc.op = "store" => acc.buf \in [0 .. acc.bytes - 1 -> Byte]
<1>1. acc \in Accesses
  BY DEF BInv, Accesses
<1> QED
  BY <1>1, BusAssumption DEF BusAssumption

LEMMA InitB == Init => BInv
<1> SUFFICES ASSUME Init PROVE BInv
  OBVIOUS
<1>1. dev_cnt_ \in 0 .. Len(Order)
  BY BusAssumption DEF BusAssumption, Init
<1>2. dram \in [0 .. DramSize - 1 -> Byte]
  BY Zero DEF Init
<1>3. PICK now : clint = C!NewClint(now)
  BY DEF Init
<1>4. ClintOK(clint)
  BY <1>3, NewClintType
<1> QED
  BY <1>1, <1>2, <1>4 DEF BInv, Init

LEMMA KeepB ==
  ASSUME BInv, UNCHANGED <<session, dev_cnt_, dram, clint>>
  PROVE  BInv'
BY DEF BInv, ClintOK, ClintType, FlagsMasked

LEMMA StoreB ==
  ASSUME BInv, NEW acc \in session.accesses, Store(acc)
  PROVE  BInv'
<1>1. acc.op = "store" /\ UNCHANGED <<session, dev_cnt_>>
  BY DEF Store
<1>2. PICK m : acc.buf \in [0 .. m -> Byte]
  BY <1>1, AccessFacts
<1>3. CASE UNCHANGED <<dram, clint>>
  BY <1>1, <1>3, KeepB
<1>4. CASE NoDevice(acc)
  BY <1>3, <1>4 DEF NoDevice, devices
<1>5. ASSUME NEW d, NEW at, StoreTo(d, at, acc)
      PROVE  BInv'
  <2>1. CASE d = "dram"
    <3>1. clint' = clint /\ dram' = IF at + acc.bytes <= DramSize THEN Patch(dram, at, acc.buf) ELSE dram
      BY <1>5, <2>1 DEF StoreTo
    <3>2. dram' \in [0 .. DramSize - 1 -> Byte]
      BY <1>2, <3>1, PatchType, Zenon DEF BInv
    <3> QED
      BY <1>1, <3>1, <3>2 DEF BInv, ClintOK, ClintType, FlagsMasked
  <2>2. CASE d = "clint"
    <3>1. dram' = dram /\ clint' = IF C!Mapped(at, acc.bytes)
                                   THEN C!DoStore(clint, at, acc.buf, acc.bytes) ELSE clint
      BY <1>5, <2>2 DEF StoreTo
    <3>2. ClintOK(clint)'
      <4>1. CASE C!Mapped(at, acc.bytes)
        BY <1>2, <3>1, <4>1, StoreClintType DEF BInv
      <4>2. CASE ~ C!Mapped(at, acc.bytes)
        BY <3>1, <4>2 DEF BInv
      <4> QED
        BY <4>1, <4>2
    <3> QED
      BY <1>1, <3>1, <3>2 DEF BInv, ClintOK, ClintType, FlagsMasked
  <2>3. CASE d \notin {"dram", "clint"}
    BY <1>3, <1>5, <2>3 DEF StoreTo
  <2> QED
    BY <2>1, <2>2, <2>3
<1> QED
  BY <1>4, <1>5 DEF Store

LEMMA NextB ==
  ASSUME BInv, [Next]_vars
  PROVE  BInv'
<1>1. CASE MountDevice
  <2>1. dev_cnt_' \in 0 .. Len(Order)
    BY <1>1, LayoutFacts DEF MountDevice, BInv
  <2> QED
    BY <1>1, <2>1 DEF MountDevice, devices, BInv, ClintOK, ClintType, FlagsMasked
<1>2. CASE \E acc \in session.accesses : Load(acc)
  BY <1>2, KeepB, ZenonT(40) DEF Load, NoDevice, LoadFrom, UartLoadFrom, devices
<1>3. CASE \E acc \in session.accesses : Store(acc)
  BY <1>3, StoreB
<1>4. ASSUME NEW now \in session.times, Reset(now)
      PROVE  BInv'
  <2>1. dram' \in [0 .. DramSize - 1 -> Byte]
    BY <1>4, Zero DEF Reset, BInv
  <2>2. ClintOK(clint)'
    <3>1. clint' = C!NewClint(now) \/ clint' = clint
      BY <1>4 DEF Reset
    <3> QED
      BY <3>1, NewClintType DEF BInv
  <2> QED
    BY <1>4, <2>1, <2>2 DEF Reset, BInv, ClintOK, ClintType, FlagsMasked
<1>5. ASSUME NEW now \in session.times, CallClint(now)
      PROVE  BInv'
  <2>1. PICK t : clint' = [clint EXCEPT !.mtime = t] /\ DOMAIN t = 0 .. 7
    <3>1. PICK x : clint' = [clint EXCEPT !.mtime = C!ToBytes(x, 8)]
      BY <1>5 DEF CallClint, C!DoUpdateMtime, C!DoTick
    <3> QED
      BY <3>1, BytesDomain, Zenon
  <2>2. ClintOK(clint)'
    BY <2>1, SetMtime DEF BInv
  <2> QED
    BY <1>5, <2>2 DEF CallClint, BInv, ClintOK, ClintType, FlagsMasked
<1>6. CASE CallPlic
  BY <1>6, KeepB DEF CallPlic
<1>7. CASE CallUart
  BY <1>7, KeepB DEF CallUart
<1>8. CASE UNCHANGED vars
  BY <1>8, KeepB DEF vars
<1> QED
  BY <1>1, <1>2, <1>3, <1>4, <1>5, <1>6, <1>7, <1>8, Zenon DEF Next
-----------------------------------------------------------------------------
(* The refinement                                                          *)

\* The regions that are there, and what they hold.
LEMMA ContentsFacts ==
  /\ \A r : r \in DOMAIN Contents <=> \E j \in 1 .. dev_cnt_ : r \in RegionsOf(Order[j])
  /\ \A r \in DOMAIN Contents : Contents[r] = IF r = "dram" THEN dram ELSE clint[r]
BY DEF Contents

LEMMA RegionNames ==
  /\ \A d : RegionsOf(d) \subseteq {"dram", "msip", "mtimecmp", "mtime"}
  /\ \A d, r : r \in RegionsOf(d) => (d = "dram" <=> r = "dram")
  /\ RegionsOf("dram") = {"dram"}
  /\ RegionsOf("clint") = {"msip", "mtimecmp", "mtime"}
  /\ DOMAIN C!Files = {"msip", "mtimecmp", "mtime"}
<1>1. DOMAIN C!Files = {"msip", "mtimecmp", "mtime"}
  BY DEF C!Files
<1> QED
  BY <1>1 DEF RegionsOf

LEMMA SameContents ==
  ASSUME UNCHANGED <<dev_cnt_, dram, clint>>
  PROVE  Contents' = Contents
BY DEF Contents

\* An access is held by no region if none of the device that answers holds it.
LEMMA NoneHolds ==
  ASSUME BInv, NEW acc \in session.accesses, NEW i, i = GetDeviceByRange(acc.addr),
         i # -1 => \A r \in RegionsOf(Order[i]) : ~ Memory!Holds(r, acc)
  PROVE  \A r \in DOMAIN Contents : ~ Memory!Holds(r, acc)
<1> SUFFICES ASSUME NEW r \in DOMAIN Contents, Memory!Holds(r, acc) PROVE FALSE
  OBVIOUS
<1>1. PICK j \in 1 .. dev_cnt_ : r \in RegionsOf(Order[j])
  BY ContentsFacts
<1>2. j \in 1 .. Len(Order)
  BY LayoutFacts DEF BInv
<1>3. acc \in Accesses /\ acc.addr \in Nat
  BY AccessFacts
<1>4. InNode(Order[j], acc.addr)
  BY <1>1, <1>2, <1>3, RegionInNode
<1>5. dev_cnt_ \in 0 .. Len(Order)
  BY DEF BInv
<1>6. CASE i = -1
  BY <1>3, <1>4, <1>5, <1>6, Found, Zenon
<1>7. CASE i # -1
  <2>1. i \in 1 .. Len(Order) /\ InNode(Order[i], acc.addr)
    BY <1>3, <1>5, <1>7, Found
  <2>2. i = j
    BY <1>2, <1>3, <1>4, <2>1, Apart, Zenon
  <2> QED
    BY <1>1, <1>7, <2>2
<1> QED
  BY <1>6, <1>7

LEMMA RefuseStep ==
  ASSUME BInv, NEW acc \in session.accesses, NEW i, i = GetDeviceByRange(acc.addr),
         i # -1 => \A r \in RegionsOf(Order[i]) : ~ Memory!Holds(r, acc),
         NEW data, Answer(acc, FALSE, data), UNCHANGED <<dev_cnt_, dram, clint>>
  PROVE  Memory!Next
<1>1. \A r \in DOMAIN Contents : ~ Memory!Holds(r, acc)
  BY NoneHolds, Zenon
<1>2. Contents' = Contents
  BY SameContents
<1>3. reply' = [acc |-> acc, ok |-> FALSE, data |-> <<>>]
  BY DEF Answer
<1>4. Memory!Refuse(acc)
  BY <1>1, <1>2, <1>3 DEF Memory!Refuse
<1>5. acc \in Accesses /\ reply'.acc = acc
  BY <1>3, AccessFacts
<1> QED
  BY <1>4, <1>5 DEF Memory!Next

\* Where the regions are, and when one holds an access.
LEMMA HoldsDram ==
  ASSUME NEW acc, NEW at, at = acc.addr - Layout["dram"].base, acc.addr \in Nat,
         acc.bytes \in {1, 2, 4, 8}, Layout["dram"].base \in Nat, Layout["dram"].base <= acc.addr
  PROVE  /\ Memory!Holds("dram", acc) <=> at + acc.bytes <= DramSize
         /\ Regions["dram"].base = Layout["dram"].base
<1>1. Regions["dram"] = [base |-> Layout["dram"].base, size |-> DramSize]
  BY DEF Regions
<1>2. PICK a \in Nat, n \in {1, 2, 4, 8}, b \in Nat :
        a = acc.addr /\ n = acc.bytes /\ b = Layout["dram"].base
  OBVIOUS
<1>3. a - b + n <= DramSize <=> a + n <= b + DramSize
  BY Zero
<1> QED
  BY <1>1, <1>2, <1>3 DEF Memory!Holds

LEMMA HoldsClint ==
  ASSUME NEW acc, NEW at, at = acc.addr - Layout["clint"].base, acc.addr \in Nat,
         acc.bytes \in {1, 2, 4, 8}, Layout["clint"].base \in Nat, Layout["clint"].base <= acc.addr,
         NEW f \in DOMAIN C!Files
  PROVE  /\ Memory!Holds(f, acc) <=> C!Holds(f, at, acc.bytes)
         /\ Regions[f].base = Layout["clint"].base + C!Files[f].base
         /\ C!Files[f].base \in Nat
<1>1. PICK fb, fs : fb = C!Files[f].base /\ fs = C!Files[f].size
  OBVIOUS
<1>2. Regions[f] = [base |-> Layout["clint"].base + fb, size |-> fs]
  BY <1>1, RegionNames DEF Regions
<1>3. fb \in Nat /\ fs \in Nat
  BY <1>1, Zero DEF C!Files, C!kMsipBase, C!kMtimeCmpBase, C!kMtimeBase
<1>4. PICK a \in Nat, n \in {1, 2, 4, 8}, b \in Nat :
        a = acc.addr /\ n = acc.bytes /\ b = Layout["clint"].base
  OBVIOUS
<1>5. /\ fb <= a - b <=> b + fb <= a
      /\ a - b + n <= fb + fs <=> a + n <= b + fb + fs
  BY <1>3
<1> QED
  BY <1>1, <1>2, <1>3, <1>4, <1>5 DEF Memory!Holds, C!Holds
\* What is known of an access that a mounted device answers.
LEMMA AnswerFacts ==
  ASSUME BInv, NEW acc \in session.accesses, NEW i, i = GetDeviceByRange(acc.addr), i # -1,
         NEW d, d = Order[i]
  PROVE  /\ i \in 1 .. dev_cnt_ /\ InNode(d, acc.addr)
         /\ d \in {"clint", "plic", "uart", "dram"}
         /\ Layout[d].base \in Nat /\ Layout[d].base <= acc.addr
         /\ RegionsOf(d) \subseteq DOMAIN Contents
<1>1. acc.addr \in Nat /\ dev_cnt_ \in 0 .. Len(Order)
  BY AccessFacts DEF BInv
<1>2. i \in 1 .. dev_cnt_ /\ i \in 1 .. Len(Order) /\ InNode(d, acc.addr)
  BY <1>1, Found
<1>3. d \in {"clint", "plic", "uart", "dram"} /\ Layout[d].base \in Nat
  BY <1>2, LayoutFacts
<1>4. Layout[d].base <= acc.addr
  BY <1>2 DEF InNode
<1>5. RegionsOf(d) \subseteq DOMAIN Contents
  BY <1>2, ContentsFacts
<1> QED
  BY <1>2, <1>3, <1>4, <1>5

\* Accesses to the other devices leave the memory alone.
LEMMA OtherStep ==
  ASSUME BInv, NEW acc \in session.accesses, InNode("plic", acc.addr) \/ InNode("uart", acc.addr),
         NEW ok, NEW data, Answer(acc, ok, data), UNCHANGED <<dev_cnt_, dram, clint>>
  PROVE  Memory!Next
<1>1. acc \in Accesses /\ acc \in Others
  BY AccessFacts DEF Others
<1>2. reply'.acc = acc
  BY DEF Answer
<1>3. Memory!Answered(acc)
  BY <1>1, SameContents DEF Memory!Answered
<1> QED
  BY <1>1, <1>2, <1>3 DEF Memory!Next

LEMMA DoneStep ==
  ASSUME BInv, NEW acc \in session.accesses, NEW r \in DOMAIN Contents,
         Memory!Load(acc, r) \/ Memory!Store(acc, r)
  PROVE  Memory!Next
<1>1. acc \in Accesses
  BY AccessFacts
<1>2. reply'.acc = acc
  BY DEF Memory!Load, Memory!Store
<1> QED
  BY <1>1, <1>2 DEF Memory!Next

LEMMA LoadStep ==
  ASSUME BInv, NEW acc \in session.accesses, Load(acc)
  PROVE  Memory!Next
<1>1. PICK i : i = GetDeviceByRange(acc.addr)
  OBVIOUS
<1>2. acc.op = "load" /\ dev_cnt_' = dev_cnt_
  BY DEF Load
<1>3. CASE NoDevice(acc)
  BY <1>1, <1>2, <1>3, RefuseStep, Zenon DEF NoDevice, devices
<1>4. CASE ~ NoDevice(acc)
  <2>1. PICK d, at, n : d = Order[i] /\ at = acc.addr - Layout[d].base /\ n = acc.bytes
    OBVIOUS
  <2>2. i # -1 /\ LoadFrom(d, at, acc)
    BY <1>1, <1>4, <2>1, Zenon DEF Load
  <2>3. /\ InNode(d, acc.addr) /\ d \in {"clint", "plic", "uart", "dram"}
        /\ Layout[d].base \in Nat /\ Layout[d].base <= acc.addr
        /\ RegionsOf(d) \subseteq DOMAIN Contents
    BY <1>1, <2>1, <2>2, AnswerFacts
  <2>4. acc.addr \in Nat /\ n \in {1, 2, 4, 8}
    BY <2>1, AccessFacts, Zenon
  <2>5. UNCHANGED <<dram, clint>>
    BY <2>2 DEF LoadFrom, devices
  <2>6. Contents' = Contents
    BY <1>2, <2>5, SameContents
  <2>7. CASE d = "dram"
    <3>1. Answer(acc, at + n <= DramSize, Slice(dram, at, n))
      BY <2>1, <2>2, <2>7 DEF LoadFrom
    <3>2. /\ Memory!Holds("dram", acc) <=> at + n <= DramSize
          /\ Regions["dram"].base = Layout["dram"].base
      BY <2>1, <2>3, <2>4, <2>7, HoldsDram, Zenon
    <3>3. CASE at + n <= DramSize
      <4>1. "dram" \in DOMAIN Contents /\ Contents["dram"] = dram
        BY <2>3, <2>7, RegionNames, ContentsFacts
      <4>2. reply' = [acc |-> acc, ok |-> TRUE, data |-> [k \in 0 .. n - 1 |-> dram[at + k]]]
        BY <3>1, <3>3, Zenon DEF Answer, Slice
      <4>3. Memory!Load(acc, "dram")
        BY <1>2, <2>1, <2>6, <2>7, <3>2, <3>3, <4>1, <4>2, ZenonT(30) DEF Memory!Load
      <4> QED
        BY <4>1, <4>3, DoneStep, Zenon
    <3>4. CASE ~ (at + n <= DramSize)
      <4>1. Answer(acc, FALSE, Slice(dram, at, n))
        <5>1. (at + n <= DramSize) = FALSE
          BY <3>4
        <5> QED
          BY <3>1, <5>1, Zenon DEF Answer
      <4>2. \A r \in RegionsOf(Order[i]) : ~ Memory!Holds(r, acc)
        BY <2>1, <2>7, <3>2, <3>4, RegionNames
      <4> QED
        BY <1>1, <1>2, <2>5, <4>1, <4>2, RefuseStep, ZenonT(40)
    <3> QED
      BY <3>3, <3>4
  <2>8. CASE d = "clint"
    <3>1. Answer(acc, C!Mapped(at, n), C!LoadValue(clint, at, n))
      BY <2>1, <2>2, <2>8 DEF LoadFrom
    <3>2. \A f \in DOMAIN C!Files :
            /\ Memory!Holds(f, acc) <=> C!Holds(f, at, n)
            /\ Regions[f].base = Layout["clint"].base + C!Files[f].base
            /\ C!Files[f].base \in Nat
      BY <2>1, <2>3, <2>4, <2>8, HoldsClint
    <3>3. CASE C!Mapped(at, n)
      <4>1. PICK f \in DOMAIN C!Files : f = C!FileOf(at, n) /\ C!Holds(f, at, n)
        BY <3>3 DEF C!FileOf, C!Mapped
      <4>2. f \in DOMAIN Contents /\ Contents[f] = clint[f]
        BY <2>3, <2>8, RegionNames, ContentsFacts
      <4>3. PICK o : o = at - C!Files[f].base
        OBVIOUS
      <4>4. reply' = [acc |-> acc, ok |-> TRUE, data |-> [k \in 0 .. n - 1 |-> clint[f][o + k]]]
        BY <3>1, <3>3, <4>1, <4>3 DEF Answer, C!LoadValue, C!Slice
      <4>5. acc.addr - Regions[f].base = o
        <5>1. PICK a \in Nat, b \in Nat, fb \in Nat :
                a = acc.addr /\ b = Layout["clint"].base /\ fb = C!Files[f].base
          BY <2>3, <2>4, <2>8, <3>2
        <5>2. Regions[f].base = b + fb /\ o = (a - b) - fb
          BY <2>1, <2>8, <3>2, <4>3, <5>1, Zenon
        <5>3. a - (b + fb) = (a - b) - fb
          OBVIOUS
        <5> QED
          BY <5>1, <5>2, <5>3
      <4>6. Memory!Load(acc, f)
        BY <1>2, <2>1, <2>6, <3>2, <4>1, <4>2, <4>4, <4>5, ZenonT(40) DEF Memory!Load
      <4> QED
        BY <4>2, <4>6, DoneStep
    <3>4. CASE ~ C!Mapped(at, n)
      <4>1. Answer(acc, FALSE, C!LoadValue(clint, at, n))
        <5>1. C!Mapped(at, n) = FALSE
          BY <3>4 DEF C!Mapped
        <5> QED
          BY <3>1, <5>1, Zenon
      <4>2. \A r \in RegionsOf(Order[i]) : ~ Memory!Holds(r, acc)
        BY <2>1, <2>8, <3>2, <3>4, RegionNames DEF C!Mapped
      <4> QED
        BY <1>1, <1>2, <2>5, <4>1, <4>2, RefuseStep, Zenon
    <3> QED
      BY <3>3, <3>4, Zenon
  <2>9. CASE d \in {"plic", "uart"}
    <3>1. PICK ok, data : Answer(acc, ok, data)
      BY <2>2, <2>9 DEF LoadFrom, UartLoadFrom
    <3> QED
      BY <1>2, <2>3, <2>5, <2>9, <3>1, OtherStep, Zenon
  <2> QED
    BY <2>3, <2>7, <2>8, <2>9
<1> QED
  BY <1>3, <1>4
\* What a store leaves in a region, as ByteMemory says it.
Stored(r, acc) ==
  [i \in DOMAIN Contents[r] |->
     IF Regions[r].base + i - acc.addr \in 0 .. acc.bytes - 1
     THEN Memory!Kept(r, i, acc.buf[Regions[r].base + i - acc.addr])
     ELSE Contents[r][i]]

LEMMA StoredStep ==
  ASSUME BInv, NEW acc \in session.accesses, acc.op = "store", NEW r \in DOMAIN Contents,
         Memory!Holds(r, acc), Answer(acc, TRUE, <<>>),
         Contents' = [Contents EXCEPT ![r] = Stored(r, acc)]
  PROVE  Memory!Next
<1>1. reply' = [acc |-> acc, ok |-> TRUE, data |-> <<>>]
  BY DEF Answer
<1>2. Memory!Store(acc, r)
  BY <1>1 DEF Memory!Store, Stored
<1> QED
  BY <1>2, DoneStep

LEMMA DramStored ==
  ASSUME BInv, NEW acc, acc.addr \in Nat, acc.bytes \in {1, 2, 4, 8},
         acc.buf \in [0 .. acc.bytes - 1 -> Byte], Layout["dram"].base \in Nat,
         Regions["dram"].base = Layout["dram"].base, "dram" \in DOMAIN Contents,
         UNCHANGED <<dev_cnt_, clint>>, dram' = Patch(dram, acc.addr - Layout["dram"].base, acc.buf)
  PROVE  Contents' = [Contents EXCEPT !["dram"] = Stored("dram", acc)]
<1>1. PICK a \in Nat, b \in Nat, n \in {1, 2, 4, 8} :
        a = acc.addr /\ b = Layout["dram"].base /\ n = acc.bytes
  OBVIOUS
<1>2. Contents["dram"] = dram /\ DOMAIN dram = 0 .. DramSize - 1 /\ DOMAIN acc.buf = 0 .. n - 1
  BY <1>1, ContentsFacts DEF BInv
<1>3. \A k \in 0 .. DramSize - 1 : k - (a - b) = b + k - a
  BY Zero
<1>4. \A k, x : Memory!Kept("dram", k, x) = x
  BY DEF Memory!Kept
<1>5. dram' = Stored("dram", acc)
  BY <1>1, <1>2, <1>3, <1>4 DEF Stored, Patch
<1>6. Contents' = [Contents EXCEPT !["dram"] = dram']
  BY ZenonT(30) DEF Contents
<1> QED
  BY <1>5, <1>6

LEMMA ClintStored ==
  ASSUME BInv, NEW acc, acc.addr \in Nat, acc.bytes \in {1, 2, 4, 8},
         acc.buf \in [0 .. acc.bytes - 1 -> Byte], Layout["clint"].base \in Nat,
         NEW f \in {"msip", "mtimecmp", "mtime"}, C!Files[f].base \in Nat,
         NEW at, at = acc.addr - Layout["clint"].base,
         Regions[f].base = Layout["clint"].base + C!Files[f].base,
         f \in DOMAIN Contents,
         UNCHANGED <<dev_cnt_, dram>>, f = C!FileOf(at, acc.bytes),
         clint' = C!DoStore(clint, at, acc.buf, acc.bytes)
  PROVE  Contents' = [Contents EXCEPT ![f] = Stored(f, acc)]
<1>1. PICK a \in Nat, b \in Nat, fb \in Nat, n \in {1, 2, 4, 8} :
        /\ a = acc.addr /\ b = Layout["clint"].base /\ n = acc.bytes
        /\ fb = C!Files[f].base
  BY ZenonT(40)
<1>2. Contents[f] = clint[f] /\ DOMAIN acc.buf = 0 .. n - 1 /\ at - fb = (a - b) - fb
  BY <1>1, ContentsFacts, Zenon
<1>3. \A k \in DOMAIN clint[f] : k - ((a - b) - fb) = b + fb + k - a
  <2>1. DOMAIN clint[f] \subseteq Int
    <3>1. /\ DOMAIN clint.msip = 0 .. 4 * Harts - 1
          /\ DOMAIN clint.mtimecmp = 0 .. 8 * Harts - 1
          /\ DOMAIN clint.mtime = 0 .. 7
      BY Zenon DEF BInv, ClintOK, ClintType
    <3>2. CASE f = "msip"
      BY <3>1, <3>2, Zero, SMTT(30)
    <3>3. CASE f = "mtimecmp"
      BY <3>1, <3>3, Zero, SMTT(30)
    <3>4. CASE f = "mtime"
      BY <3>1, <3>4, SMTT(30)
    <3> QED
      BY <3>2, <3>3, <3>4
  <2> QED
    BY <2>1, SMTT(30)
<1>4. PICK file : file = C!Patch(clint[f], at - fb, acc.buf)
  OBVIOUS
<1>5. file = [k \in DOMAIN clint[f] |-> IF b + fb + k - a \in 0 .. n - 1
                                        THEN acc.buf[b + fb + k - a] ELSE clint[f][k]]
  <2>1. PICK o : o = at - fb
    OBVIOUS
  <2>2. file = [k \in DOMAIN clint[f] |-> IF k - o \in DOMAIN acc.buf
                                          THEN acc.buf[k - o] ELSE clint[f][k]]
    BY <1>4, <2>1, Zenon DEF C!Patch
  <2>3. \A k \in DOMAIN clint[f] : k - o = b + fb + k - a
    BY <1>2, <1>3, <2>1, Zenon
  <2>4. ASSUME NEW k \in DOMAIN clint[f]
        PROVE  file[k] = IF b + fb + k - a \in 0 .. n - 1
                         THEN acc.buf[b + fb + k - a] ELSE clint[f][k]
    BY <1>2, <2>2, <2>3, ZenonT(30)
  <2> QED
    BY <2>2, <2>4, ZenonT(30)
<1>6. PICK new : new = IF f = "msip" THEN C!MaskMsip(file) ELSE file
  BY Zenon
<1>7. clint' = [clint EXCEPT ![f] = new]
  BY <1>1, <1>4, <1>6, Zenon DEF C!DoStore
<1>8. Stored(f, acc) = [k \in DOMAIN clint[f] |->
                          IF b + fb + k - a \in 0 .. n - 1
                          THEN Memory!Kept(f, k, acc.buf[b + fb + k - a]) ELSE clint[f][k]]
  BY <1>1, <1>2 DEF Stored
<1>9. new = Stored(f, acc)
  <2>1. CASE f # "msip"
    BY <1>5, <1>6, <1>8, <2>1, ZenonT(40) DEF Memory!Kept
  <2>2. CASE f = "msip"
    <3>1. \A k \in DOMAIN clint.msip :
            clint.msip[k] \in 0 .. 1 /\ (k % 4 # 0 => clint.msip[k] = 0)
      BY Zenon DEF BInv, ClintOK, ClintType, FlagsMasked
    <3>2. new = [k \in DOMAIN clint[f] |-> IF k % 4 = 0 THEN file[k] % 2 ELSE 0]
      BY <1>5, <1>6, <2>2, ZenonT(30) DEF C!MaskMsip
    <3>3. ASSUME NEW k \in DOMAIN clint[f]
          PROVE  new[k] = Stored(f, acc)[k]
      <4>1. CASE b + fb + k - a \in 0 .. n - 1
        BY <1>5, <1>8, <2>2, <3>2, <4>1, ZenonT(40) DEF Memory!Kept
      <4>2. CASE ~ (b + fb + k - a \in 0 .. n - 1)
        <5>1. file[k] = clint.msip[k] /\ Stored(f, acc)[k] = clint.msip[k]
          BY <1>5, <1>8, <2>2, <4>2, ZenonT(40)
        <5>2. new[k] = IF k % 4 = 0 THEN clint.msip[k] % 2 ELSE 0
          BY <3>2, <5>1, Zenon
        <5>3. PICK x \in 0 .. 1 : x = clint.msip[k] /\ (k % 4 # 0 => x = 0)
          BY <2>2, <3>1, Zenon
        <5>4. x % 2 = x
          OBVIOUS
        <5> QED
          BY <5>1, <5>2, <5>3, <5>4, Zenon
      <4> QED
        BY <4>1, <4>2
    <3> QED
      BY <1>8, <3>2, <3>3, Zenon
  <2> QED
    BY <2>1, <2>2
<1>10. Contents' = [Contents EXCEPT ![f] = new]
  <2>1. clint' = [g \in {"msip", "mtimecmp", "mtime"} |-> IF g = f THEN new ELSE clint[g]]
    BY <1>7, Zenon DEF BInv, ClintOK, ClintType
  <2>2. f # "dram" /\ DOMAIN Contents \subseteq {"dram", "msip", "mtimecmp", "mtime"}
    BY ContentsFacts, RegionNames, ZenonT(30)
  <2>3. \A r \in DOMAIN Contents \ {"dram"} : clint'[r] = IF r = f THEN new ELSE clint[r]
    BY <2>1, <2>2
  <2>4. Contents' = [r \in DOMAIN Contents |-> IF r = "dram" THEN dram ELSE clint'[r]]
    BY DEF Contents
  <2>5. Contents = [r \in DOMAIN Contents |-> IF r = "dram" THEN dram ELSE clint[r]]
    BY DEF Contents
  <2> QED
    BY <2>2, <2>3, <2>4, <2>5
<1> QED
  BY <1>9, <1>10
LEMMA StoreStep ==
  ASSUME BInv, NEW acc \in session.accesses, Store(acc)
  PROVE  Memory!Next
<1>1. PICK i : i = GetDeviceByRange(acc.addr)
  OBVIOUS
<1>2. acc.op = "store" /\ dev_cnt_' = dev_cnt_
  BY DEF Store
<1>3. CASE NoDevice(acc)
  BY <1>1, <1>2, <1>3, RefuseStep, ZenonT(40) DEF NoDevice, devices
<1>4. CASE ~ NoDevice(acc)
  <2>1. PICK d, at, n : d = Order[i] /\ at = acc.addr - Layout[d].base /\ n = acc.bytes
    OBVIOUS
  <2>2. i # -1 /\ StoreTo(d, at, acc)
    BY <1>1, <1>4, <2>1, Zenon DEF Store
  <2>3. /\ InNode(d, acc.addr) /\ d \in {"clint", "plic", "uart", "dram"}
        /\ Layout[d].base \in Nat /\ Layout[d].base <= acc.addr
        /\ RegionsOf(d) \subseteq DOMAIN Contents
    BY <1>1, <2>1, <2>2, AnswerFacts
  <2>4. acc.addr \in Nat /\ n \in {1, 2, 4, 8} /\ acc.buf \in [0 .. acc.bytes - 1 -> Byte]
    BY <1>2, <2>1, AccessFacts, Zenon
  <2>5. CASE d = "dram"
    <3>1. /\ Answer(acc, at + n <= DramSize, <<>>) /\ clint' = clint
          /\ dram' = IF at + n <= DramSize THEN Patch(dram, at, acc.buf) ELSE dram
      BY <2>1, <2>2, <2>5, Zenon DEF StoreTo
    <3>2. /\ Memory!Holds("dram", acc) <=> at + n <= DramSize
          /\ Regions["dram"].base = Layout["dram"].base
      BY <2>1, <2>3, <2>4, <2>5, HoldsDram
    <3>3. CASE at + n <= DramSize
      <4>1. "dram" \in DOMAIN Contents
        BY <2>3, <2>5, RegionNames
      <4>2. Answer(acc, TRUE, <<>>)
        BY <3>1, <3>3, Zenon DEF Answer
      <4>3. dram' = Patch(dram, acc.addr - Layout["dram"].base, acc.buf)
        BY <2>1, <2>5, <3>1, <3>3, Zenon
      <4>4. Contents' = [Contents EXCEPT !["dram"] = Stored("dram", acc)]
        BY <1>2, <2>1, <2>3, <2>4, <2>5, <3>1, <3>2, <4>1, <4>3, DramStored, ZenonT(30)
      <4> QED
        BY <1>2, <3>2, <3>3, <4>1, <4>2, <4>4, StoredStep, ZenonT(30)
    <3>4. CASE ~ (at + n <= DramSize)
      <4>1. Answer(acc, FALSE, <<>>)
        <5>1. (at + n <= DramSize) = FALSE
          BY <3>4
        <5> QED
          BY <3>1, <5>1, ZenonT(30)
      <4>2. \A r \in RegionsOf(Order[i]) : ~ Memory!Holds(r, acc)
        BY <2>1, <2>5, <3>2, <3>4, RegionNames
      <4> QED
        BY <1>1, <1>2, <3>1, <3>4, <4>1, <4>2, RefuseStep, ZenonT(40)
    <3> QED
      BY <3>3, <3>4
  <2>6. CASE d = "clint"
    <3>1. /\ Answer(acc, C!Mapped(at, n), <<>>) /\ dram' = dram
          /\ clint' = IF C!Mapped(at, n) THEN C!DoStore(clint, at, acc.buf, n) ELSE clint
      BY <2>1, <2>2, <2>6, Zenon DEF StoreTo
    <3>2. \A f \in DOMAIN C!Files :
            /\ Memory!Holds(f, acc) <=> C!Holds(f, at, n)
            /\ Regions[f].base = Layout["clint"].base + C!Files[f].base
            /\ C!Files[f].base \in Nat
      BY <2>1, <2>3, <2>4, <2>6, HoldsClint
    <3>3. CASE C!Mapped(at, n)
      <4>1. PICK f \in DOMAIN C!Files : f = C!FileOf(at, n) /\ C!Holds(f, at, n)
        BY <3>3 DEF C!FileOf, C!Mapped
      <4>2. f \in DOMAIN Contents /\ f \in {"msip", "mtimecmp", "mtime"}
        BY <2>3, <2>6, RegionNames
      <4>3. Answer(acc, TRUE, <<>>)
        <5>1. C!Mapped(at, n) = TRUE
          BY <3>3 DEF C!Mapped
        <5> QED
          BY <3>1, <5>1, ZenonT(30)
      <4>4. Contents' = [Contents EXCEPT ![f] = Stored(f, acc)]
        BY <1>2, <2>1, <2>3, <2>4, <2>6, <3>1, <3>2, <3>3, <4>1, <4>2, ClintStored, ZenonT(40)
      <4> QED
        BY <1>2, <3>2, <4>1, <4>2, <4>3, <4>4, StoredStep, Zenon
    <3>4. CASE ~ C!Mapped(at, n)
      <4>1. Answer(acc, FALSE, <<>>)
        <5>1. C!Mapped(at, n) = FALSE
          BY <3>4 DEF C!Mapped
        <5> QED
          BY <3>1, <5>1, ZenonT(30)
      <4>2. \A r \in RegionsOf(Order[i]) : ~ Memory!Holds(r, acc)
        BY <2>1, <2>6, <3>2, <3>4, RegionNames DEF C!Mapped
      <4> QED
        BY <1>1, <1>2, <3>1, <3>4, <4>1, <4>2, RefuseStep, ZenonT(40)
    <3> QED
      BY <3>3, <3>4
  <2>7. CASE d \in {"plic", "uart"}
    <3>1. PICK ok, data : Answer(acc, ok, data)
      BY <2>2, <2>7, Zenon DEF StoreTo, UartStoreTo
    <3>2. UNCHANGED <<dram, clint>>
      BY <2>2, <2>7, Zenon DEF StoreTo
    <3> QED
      BY <1>2, <2>3, <2>7, <3>1, <3>2, OtherStep, ZenonT(30)
  <2> QED
    BY <2>3, <2>5, <2>6, <2>7
<1> QED
  BY <1>3, <1>4

LEMMA MountStep ==
  ASSUME BInv, MountDevice
  PROVE  Memory!Next
<1>1. UNCHANGED <<dram, clint, reply>> /\ dev_cnt_ \in Nat /\ dev_cnt_' = dev_cnt_ + 1
  BY LayoutFacts DEF MountDevice, devices, BInv
<1>2. 1 .. dev_cnt_ \subseteq 1 .. dev_cnt_'
  BY <1>1
<1>3. DOMAIN Contents \subseteq DOMAIN Contents'
  BY <1>2 DEF Contents
<1>4. \A r \in DOMAIN Contents : Contents'[r] = Contents[r]
  BY <1>1, <1>3 DEF Contents
<1> QED
  BY <1>1, <1>3, <1>4 DEF Memory!Next, Memory!Attach

\* A reset clears every region that is there, since only those of mounted
\* devices are.
LEMMA ResetStep ==
  ASSUME BInv, NEW now, Reset(now)
  PROVE  Memory!Next
<1>1. dev_cnt_' = dev_cnt_ /\ reply' = reply
  BY DEF Reset
<1>2. DOMAIN Contents' = DOMAIN Contents
  BY <1>1 DEF Contents
<1>3. ASSUME NEW r \in DOMAIN Contents, r # "mtime"
      PROVE  Contents'[r] = [k \in DOMAIN Contents[r] |-> 0]
  <2>1. PICK j \in 1 .. dev_cnt_ : r \in RegionsOf(Order[j])
    BY ContentsFacts
  <2>2. CASE r = "dram"
    <3>1. Mounted("dram")
      BY <2>1, <2>2, RegionNames DEF Mounted
    <3>2. dram' = [k \in 0 .. DramSize - 1 |-> 0] /\ DOMAIN dram = 0 .. DramSize - 1
      BY <3>1 DEF Reset, BInv
    <3>3. Contents[r] = dram /\ Contents'[r] = dram'
      BY <1>2, <2>2 DEF Contents
    <3> QED
      BY <3>2, <3>3
  <2>3. CASE r # "dram"
    <3>1. Order[j] = "clint"
      BY <2>1, <2>3 DEF RegionsOf
    <3>2. clint' = C!NewClint(now)
      BY <3>1 DEF Mounted, Reset
    <3>3. r \in {"msip", "mtimecmp"}
      BY <1>3, <2>1, <2>3, RegionNames
    <3>4. /\ DOMAIN clint.msip = 0 .. 4 * Harts - 1
          /\ DOMAIN clint.mtimecmp = 0 .. 8 * Harts - 1
      BY DEF BInv, ClintOK, ClintType
    <3>5. clint'[r] = [k \in DOMAIN clint[r] |-> 0]
      <4>1. /\ clint'.msip = [k \in 0 .. 4 * Harts - 1 |-> 0]
            /\ clint'.mtimecmp = [k \in 0 .. 8 * Harts - 1 |-> 0]
        BY <3>2 DEF C!NewClint
      <4>2. CASE r = "msip"
        BY <3>4, <4>1, <4>2, Zenon
      <4>3. CASE r = "mtimecmp"
        BY <3>4, <4>1, <4>3, Zenon
      <4> QED
        BY <3>3, <4>2, <4>3
    <3>6. Contents[r] = clint[r] /\ Contents'[r] = clint'[r]
      BY <1>2, <2>3 DEF Contents
    <3> QED
      BY <3>5, <3>6
  <2> QED
    BY <2>2, <2>3
<1>4. Memory!Clear
  BY <1>1, <1>2, <1>3, Zenon DEF Memory!Clear
<1> QED
  BY <1>4 DEF Memory!Next

LEMMA ClockStep ==
  ASSUME BInv, NEW now, CallClint(now)
  PROVE  Memory!Next
<1>1. PICK x : clint' = [clint EXCEPT !.mtime = C!ToBytes(x, 8)]
  BY DEF CallClint, C!DoUpdateMtime, C!DoTick
<1>2. clint'.msip = clint.msip /\ clint'.mtimecmp = clint.mtimecmp
  BY <1>1, BytesDomain, SetMtime DEF BInv
<1>3. UNCHANGED <<dev_cnt_, dram, reply>>
  BY DEF CallClint
<1>4. DOMAIN Contents' = DOMAIN Contents
  BY <1>3 DEF Contents
<1>5. \A r \in DOMAIN Contents : r \in {"dram", "msip", "mtimecmp", "mtime"}
  BY ContentsFacts, RegionNames
<1>6. \A r \in DOMAIN Contents \ {"mtime"} : Contents'[r] = Contents[r]
  BY <1>2, <1>3, <1>4, <1>5, Zenon DEF Contents
<1> QED
  BY <1>3, <1>4, <1>6 DEF Memory!Next, Memory!Advance

LEMMA StepRefines ==
  ASSUME BInv, [Next]_vars
  PROVE  Memory!Next \/ UNCHANGED <<Contents, reply>>
<1>1. CASE \E acc \in session.accesses : Load(acc) \/ Store(acc)
  BY <1>1, LoadStep, StoreStep
<1>2. CASE \E now \in session.times : Reset(now) \/ CallClint(now)
  BY <1>2, ResetStep, ClockStep
<1>3. CASE CallPlic \/ CallUart
  BY <1>3, SameContents DEF CallPlic, CallUart
<1>4. CASE UNCHANGED vars
  BY <1>4, SameContents DEF vars
<1> QED
  BY <1>1, <1>2, <1>3, <1>4, MountStep DEF Next

\* The bus, which looks only at the first byte of an access, and the devices
\* behind it implement ByteMemory: for every layout without overlaps, every
\* size of the memory, number of harts and set of accesses, whatever is
\* mounted when.
THEOREM BusImplements == Spec => ImplementsByteMemory
<1>1. Init => Memory!Init
  BY DEF Init, Memory!Init
<1>2. BInv /\ [Next]_vars => [Memory!Next]_(Memory!vars)
  BY StepRefines DEF Memory!vars
<1> QED
  BY <1>1, <1>2, InitB, NextB, PTL DEF Spec, ImplementsByteMemory, Memory!Spec

-----------------------------------------------------------------------------
(* The types of all devices                                                *)

\* The number that a buffer holds, and the bytes of a number.
LEMMA HeldNumber ==
  ASSUME NEW n \in 0 .. 8, NEW buf \in [0 .. n - 1 -> Byte]
  PROVE  /\ Base^n \in Nat \ {0}
         /\ FromBytes(buf, n) \in 0 .. Base^n - 1
         /\ C!FromBytes(buf, n) \in 0 .. Base^n - 1
<1>1. Base \in Nat \ {0} /\ PowersOfBase
  BY BusAssumption DEF BusAssumption
<1>2. PICK P : P = [i \in 0 .. 8 |-> Base^i]
  BY Zenon
<1>3. Powers(P, Base, n) /\ P[n] = Base^n
  BY <1>1, <1>2, PowersOf, Zenon DEF PowersOfBase
<1>4. PICK f : f = CHOOSE g : ValueOf(buf, n, Base, g)
  OBVIOUS
<1>5. ValueOf(buf, n, Base, f)
  <2>1. n \in Nat
    OBVIOUS
  <2> QED
    BY <1>4, <2>1, ValueRuns, Zenon
<1>6. FromBytes(buf, n) = f[0] /\ C!FromBytes(buf, n) = f[0]
  BY <1>4, Zenon DEF FromBytes, C!FromBytes, ValueOf
<1>7. Byte = 0 .. Base - 1
  BY DEF Byte
<1>8. f[0] \in 0 .. P[n] - 1
  BY <1>1, <1>3, <1>5, <1>7, ValueBound
<1>9. P[n] \in Nat \ {0}
  BY <1>1, <1>3, PowersPositive
<1> QED
  BY <1>3, <1>6, <1>8, <1>9, Zenon

LEMMA FourBytes ==
  ASSUME NEW buf \in [0 .. 4 - 1 -> Byte]
  PROVE  FromBytes(buf, 4) \in Levels
<1>1. Base^4 \in Nat \ {0} /\ FromBytes(buf, 4) \in 0 .. Base^4 - 1
  BY HeldNumber
<1>2. Base^4 - 1 <= MaxPriority /\ MaxPriority \in Nat
  BY BusAssumption, PlicAssumption DEF BusAssumption, PlicAssumption
<1> QED
  BY <1>1, <1>2 DEF Levels

LEMMA ClockBytes ==
  ASSUME NEW x \in Nat
  PROVE  C!ToBytes(x, 8) \in [0 .. 7 -> Byte]
<1>1. Base \in Nat \ {0} /\ PowersOfBase
  BY BusAssumption DEF BusAssumption
<1>2. PICK P : P = [i \in 0 .. 8 |-> Base^i]
  BY Zenon
<1>3. Powers(P, Base, 8)
  BY <1>1, <1>2 DEF Powers, PowersOfBase
<1>4. \A i \in 0 .. 8 : P[i] \in Nat \ {0}
  BY <1>1, <1>3, PowersPositive
<1>5. ASSUME NEW i \in 0 .. 7 PROVE (x \div Base^i) % Base \in Byte
  <2>1. PICK q \in Int : q = x \div P[i]
    BY <1>4
  <2>2. q % Base \in Byte
    BY <1>1 DEF Byte
  <2> QED
    BY <1>2, <2>1, <2>2
<1>6. C!ToBytes(x, 8) = [i \in 0 .. 7 |-> (x \div Base^i) % Base]
  <2>1. 8 - 1 = 7
    OBVIOUS
  <2> QED
    BY <2>1 DEF C!ToBytes
<1> QED
  BY <1>5, <1>6

\* What the guest stores has the type of the register it goes to.
LEMMA UartStoreType ==
  ASSUME NEW acc, NEW at \in Int, acc.bytes \in {1, 2, 4, 8},
         acc.buf \in [0 .. acc.bytes - 1 -> Byte],
         NEW a, a = [addr |-> at, bytes |-> acc.bytes], NEW w \in T!Covers(a)
  PROVE  UartValue(w, acc.buf[T!UartReg[w] - at]) \in RegValues(Byte)[w]
<1>1. w \in {"rx_fifo", "tx_fifo", "status", "control"}
  BY DEF T!Covers, T!Words, T!UartReg
<1>2. PICK o \in Nat : o = T!UartReg[w]
  BY <1>1 DEF T!UartReg
<1>3. o - at \in 0 .. acc.bytes - 1
  BY <1>2 DEF T!Covers
<1>4. PICK b : b = acc.buf[o - at] /\ b \in Byte
  BY <1>3, Zenon
<1>5. CASE w \in {"rx_fifo", "tx_fifo"}
  <2>1. UartValue(w, b) = b
    BY <1>5 DEF UartValue, UartBits
  <2>2. RegValues(Byte)[w] = Byte
    BY <1>5 DEF RegValues
  <2> QED
    BY <1>2, <1>4, <2>1, <2>2, Zenon
<1>6. CASE w = "status"
  <2>1. UartValue(w, b) \subseteq {"TxFifoEmpty", "RxFifoValidData"}
    BY <1>6, Zenon DEF UartValue, UartBits
  <2> QED
    BY <1>2, <1>4, <1>6, <2>1, Zenon DEF RegValues, T!StatusBits
<1>7. CASE w = "control"
  <2>1. UartValue(w, b) \subseteq {"RstTx", "RstRx"}
    BY <1>7 DEF UartValue, UartBits
  <2> QED
    BY <1>2, <1>4, <1>7, <2>1, Zenon DEF RegValues, T!ControlBits
<1> QED
  BY <1>1, <1>5, <1>6, <1>7, Zenon

\* With BInv, the invariant that gives BusTypeOK.
RestInv ==
  /\ clint.mtime \in [0 .. 7 -> Byte]
  /\ plic \in PlicType
  /\ uart \in UartOf(Byte)

LEMMA ResetUartType ==
  ASSUME NEW u \in UartOf(Byte)
  PROVE  T!DoReset(u) \in UartOf(Byte)
<1>1. {"TxFifoEmpty"} \in SUBSET T!StatusBits
  BY DEF T!StatusBits
<1>2. PICK r : r = [u.reg EXCEPT !.status = {"TxFifoEmpty"}]
  BY Zenon
<1>3. r \in [rx_fifo : Byte, tx_fifo : Byte,
             status : SUBSET T!StatusBits, control : SUBSET T!ControlBits]
  BY <1>1, <1>2, Zenon DEF UartOf
<1>4. T!DoReset(u) = [u EXCEPT !.reg = r, !.wait_ack = FALSE, !.rx = <<>>, !.tx = <<>>]
  BY <1>2 DEF T!DoReset, UartOf
<1>5. <<>> \in Seq(Byte)
  OBVIOUS
<1> QED
  BY <1>3, <1>4, <1>5, Zenon DEF UartOf

LEMMA StoreMtime ==
  ASSUME NEW c, ClintOK(c), c.mtime \in [0 .. 7 -> Byte], NEW at, NEW n, NEW buf, NEW m,
         buf \in [0 .. m -> Byte], C!Mapped(at, n), NEW d, d = C!DoStore(c, at, buf, n)
  PROVE  d.mtime \in [0 .. 7 -> Byte]
<1>1. PICK f : f = C!FileOf(at, n)
  OBVIOUS
<1>2. PICK file : file = C!Patch(c[f], at - C!Files[f].base, buf)
  BY Zenon
<1>3. d = [c EXCEPT ![f] = IF f = "msip" THEN C!MaskMsip(file) ELSE file]
  BY <1>1, <1>2 DEF C!DoStore
<1>4. CASE f = "mtime"
  <2>1. file \in [0 .. 7 -> Byte]
    BY <1>2, <1>4, PatchType, Zenon
  <2> QED
    BY <1>3, <1>4, <2>1 DEF ClintOK, ClintType
<1>5. CASE f # "mtime"
  BY <1>3, <1>5 DEF ClintOK, ClintType
<1> QED
  BY <1>4, <1>5

LEMMA InitRest == Init => RestInv
<1> SUFFICES ASSUME Init PROVE RestInv
  OBVIOUS
<1>1. PICK now \in Nat : clint = C!NewClint(now)
  BY BusAssumption DEF Init, BusAssumption
<1>2. clint.mtime \in [0 .. 7 -> Byte]
  BY <1>1, ClockBytes DEF C!NewClint
<1> QED
  BY <1>2, ResetPlicType, NewUartType, Zero, Zenon DEF Init, RestInv

LEMMA LoadRest ==
  ASSUME BInv, RestInv, NEW acc \in session.accesses, Load(acc)
  PROVE  RestInv'
<1>1. CASE NoDevice(acc)
  BY <1>1, Zenon DEF NoDevice, devices, RestInv
<1>2. ASSUME NEW d, NEW at, LoadFrom(d, at, acc)
      PROVE  RestInv'
  <2>1. CASE d \in {"dram", "clint"}
    BY <1>2, <2>1, ZenonT(30) DEF LoadFrom, devices, RestInv
  <2>2. CASE d = "plic"
    <3>1. plic' = DoLoad(plic, RegisterAt(at)) /\ UNCHANGED <<clint, uart>>
      BY <1>2, <2>2 DEF LoadFrom
    <3> QED
      BY <3>1, LoadPlic, ZenonT(30) DEF RestInv
  <2>3. CASE d = "uart"
    <3>1. PICK a : uart' = T!DoLoad(uart, a) /\ UNCHANGED <<clint, plic>>
      BY <1>2, <2>3 DEF LoadFrom, UartLoadFrom
    <3> QED
      BY <3>1, LoadUart, ZenonT(30) DEF RestInv
  <2> QED
    BY <1>2, <2>1, <2>2, <2>3, ZenonT(30) DEF LoadFrom
<1> QED
  BY <1>1, <1>2 DEF Load

LEMMA StoreRest ==
  ASSUME BInv, RestInv, NEW acc \in session.accesses, Store(acc)
  PROVE  RestInv'
<1>1. acc.bytes \in {1, 2, 4, 8} /\ acc.buf \in [0 .. acc.bytes - 1 -> Byte]
  BY AccessFacts, Zenon DEF Store
<1>2. CASE NoDevice(acc)
  BY <1>2 DEF NoDevice, devices, RestInv
<1>3. CASE ~ NoDevice(acc)
  <2>1. PICK i, d, at : /\ i = GetDeviceByRange(acc.addr) /\ i # -1 /\ d = Order[i]
                        /\ at = acc.addr - Layout[d].base /\ StoreTo(d, at, acc)
    BY <1>3, Zenon DEF Store
  <2>2. InNode(d, acc.addr) /\ at \in Int
    BY <2>1, AnswerFacts, AccessFacts, SMTT(30)
  <2>3. CASE d = "dram"
    BY <2>1, <2>3, ZenonT(30) DEF StoreTo, RestInv
  <2>4. CASE d = "clint"
    <3>1. clint' = IF C!Mapped(at, acc.bytes)
                   THEN C!DoStore(clint, at, acc.buf, acc.bytes) ELSE clint
      BY <2>1, <2>4, ZenonT(30) DEF StoreTo
    <3>2. clint'.mtime \in [0 .. 7 -> Byte]
      BY <1>1, <3>1, StoreMtime, ZenonT(30) DEF BInv, RestInv
    <3> QED
      BY <2>1, <2>4, <3>2, ZenonT(30) DEF StoreTo, RestInv
  <2>5. CASE d = "plic"
    <3>1. acc.bytes = 4
      BY <2>2, <2>5, AccessFacts, BusAssumption, SMTT(30) DEF BusAssumption
    <3>2. PICK r, x, val : /\ r = RegisterAt(at) /\ x = FromBytes(acc.buf, 4) /\ val = FromWord(r, x)
                           /\ plic' = DoStore(plic, r, val)
      BY <2>1, <2>5, ZenonT(30) DEF StoreTo
    <3>3. x \in Levels
      BY <1>1, <3>1, <3>2, FourBytes
    <3>4. /\ r.reg \in {"pending", "enable"} => val \in SUBSET Bits
          /\ r.reg \in {"priority", "threshold"} => val \in Levels
      BY <3>2, <3>3, Zenon DEF FromWord, BitsOf
    <3>5. plic' \in PlicType
      BY <3>2, <3>4, StorePlic, Zenon DEF RestInv
    <3> QED
      BY <2>1, <2>5, <3>5, ZenonT(30) DEF StoreTo, RestInv
  <2>6. CASE d = "uart"
    <3>1. PICK a, val : /\ a = [addr |-> at, bytes |-> acc.bytes]
                        /\ val = [w \in T!Covers(a) |-> UartValue(w, acc.buf[T!UartReg[w] - at])]
                        /\ uart' = T!DoStore(uart, a, val)
      BY <2>1, <2>6, ZenonT(30) DEF StoreTo, UartStoreTo
    <3>2. \A w \in T!Covers(a) : val[w] \in RegValues(Byte)[w]
      BY <1>1, <2>2, <3>1, UartStoreType, ZenonT(30)
    <3>3. uart' \in UartOf(Byte)
      BY <3>1, <3>2, StoreUart DEF RestInv
    <3> QED
      BY <2>1, <2>6, <3>3, Zenon DEF StoreTo, RestInv
  <2> QED
    BY <2>1, <2>3, <2>4, <2>5, <2>6, ZenonT(30) DEF StoreTo
<1> QED
  BY <1>2, <1>3, Zenon

LEMMA NextRest ==
  ASSUME BInv, RestInv, [Next]_vars
  PROVE  RestInv'
<1>1. CASE MountDevice
  BY <1>1 DEF MountDevice, devices, RestInv
<1>2. CASE \E acc \in session.accesses : Load(acc) \/ Store(acc)
  BY <1>2, LoadRest, StoreRest, Zenon
<1>3. \A now \in session.times : now \in Nat
  BY BusAssumption DEF BusAssumption, BInv
<1>4. ASSUME NEW now \in session.times, Reset(now)
      PROVE  RestInv'
  <2>1. clint'.mtime \in [0 .. 7 -> Byte]
    BY <1>3, <1>4, ClockBytes DEF Reset, RestInv, C!NewClint
  <2>2. plic' \in PlicType
    BY <1>4, ResetPlicType DEF Reset, RestInv
  <2>3. uart' \in UartOf(Byte)
    BY <1>4, ResetUartType, Zenon DEF Reset, RestInv
  <2> QED
    BY <2>1, <2>2, <2>3 DEF RestInv
<1>5. ASSUME NEW now \in session.times, CallClint(now)
      PROVE  RestInv'
  <2>1. PICK x \in Nat : clint' = [clint EXCEPT !.mtime = C!ToBytes(x, 8)]
    <3>1. CASE clint' = C!DoUpdateMtime(clint, now)
      BY <1>3, <3>1 DEF C!DoUpdateMtime
    <3>2. CASE clint' = C!DoTick(clint)
      <4>1. clint.mtime \in [0 .. 8 - 1 -> Byte]
        BY DEF RestInv
      <4>2. Base^8 \in Nat \ {0} /\ C!FromBytes(clint.mtime, 8) \in 0 .. Base^8 - 1
        BY <4>1, HeldNumber
      <4>3. (C!FromBytes(clint.mtime, 8) + 1) % Base^8 \in Nat
        BY <4>2
      <4> QED
        BY <3>2, <4>3 DEF C!DoTick
    <3> QED
      BY <1>5, <3>1, <3>2 DEF CallClint
  <2>2. clint'.mtime = C!ToBytes(x, 8)
    BY <2>1 DEF BInv, ClintOK, ClintType
  <2> QED
    BY <1>5, <2>2, ClockBytes DEF CallClint, RestInv
<1>6. CASE CallPlic
  <2>1. ASSUME NEW src \in Sources, NEW fired \in BOOLEAN, plic' = DoUpdateExt(plic, src, fired)
        PROVE  plic' \in PlicType
    BY <2>1, UpdateExtPlic DEF RestInv
  <2>2. ASSUME NEW c \in Contexts, plic' = DoGetInterrupt(plic, c)
        PROVE  plic' \in PlicType
    <3>1. Scan(plic, c) \in Sources
      BY ScanEligible
    <3>2. PICK x : x = [plic.ctx[c] EXCEPT !.claim = Scan(plic, c)]
      BY Zenon
    <3>3. x \in CtxType
      BY <3>1, <3>2 DEF RestInv, PlicType, CtxType
    <3>4. plic' = [plic EXCEPT !.ctx[c] = x]
      BY <2>2, <3>2 DEF DoGetInterrupt, RestInv, PlicType
    <3> QED
      BY <3>3, <3>4, SetContext DEF RestInv
  <2> QED
    BY <1>6, <2>1, <2>2 DEF CallPlic, RestInv
<1>7. CASE CallUart
  <2>1. 1 \in Byte
    BY Zero
  <2>2. uart' \in UartOf(Byte)
    BY <1>7, <2>1, PutcUart, GetcUart, Zenon DEF CallUart, RestInv, T!TxBufferNotEmpty
  <2> QED
    BY <1>7, <2>2, Zenon DEF CallUart, RestInv
<1>8. CASE UNCHANGED vars
  BY <1>8 DEF vars, RestInv
<1> QED
  BY <1>1, <1>2, <1>4, <1>5, <1>6, <1>7, <1>8, ZenonT(30) DEF Next

\* Every device holds values of its types, whatever the guest stores where
\* and whatever main does to the devices behind the bus: the loop at the end
\* of Clint::Store leaves 0 or 1 in every word of msip after a store of any
\* width, for any number of harts.
THEOREM DevicesTyped == Spec => []BusTypeOK
<1>1. BInv /\ RestInv => BusTypeOK
  <2> SUFFICES ASSUME BInv, RestInv PROVE BusTypeOK
    OBVIOUS
  <2>1. C!Byte = Byte
    BY DEF C!Byte, Byte
  <2>2. \A i \in DOMAIN clint.msip : clint.msip[i] > 0 => i % 4 = 0 /\ clint.msip[i] = 1
    <3>1. clint.msip \in [0 .. 4 * Harts - 1 -> 0 .. 1]
      BY DEF BInv, ClintOK, ClintType
    <3>2. \A i \in 0 .. 4 * Harts - 1 : i % 4 # 0 => clint.msip[i] = 0
      BY DEF BInv, ClintOK, FlagsMasked
    <3>3. SUFFICES ASSUME NEW i \in 0 .. 4 * Harts - 1, clint.msip[i] > 0
                   PROVE  i % 4 = 0 /\ clint.msip[i] = 1
      BY <3>1, Zenon
    <3>4. PICK x \in 0 .. 1 : x = clint.msip[i] /\ x > 0
      BY <3>1, <3>3, ZenonT(30)
    <3> QED
      BY <3>2, <3>4
  <2>3. clint.msip \in [0 .. 4 * Harts - 1 -> Byte]
    <3>1. 0 .. 1 \subseteq Byte
      BY Zero, Zenon
    <3> QED
      BY <3>1 DEF BInv, ClintOK, ClintType
  <2>4. C!IsClint(clint)
    BY <2>1, <2>2, <2>3, Zenon DEF C!IsClint, BInv, ClintOK, ClintType, RestInv
  <2> QED
    BY <2>4, Zenon DEF BusTypeOK, BInv, RestInv, PlicTypeOK, UartOf
<1>2. Init => BInv /\ RestInv
  BY InitB, InitRest
<1>3. BInv /\ RestInv /\ [Next]_vars => (BInv /\ RestInv)'
  BY NextB, NextRest
<1> QED
  BY <1>1, <1>2, <1>3, PTL DEF Spec

\* GetInterrupt finds the best source in every state that the guest and main
\* bring the registers of the controller to.
THEOREM BusScanIsBest == Spec => []ScanIsBest
<1>1. BusTypeOK => ScanIsBest
  BY ScanFindsBest DEF BusTypeOK
<1> QED
  BY <1>1, DevicesTyped, PTL
=============================================================================
