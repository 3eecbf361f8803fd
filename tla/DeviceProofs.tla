----------------------------- MODULE DeviceProofs ---------------------------
(***************************************************************************)
(* The devices that Emulator and Bus share.  The loop of GetInterrupt in   *)
(* src/device/plic.cc for every number of sources, every priority and      *)
(* every threshold, and what each operation does to the registers of the   *)
(* controller and to the queues of the serial port.                        *)
(***************************************************************************)
EXTENDS Plic, Serial, Sequences, TLAPS, WellFoundedInduction

\* Every set of numbers that is not empty has a least one.
LEMMA NatMin ==
  ASSUME NEW S, S \subseteq Nat, S # {}
  PROVE  \E x \in S : \A y \in S : x <= y
<1> DEFINE R == OpToRel(<, Nat)
<1>1. IsWellFoundedOn(R, Nat)
  BY NatLessThanWellFounded
<1>2. PICK x \in S : \A y \in S : ~ (<<y, x>> \in R)
  <2> HIDE DEF R
  <2> QED
    BY <1>1, WFMin
<1>3. ASSUME NEW y \in S PROVE x <= y
  <2>1. ~ (<<y, x>> \in R)
    BY <1>2
  <2>2. <<y, x>> \in Nat \X Nat
    OBVIOUS
  <2>3. ~ (y < x)
    BY <2>1, <2>2 DEF OpToRel
  <2> QED
    BY <2>3
<1> QED
  BY <1>3

\* The body of the loop: what it makes of <<max_priority, best_interrupt>>.
Body(p, c, n, prev) ==
  IF Eligible(p, c, n) /\ prev[1] < p.priority[n] THEN <<p.priority[n], n>> ELSE prev

\* g holds the two variables of the loop after each source up to k.
LoopUpTo(p, c, k, g) ==
  g = [n \in -1 .. k |-> IF n = -1 THEN <<0, 0>> ELSE Body(p, c, n, g[n - 1])]

\* The loop can be run over any number of sources.
LEMMA LoopRuns ==
  ASSUME NEW p, NEW c, NEW k \in Nat
  PROVE  \E g : LoopUpTo(p, c, k, g)
<1> DEFINE Stuck == {j \in Nat : ~ \E g : LoopUpTo(p, c, j, g)}
<1>1. SUFFICES ASSUME Stuck # {} PROVE FALSE
  OBVIOUS
<1>2. PICK j \in Stuck : \A i \in Stuck : j <= i
  BY <1>1, NatMin
<1>3. PICK g : LoopUpTo(p, c, j - 1, g)
  <2>1. CASE j = 0
    <3>1. -1 .. j - 1 = {-1}
      BY <2>1
    <3> DEFINE g == [n \in {-1} |-> <<0, 0>>]
    <3>2. LoopUpTo(p, c, j - 1, g)
      BY <3>1 DEF LoopUpTo
    <3> QED
      BY <3>2
  <2>2. CASE j # 0
    <3>1. j - 1 \in Nat /\ j - 1 < j
      BY <2>2
    <3>2. j - 1 \notin Stuck
      BY <1>2, <3>1
    <3> QED
      BY <3>1, <3>2
  <2> QED
    BY <2>1, <2>2
<1> DEFINE h == [n \in -1 .. j |-> IF n = j THEN Body(p, c, j, g[j - 1]) ELSE g[n]]
<1>4. LoopUpTo(p, c, j, h)
  <2>1. ASSUME NEW n \in -1 .. j
        PROVE  h[n] = IF n = -1 THEN <<0, 0>> ELSE Body(p, c, n, h[n - 1])
    <3>1. CASE n = -1
      BY <1>3, <3>1 DEF LoopUpTo
    <3>2. CASE n # -1
      <4>1. n - 1 \in -1 .. j - 1 /\ h[n - 1] = g[n - 1]
        BY <3>2
      <4>2. CASE n = j
        BY <3>2, <4>1, <4>2
      <4>3. CASE n # j
        <5>1. n \in -1 .. j - 1
          BY <4>3
        <5>2. h[n] = g[n]
          BY <4>3
        <5>3. g[n] = Body(p, c, n, g[n - 1])
          BY <1>3, <3>2, <5>1 DEF LoopUpTo
        <5> QED
          BY <3>2, <4>1, <5>2, <5>3
      <4> QED
        BY <4>2, <4>3
    <3> QED
      BY <3>1, <3>2
  <2> QED
    BY <2>1 DEF LoopUpTo
<1> QED
  BY <1>2, <1>4

\* Scan is the loop over all sources.
LEMMA ScanIsLoop ==
  ASSUME NEW p, NEW c
  PROVE  \E g : /\ LoopUpTo(p, c, Devices, g)
                /\ Scan(p, c) = g[Devices][2]
<1> DEFINE f == CHOOSE f : LoopUpTo(p, c, Devices, f)
<1>1. LoopUpTo(p, c, Devices, f)
  BY LoopRuns, PlicAssumption DEF PlicAssumption
<1>2. Scan(p, c) = f[Devices][2]
  BY DEF Scan, LoopUpTo, Body
<1> QED
  BY <1>1, <1>2
\* Whatever the registers hold, an interrupt that the loop finds is one that
\* may be taken.
LEMMA ScanEligible ==
  ASSUME NEW p, NEW c, NEW i, i = Scan(p, c)
  PROVE  i \in Sources /\ (i # 0 => Eligible(p, c, i))
<1>0. Devices \in Nat
  BY PlicAssumption DEF PlicAssumption
<1>1. PICK g : LoopUpTo(p, c, Devices, g) /\ i = g[Devices][2]
  BY ScanIsLoop
<1> DEFINE Good(x) == x[2] \in Sources /\ (x[2] # 0 => Eligible(p, c, x[2]))
           Bad == {m \in Nat : m - 1 <= Devices /\ ~ Good(g[m - 1])}
<1>2. Bad = {}
  <2>1. SUFFICES ASSUME Bad # {} PROVE FALSE
    OBVIOUS
  <2>2. PICK m \in Bad : \A j \in Bad : m <= j
    BY <2>1, NatMin
  <2>3. m # 0
    <3>1. g[-1] = <<0, 0>>
      <4>1. -1 \in -1 .. Devices
        BY <1>0
      <4> QED
        BY <1>1, <4>1 DEF LoopUpTo
    <3>2. Good(g[-1])
      BY <1>0, <3>1 DEF Sources
    <3> QED
      BY <2>2, <3>2
  <2>4. m - 1 \in Nat /\ m - 1 < m /\ m - 1 <= Devices
    BY <2>2, <2>3
  <2>5. Good(g[m - 2])
    <3>1. m - 1 \notin Bad /\ m - 2 = (m - 1) - 1 /\ m - 2 <= Devices
      BY <1>0, <2>2, <2>4
    <3> QED
      BY <2>4, <3>1
  <2>6. g[m - 1] = Body(p, c, m - 1, g[m - 2])
    <3>1. m - 1 \in -1 .. Devices /\ m - 1 # -1 /\ (m - 1) - 1 = m - 2
      BY <1>0, <2>4
    <3> QED
      BY <1>1, <3>1 DEF LoopUpTo
  <2>7. m - 1 \in Sources
    BY <1>0, <2>4 DEF Sources
  <2>8. Good(g[m - 1])
    BY <2>5, <2>6, <2>7 DEF Body
  <2> QED
    BY <2>2, <2>8
<1>3. Devices + 1 \in Nat /\ (Devices + 1) - 1 = Devices /\ Devices <= Devices
  BY <1>0
<1>4. Good(g[Devices])
  BY <1>2, <1>3
<1> QED
  BY <1>1, <1>4

\* What max_priority and best_interrupt, x, are after source n: nothing yet,
\* or the best of the candidates so far.
BestUpTo(p, c, n, x) ==
  \/ /\ x[1] = 0 /\ x[2] = 0
     /\ \A j \in Candidates(p, c) : j > n
  \/ /\ x[2] \in Candidates(p, c) /\ x[2] <= n
     /\ x[1] = p.priority[x[2]]
     /\ \A j \in Candidates(p, c) :
          j <= n => \/ p.priority[j] < x[1]
                    \/ p.priority[j] = x[1] /\ x[2] <= j

LEMMA BodyKeepsBest ==
  ASSUME NEW p \in PlicType, NEW c, NEW n \in Sources, NEW x, NEW y,
         BestUpTo(p, c, n - 1, x), y = Body(p, c, n, x)
  PROVE  BestUpTo(p, c, n, y)
<1>1. /\ \A j \in Candidates(p, c) : /\ j \in Sources /\ j \in Int
                                     /\ p.priority[j] \in Nat /\ p.priority[j] > 0
      /\ n \in Int /\ p.priority[n] \in Nat
  <2>1. p.priority \in [Sources -> Levels]
    BY DEF PlicType
  <2>2. Sources \subseteq Int /\ Levels \subseteq Nat
    BY PlicAssumption DEF PlicAssumption, Sources, Levels
  <2>3. \A j \in Sources : p.priority[j] \in Nat
    BY <2>1, <2>2
  <2> QED
    BY <2>2, <2>3 DEF Candidates
<1>2. x[1] \in Nat
  BY <1>1 DEF BestUpTo
<1>3. CASE Eligible(p, c, n) /\ x[1] < p.priority[n]
  <2>1. y = <<p.priority[n], n>> /\ n \in Candidates(p, c)
    BY <1>1, <1>2, <1>3 DEF Body, Candidates, Eligible
  <2>2. \A j \in Candidates(p, c) : j <= n - 1 => p.priority[j] <= x[1]
    BY <1>1, <1>2 DEF BestUpTo
  <2>3. y[1] = p.priority[n] /\ y[2] = n
    BY <2>1
  <2>4. ASSUME NEW j \in Candidates(p, c), j <= n
        PROVE  p.priority[j] < p.priority[n] \/ j = n
    BY <1>1, <1>2, <1>3, <2>2, <2>4
  <2> QED
    BY <1>1, <2>1, <2>3, <2>4 DEF BestUpTo
<1>4. CASE ~ (Eligible(p, c, n) /\ x[1] < p.priority[n])
  <2>1. y = x
    BY <1>4 DEF Body
  <2>2. n \in Candidates(p, c) => p.priority[n] <= x[1]
    BY <1>1, <1>2, <1>4 DEF Candidates, Eligible
  <2>3. CASE x[1] = 0 /\ x[2] = 0 /\ \A j \in Candidates(p, c) : j > n - 1
    <3>1. n \notin Candidates(p, c)
      BY <1>1, <2>2, <2>3
    <3> QED
      BY <1>1, <2>1, <2>3, <3>1 DEF BestUpTo
  <2>4. CASE ~ (x[1] = 0 /\ x[2] = 0 /\ \A j \in Candidates(p, c) : j > n - 1)
    BY <1>1, <1>2, <2>1, <2>2, <2>4 DEF BestUpTo
  <2> QED
    BY <2>3, <2>4
<1> QED
  BY <1>3, <1>4
\* Only one candidate is best, so CHOOSE in Best takes it.
LEMMA BestUnique ==
  ASSUME NEW p \in PlicType, NEW c, NEW i \in Candidates(p, c),
         \A j \in Candidates(p, c) : \/ p.priority[j] < p.priority[i]
                                     \/ p.priority[j] = p.priority[i] /\ i <= j
  PROVE  Best(p, c) = i
<1> DEFINE IsBest(k) == \A j \in Candidates(p, c) :
                          \/ p.priority[j] < p.priority[k]
                          \/ p.priority[j] = p.priority[k] /\ k <= j
           b == CHOOSE k \in Candidates(p, c) : IsBest(k)
<1>1. b \in Candidates(p, c) /\ IsBest(b)
  OBVIOUS
<1>2. Best(p, c) = b
  BY DEF Best
<1>3. /\ p.priority[b] \in Int /\ p.priority[i] \in Int /\ b \in Int /\ i \in Int
  <2>1. p.priority \in [Sources -> Levels]
    BY DEF PlicType
  <2>2. Sources \subseteq Int /\ Levels \subseteq Int
    BY PlicAssumption DEF PlicAssumption, Sources, Levels
  <2>3. b \in Sources /\ i \in Sources
    BY <1>1 DEF Candidates
  <2> QED
    BY <2>1, <2>2, <2>3
<1> HIDE DEF b
<1>4. b = i
  BY <1>1, <1>3
<1> QED
  BY <1>2, <1>4

\* The one pass of GetInterrupt finds the first of the eligible sources with
\* the highest priority, from every state of the registers.
THEOREM ScanFindsBest == PlicTypeOK => ScanIsBest
<1>1. SUFFICES ASSUME NEW p \in PlicType, NEW c \in Contexts
               PROVE  Scan(p, c) = Best(p, c)
  BY DEF PlicTypeOK, ScanIsBest
<1>2. Devices \in Nat
  BY PlicAssumption DEF PlicAssumption
<1>3. PICK g : LoopUpTo(p, c, Devices, g) /\ Scan(p, c) = g[Devices][2]
  BY ScanIsLoop
<1> DEFINE Bad == {m \in Nat : m - 1 <= Devices /\ ~ BestUpTo(p, c, m - 1, g[m - 1])}
<1>4. Bad = {}
  <2>1. SUFFICES ASSUME Bad # {} PROVE FALSE
    OBVIOUS
  <2>2. PICK m \in Bad : \A j \in Bad : m <= j
    BY <2>1, NatMin
  <2>3. m # 0
    <3>1. -1 \in -1 .. Devices
      BY <1>2
    <3>2. g[-1] = <<0, 0>>
      BY <1>3, <3>1 DEF LoopUpTo
    <3>3. \A j \in Candidates(p, c) : j > -1
      BY <1>2 DEF Candidates, Sources
    <3>4. BestUpTo(p, c, -1, g[-1])
      BY <3>2, <3>3 DEF BestUpTo
    <3> QED
      BY <2>2, <3>4
  <2>4. m - 1 \in Sources /\ m - 1 < m
    BY <1>2, <2>2, <2>3 DEF Sources
  <2>5. BestUpTo(p, c, (m - 1) - 1, g[(m - 1) - 1])
    <3>1. m - 1 \in Nat /\ m - 1 \notin Bad /\ (m - 1) - 1 <= Devices
      BY <1>2, <2>2, <2>4 DEF Sources
    <3> QED
      BY <3>1
  <2>6. g[m - 1] = Body(p, c, m - 1, g[(m - 1) - 1])
    <3>1. m - 1 \in -1 .. Devices /\ m - 1 # -1
      BY <1>2, <2>4 DEF Sources
    <3> QED
      BY <1>3, <3>1 DEF LoopUpTo
  <2>7. BestUpTo(p, c, m - 1, g[m - 1])
    BY <2>4, <2>5, <2>6, BodyKeepsBest
  <2> QED
    BY <2>2, <2>7
<1>5. BestUpTo(p, c, Devices, g[Devices])
  <2>1. Devices + 1 \in Nat /\ (Devices + 1) - 1 = Devices /\ Devices <= Devices
    BY <1>2
  <2> QED
    BY <1>4, <2>1
<1>6. \A j \in Candidates(p, c) : j \in 0 .. Devices
  BY DEF Candidates, Sources
<1>7. CASE Candidates(p, c) = {}
  BY <1>3, <1>5, <1>7 DEF BestUpTo, Best
<1>8. CASE Candidates(p, c) # {}
  <2>1. PICK i : i = g[Devices][2]
    OBVIOUS
  <2>2. /\ i \in Candidates(p, c)
        /\ \A j \in Candidates(p, c) : \/ p.priority[j] < p.priority[i]
                                       \/ p.priority[j] = p.priority[i] /\ i <= j
    BY <1>2, <1>5, <1>6, <1>8, <2>1 DEF BestUpTo
  <2> QED
    BY <1>3, <2>1, <2>2, BestUnique
<1> QED
  BY <1>7, <1>8

-----------------------------------------------------------------------------
(* The interrupt controller                                                *)

CtxType == [claim : Sources, threshold : Levels,
            enable : SUBSET Bits, claimed : SUBSET Sources]

\* The sources that a context has claimed and not completed.
Claimed(p, c) == p.ctx[c].claimed

LEMMA ResetPlicType == ResetPlic \in PlicType /\ \A c \in Contexts : Claimed(ResetPlic, c) = {}
<1>1. 0 \in Sources /\ 0 \in Levels
  BY PlicAssumption DEF PlicAssumption, Sources, Levels
<1> QED
  BY <1>1 DEF ResetPlic, PlicType, Claimed

LEMMA UpdateExtPlic ==
  ASSUME NEW p \in PlicType, NEW src \in Sources, NEW fired \in BOOLEAN,
         NEW q, q = DoUpdateExt(p, src, fired)
  PROVE  q \in PlicType /\ q.ctx = p.ctx
<1>1. Sources \subseteq Bits
  BY PlicAssumption DEF PlicAssumption, Sources, Bits
<1> QED
  BY <1>1 DEF DoUpdateExt, PlicType

LEMMA SetContext ==
  ASSUME NEW p \in PlicType, NEW d \in Contexts, NEW x \in CtxType,
         NEW q, q = [p EXCEPT !.ctx[d] = x]
  PROVE  /\ q \in PlicType
         /\ \A c \in Contexts : Claimed(q, c) = IF c = d THEN x.claimed ELSE Claimed(p, c)
BY Zenon DEF PlicType, CtxType, Claimed

\* A load changes claimed only by the claim that it reads.
LEMMA LoadPlic ==
  ASSUME NEW p \in PlicType, NEW r
  PROVE  /\ DoLoad(p, r) \in PlicType
         /\ \A c \in Contexts :
              Claimed(DoLoad(p, r), c) =
                              IF r.reg = "claim" /\ r.at = c
                              THEN Claimed(p, c) \cup {p.ctx[c].claim} ELSE Claimed(p, c)
<1>0. PICK q : q = DoLoad(p, r)
  OBVIOUS
<1>1. CASE Exists(r) /\ r.reg = "claim"
  <2>1. PICK d \in Contexts : d = r.at
    BY <1>1 DEF Exists
  <2>2. PICK x : x = [p.ctx[d] EXCEPT !.claimed = @ \cup {p.ctx[d].claim}]
    BY Zenon
  <2>3. x \in CtxType /\ x.claimed = Claimed(p, d) \cup {p.ctx[d].claim}
    BY <2>2 DEF PlicType, CtxType, Claimed
  <2>4. q = [p EXCEPT !.ctx[d] = x]
    BY <1>0, <1>1, <2>1, <2>2 DEF DoLoad, PlicType
  <2>5. q \in PlicType /\ \A c \in Contexts : Claimed(q, c) = IF c = d THEN x.claimed ELSE Claimed(p, c)
    <3>1. x \in CtxType
      BY <2>3
    <3>2. q = [p EXCEPT !.ctx[d] = x]
      BY <2>4
    <3> QED
      BY <3>1, <3>2, Zenon DEF PlicType, CtxType, Claimed
  <2> QED
    BY <1>0, <1>1, <2>1, <2>3, <2>5
<1>2. CASE ~ (Exists(r) /\ r.reg = "claim")
  <2>1. q = p
    BY <1>0, <1>2 DEF DoLoad
  <2>2. r.reg = "claim" => r.at \notin Contexts
    BY <1>2 DEF Exists
  <2> QED
    BY <1>0, <2>1, <2>2
<1> QED
  BY <1>1, <1>2

\* A store takes from claimed the completed source and nothing else.
LEMMA StorePlic ==
  ASSUME NEW p \in PlicType, NEW r, NEW val,
         r.reg \in {"pending", "enable"} => val \in SUBSET Bits,
         r.reg \in {"priority", "threshold"} => val \in Levels
  PROVE  /\ DoStore(p, r, val) \in PlicType
         /\ \A c \in Contexts :
              Claimed(DoStore(p, r, val), c) =
                              IF r.reg = "claim" /\ r.at = c
                              THEN Claimed(p, c) \ {val} ELSE Claimed(p, c)
<1>0. PICK q : q = DoStore(p, r, val)
  OBVIOUS
<1>1. CASE ~ Exists(r)
  <2>1. q = p
    BY <1>0, <1>1 DEF DoStore
  <2>2. r.reg = "claim" => r.at \notin Contexts
    BY <1>1 DEF Exists
  <2> QED
    BY <1>0, <2>1, <2>2
<1>2. CASE Exists(r) /\ r.reg = "priority"
  BY <1>0, <1>2 DEF DoStore, Exists, PlicType, Claimed
<1>3. CASE Exists(r) /\ r.reg = "pending"
  <2>1. q = [p EXCEPT !.pending = val] /\ val \in SUBSET Bits
    BY <1>0, <1>3 DEF DoStore
  <2> QED
    BY <1>0, <1>3, <2>1 DEF PlicType, Claimed
<1>4. CASE Exists(r) /\ r.reg \in {"enable", "threshold", "claim"}
  <2>1. PICK d \in Contexts : d = r.at
    BY <1>4 DEF Exists
  <2>2. PICK x : x = CASE r.reg = "enable" -> [p.ctx[d] EXCEPT !.enable = val]
                       [] r.reg = "threshold" -> [p.ctx[d] EXCEPT !.threshold = val]
                       [] r.reg = "claim" -> [p.ctx[d] EXCEPT !.claimed = @ \ {val}]
    BY Zenon
  <2>3. p.ctx[d] \in CtxType
    BY DEF PlicType, CtxType
  <2>4. /\ x \in CtxType
        /\ x.claimed = IF r.reg = "claim" THEN Claimed(p, d) \ {val} ELSE Claimed(p, d)
    <3>1. CASE r.reg = "enable"
      <4>1. x = [p.ctx[d] EXCEPT !.enable = val] /\ val \in SUBSET Bits
        BY <2>2, <3>1
      <4> QED BY <2>3, <3>1, <4>1 DEF CtxType, Claimed
    <3>2. CASE r.reg = "threshold"
      <4>1. x = [p.ctx[d] EXCEPT !.threshold = val] /\ val \in Levels
        BY <2>2, <3>2
      <4> QED BY <2>3, <3>2, <4>1 DEF CtxType, Claimed
    <3>3. CASE r.reg = "claim"
      <4>1. x = [p.ctx[d] EXCEPT !.claimed = p.ctx[d].claimed \ {val}]
        BY <2>2, <3>3
      <4> QED BY <2>3, <3>3, <4>1 DEF CtxType, Claimed
    <3> QED BY <1>4, <3>1, <3>2, <3>3
  <2>5. q = [p EXCEPT !.ctx[d] = x]
    <3>1. CASE r.reg = "enable" BY <1>0, <1>4, <2>1, <2>2, <3>1 DEF DoStore, PlicType
    <3>2. CASE r.reg = "threshold" BY <1>0, <1>4, <2>1, <2>2, <3>2 DEF DoStore, PlicType
    <3>3. CASE r.reg = "claim" BY <1>0, <1>4, <2>1, <2>2, <3>3 DEF DoStore, PlicType
    <3> QED BY <1>4, <3>1, <3>2, <3>3
  <2>6. q \in PlicType /\ \A c \in Contexts : Claimed(q, c) = IF c = d THEN x.claimed ELSE Claimed(p, c)
    BY <2>4, <2>5, SetContext
  <2> QED
    BY <1>0, <1>4, <2>1, <2>4, <2>6
<1>5. Exists(r) => r.reg \in {"priority", "pending", "enable", "threshold", "claim"}
  BY DEF Exists
<1> QED
  BY <1>1, <1>2, <1>3, <1>4, <1>5

-----------------------------------------------------------------------------
(* Queues                                                                  *)

LEMMA MoveHead ==
  ASSUME NEW S, NEW a \in Seq(S), NEW b \in Seq(S), b # <<>>
  PROVE  /\ Append(a, Head(b)) \o Tail(b) = a \o b
         /\ Head(b) \in S /\ Tail(b) \in Seq(S)
OBVIOUS

-----------------------------------------------------------------------------
(* The serial port                                                         *)

UartOf(Ch) ==
  [ reg : [rx_fifo : Ch, tx_fifo : Ch,
           status : SUBSET T!StatusBits, control : SUBSET T!ControlBits],
    rx : Seq(Ch), tx : Seq(Ch), wait_ack : BOOLEAN ]

\* What the low byte of each word may hold.
RegValues(Ch) ==
  [ rx_fifo |-> Ch, tx_fifo |-> Ch,
    status |-> SUBSET T!StatusBits, control |-> SUBSET T!ControlBits ]

LEMMA NewUartType ==
  ASSUME NEW Ch, 0 \in Ch
  PROVE  T!NewUart \in UartOf(Ch)
<1>1. {"TxFifoEmpty"} \in SUBSET T!StatusBits /\ {} \in SUBSET T!ControlBits
  BY DEF T!StatusBits
<1> QED
  BY <1>1 DEF T!NewUart, UartOf

LEMMA RefreshType ==
  ASSUME NEW Ch, NEW u \in UartOf(Ch)
  PROVE  /\ T!Refresh(u) \in [rx_fifo : Ch, tx_fifo : Ch,
                              status : SUBSET T!StatusBits, control : SUBSET T!ControlBits]
         /\ u.rx # <<>> => T!Refresh(u).rx_fifo = Head(u.rx)
<1>1. u.rx # <<>> => Head(u.rx) \in Ch
  BY DEF UartOf
<1> QED
  BY <1>1, Zenon DEF UartOf, T!Refresh, T!StatusBits

\* A load pops the head of rx when it touches rx_fifo, changes rx in no other
\* way, and leaves tx alone.
LEMMA LoadUart ==
  ASSUME NEW Ch, NEW u \in UartOf(Ch), NEW a, NEW v, v = T!DoLoad(u, a)
  PROVE  /\ v \in UartOf(Ch)
         /\ v.rx = IF T!InRange(a) /\ T!Touches(a, "rx_fifo") /\ u.rx # <<>>
                   THEN Tail(u.rx) ELSE u.rx
         /\ v.tx = u.tx
<1>1. CASE ~ T!InRange(a)
  BY <1>1 DEF T!DoLoad
<1>2. CASE T!InRange(a)
  <2>1. PICK r, q : /\ r = T!Refresh(u)
                    /\ q = IF T!Touches(a, "rx_fifo") /\ u.rx # <<>> THEN Tail(u.rx) ELSE u.rx
    BY Zenon
  <2>2. q \in Seq(Ch)
    BY <2>1, MoveHead DEF UartOf
  <2>3. v = [u EXCEPT !.reg = r, !.wait_ack = FALSE, !.rx = q]
    BY <1>2, <2>1 DEF T!DoLoad, UartOf
  <2>4. r \in [rx_fifo : Ch, tx_fifo : Ch,
                status : SUBSET T!StatusBits, control : SUBSET T!ControlBits]
    BY <2>1, RefreshType
  <2> QED
    BY <1>2, <2>1, <2>2, <2>3, <2>4, ZenonT(40) DEF UartOf
<1> QED
  BY <1>1, <1>2

\* A store leaves rx as it is, or empties it.
LEMMA StoreUart ==
  ASSUME NEW Ch, NEW u \in UartOf(Ch), NEW a, NEW val, NEW v, v = T!DoStore(u, a, val),
         \A w \in T!Covers(a) : val[w] \in RegValues(Ch)[w]
  PROVE  /\ v \in UartOf(Ch) /\ v.rx \in {<<>>, u.rx}
         /\ ~ T!Touches(a, "control") => v.rx = u.rx
         /\ v.wait_ack = u.wait_ack
<1>1. CASE ~ T!InRange(a)
  BY <1>1 DEF T!DoStore
<1>2. CASE T!InRange(a)
  <2>1. PICK reg : reg = [w \in T!Words |-> IF w \in T!Covers(a) THEN val[w] ELSE u.reg[w]]
    BY Zenon
  <2>2. PICK tx : tx = IF T!Touches(a, "tx_fifo") THEN Append(u.tx, reg.tx_fifo) ELSE u.tx
    BY Zenon
  <2>3. PICK cmd : cmd = IF T!Touches(a, "control") THEN reg.control ELSE {}
    BY Zenon
  <2>4. PICK t, q : /\ t = IF "RstTx" \in cmd THEN <<>> ELSE tx
                    /\ q = IF "RstRx" \in cmd THEN <<>> ELSE u.rx
    OBVIOUS
  <2>5. v = [u EXCEPT !.reg = reg, !.tx = t, !.rx = q]
    BY <1>2, <2>1, <2>2, <2>3, <2>4 DEF T!DoStore, UartOf
  <2>6. T!Words = {"rx_fifo", "tx_fifo", "status", "control"}
    BY DEF T!Words, T!UartReg
  <2>7. \A w \in T!Words : reg[w] \in RegValues(Ch)[w]
    BY <2>1, <2>6 DEF UartOf, RegValues
  <2>8. reg \in [rx_fifo : Ch, tx_fifo : Ch,
                 status : SUBSET T!StatusBits, control : SUBSET T!ControlBits]
    BY <2>1, <2>6, <2>7 DEF RegValues
  <2>9. t \in Seq(Ch) /\ q \in Seq(Ch) /\ q \in {<<>>, u.rx}
    BY <2>2, <2>4, <2>8 DEF UartOf
  <2>10. ~ T!Touches(a, "control") => q = u.rx
    BY <2>3, <2>4
  <2>11. v.rx = q /\ v.wait_ack = u.wait_ack
    BY <2>5 DEF UartOf
  <2>12. v \in UartOf(Ch)
    BY <2>5, <2>8, <2>9, Zenon DEF UartOf
  <2> QED
    BY <2>9, <2>10, <2>11, <2>12
<1> QED
  BY <1>1, <1>2

\* What a store does to the two queues: the bits of control that it obeys and
\* the character that it pushes are stored by it or were there before.
LEMMA StoreQueues ==
  ASSUME NEW Ch, NEW u \in UartOf(Ch), NEW a, NEW val, T!InRange(a)
  PROVE  \E cmd, ch :
           /\ cmd = IF "control" \in T!Covers(a) THEN val.control ELSE u.reg.control
           /\ ch = IF "tx_fifo" \in T!Covers(a) THEN val.tx_fifo ELSE u.reg.tx_fifo
           /\ T!DoStore(u, a, val).rx =
                IF T!Touches(a, "control") /\ "RstRx" \in cmd THEN <<>> ELSE u.rx
           /\ T!DoStore(u, a, val).tx =
                IF T!Touches(a, "control") /\ "RstTx" \in cmd THEN <<>>
                ELSE IF T!Touches(a, "tx_fifo") THEN Append(u.tx, ch) ELSE u.tx
<1>0. PICK v : v = T!DoStore(u, a, val)
  OBVIOUS
<1>1. PICK reg : reg = [w \in T!Words |-> IF w \in T!Covers(a) THEN val[w] ELSE u.reg[w]]
  BY Zenon
<1>2. PICK cmd, ch : /\ cmd = IF "control" \in T!Covers(a) THEN val.control ELSE u.reg.control
                     /\ ch = IF "tx_fifo" \in T!Covers(a) THEN val.tx_fifo ELSE u.reg.tx_fifo
  BY Zenon
<1>3. reg.control = cmd /\ reg.tx_fifo = ch
  BY <1>1, <1>2 DEF T!Words, T!UartReg
<1>4. PICK tx : tx = IF T!Touches(a, "tx_fifo") THEN Append(u.tx, reg.tx_fifo) ELSE u.tx
  BY Zenon
<1>5. PICK obeyed : obeyed = IF T!Touches(a, "control") THEN reg.control ELSE {}
  BY Zenon
<1>6. PICK t, q : /\ t = IF "RstTx" \in obeyed THEN <<>> ELSE tx
                  /\ q = IF "RstRx" \in obeyed THEN <<>> ELSE u.rx
  OBVIOUS
<1>7. v = [u EXCEPT !.reg = reg, !.tx = t, !.rx = q]
  BY <1>0, <1>1, <1>4, <1>5, <1>6 DEF T!DoStore, UartOf
<1>8. v.rx = q /\ v.tx = t
  BY <1>7 DEF UartOf
<1>9. /\ q = IF T!Touches(a, "control") /\ "RstRx" \in cmd THEN <<>> ELSE u.rx
      /\ t = IF T!Touches(a, "control") /\ "RstTx" \in cmd THEN <<>>
            ELSE IF T!Touches(a, "tx_fifo") THEN Append(u.tx, ch) ELSE u.tx
  BY <1>3, <1>4, <1>5, <1>6, Zenon
<1> QED
  BY <1>0, <1>2, <1>8, <1>9, Zenon

LEMMA PutcUart ==
  ASSUME NEW Ch, NEW u \in UartOf(Ch), NEW ch \in Ch, NEW v, v = T!DoPutc(u, ch)
  PROVE  v \in UartOf(Ch) /\ v.rx = Append(u.rx, ch) /\ v.tx = u.tx
<1>1. Append(u.rx, ch) \in Seq(Ch)
  BY DEF UartOf
<1>2. v = [u EXCEPT !.rx = Append(u.rx, ch)]
  BY DEF T!DoPutc, UartOf
<1> QED
  BY <1>1, <1>2, Zenon DEF UartOf

LEMMA GetcUart ==
  ASSUME NEW Ch, NEW u \in UartOf(Ch), u.tx # <<>>, NEW v, v = T!DoGetc(u)
  PROVE  v \in UartOf(Ch) /\ v.rx = u.rx /\ v.tx = Tail(u.tx) /\ Head(u.tx) \in Ch
<1>1. Tail(u.tx) \in Seq(Ch) /\ Head(u.tx) \in Ch
  BY MoveHead DEF UartOf
<1>2. PICK w \in BOOLEAN : w = (u.wait_ack \/ Len(u.tx) = 1)
  BY Zenon
<1>3. v = [u EXCEPT !.tx = Tail(u.tx), !.wait_ack = w]
  BY <1>2 DEF T!DoGetc, UartOf
<1> QED
  BY <1>1, <1>3, Zenon DEF UartOf

-----------------------------------------------------------------------------
(* Numbers as bytes                                                        *)

\* Division, as the provers use it.
LEMMA Division ==
  ASSUME NEW x \in Int, NEW h \in Nat \ {0}
  PROVE  /\ x \div h \in Int /\ x % h \in 0 .. h - 1
         /\ x = h * (x \div h) + (x % h)
OBVIOUS

LEMMA Quotient ==
  ASSUME NEW h \in Nat \ {0}, NEW q \in Int, NEW r \in 0 .. h - 1
  PROVE  (h * q + r) \div h = q /\ (h * q + r) % h = r
OBVIOUS

LEMMA QuotientTwice ==
  ASSUME NEW x \in Int, NEW a \in Nat \ {0}, NEW b \in Nat \ {0}
  PROVE  (x \div a) \div b = x \div (a * b)
<1>1. PICK q \in Int, r \in 0 .. a - 1 : x = a * q + r /\ x \div a = q
  BY Division
<1>2. PICK p \in Int, s \in 0 .. b - 1 : q = b * p + s /\ q \div b = p
  BY Division
<1>3. PICK t \in Int : t = a * s + r
  OBVIOUS
<1>4. x = (a * b) * p + t
  BY <1>1, <1>2, <1>3
<1>5. a * s <= a * (b - 1)
  BY <1>2
<1>6. t \in 0 .. (a * b) - 1
  BY <1>3, <1>5
<1>7. PICK m \in Nat \ {0} : m = a * b
  OBVIOUS
<1>8. (m * p + t) \div m = p
  BY <1>6, <1>7, Quotient
<1> QED
  BY <1>1, <1>2, <1>4, <1>7, <1>8

\* The loop by which a number is put together from the n bytes of a buffer.
ValueOf(buf, n, B, f) ==
  f = [i \in 0 .. n |-> IF i = n THEN 0 ELSE buf[i] + B * f[i + 1]]

\* Its last j rounds.
ValueFrom(buf, n, B, j, f) ==
  f = [i \in n - j .. n |-> IF i = n THEN 0 ELSE buf[i] + B * f[i + 1]]

LEMMA ValueRuns ==
  ASSUME NEW buf, NEW B, NEW n \in Nat
  PROVE  \E f : ValueOf(buf, n, B, f)
<1> DEFINE Stuck == {j \in Nat : j <= n /\ ~ \E f : ValueFrom(buf, n, B, j, f)}
<1>1. Stuck = {}
  <2>1. SUFFICES ASSUME Stuck # {} PROVE FALSE
    OBVIOUS
  <2>2. PICK j \in Stuck : \A i \in Stuck : j <= i
    BY <2>1, NatMin
  <2>3. j # 0
    <3> DEFINE f == [i \in n .. n |-> 0]
    <3>1. n - 0 .. n = n .. n /\ \A i \in n .. n : i = n
      OBVIOUS
    <3>2. ValueFrom(buf, n, B, 0, f)
      BY <3>1 DEF ValueFrom
    <3> QED
      BY <2>2, <3>2
  <2>4. PICK f : ValueFrom(buf, n, B, j - 1, f)
    <3>1. j - 1 \in Nat /\ j - 1 <= n /\ j - 1 < j
      BY <2>2, <2>3
    <3>2. j - 1 \notin Stuck
      BY <2>2, <3>1
    <3> QED
      BY <3>1, <3>2, Zenon
  <2> DEFINE g == [i \in n - j .. n |-> IF i = n - j THEN buf[i] + B * f[i + 1] ELSE f[i]]
  <2>5. ASSUME NEW i \in n - j .. n
        PROVE  g[i] = IF i = n THEN 0 ELSE buf[i] + B * g[i + 1]
    <3>1. j \in 1 .. n
      BY <2>2, <2>3
    <3>2. CASE i = n - j
      <4>1. i # n /\ i + 1 \in n - j .. n /\ i + 1 # n - j
        BY <3>1, <3>2
      <4>2. g[i + 1] = f[i + 1]
        BY <4>1
      <4> QED
        BY <3>2, <4>1, <4>2
    <3>3. CASE i # n - j
      <4>1. i \in n - (j - 1) .. n
        BY <3>1, <3>3
      <4>2. g[i] = f[i] /\ f[i] = IF i = n THEN 0 ELSE buf[i] + B * f[i + 1]
        BY <2>4, <3>3, <4>1 DEF ValueFrom
      <4>3. i # n => i + 1 \in n - j .. n /\ i + 1 # n - j
        BY <3>1, <3>3
      <4> QED
        BY <4>2, <4>3
    <3> QED
      BY <3>2, <3>3
  <2>6. ValueFrom(buf, n, B, j, g)
    BY <2>5 DEF ValueFrom
  <2> QED
    BY <2>2, <2>6
<1>2. PICK f : ValueFrom(buf, n, B, n, f)
  <2>1. n <= n /\ n \notin Stuck
    BY <1>1
  <2> QED
    BY <2>1, Zenon
<1>3. n - n .. n = 0 .. n
  OBVIOUS
<1> QED
  BY <1>2, <1>3 DEF ValueOf, ValueFrom

\* P gives the powers of B up to the n-th.
Powers(P, B, n) ==
  P[0] = 1 /\ \A i \in 0 .. n - 1 : P[i + 1] = B * P[i]

LEMMA PowersOf ==
  ASSUME NEW B, B^0 = 1, \A i \in 0 .. 7 : B^(i + 1) = B * B^i,
         NEW n \in 0 .. 8, NEW P, P = [i \in 0 .. 8 |-> B^i]
  PROVE  Powers(P, B, n) /\ P[n] = B^n
<1>1. ASSUME NEW i \in 0 .. n - 1 PROVE P[i + 1] = B * P[i]
  <2>1. i \in 0 .. 7 /\ i \in 0 .. 8 /\ i + 1 \in 0 .. 8
    OBVIOUS
  <2>2. B^(i + 1) = B * B^i
    BY <2>1, Zenon
  <2> QED
    BY <2>1, <2>2, Zenon
<1>2. 0 \in 0 .. 8
  OBVIOUS
<1>3. P[0] = 1
  BY <1>2, Zenon
<1> QED
  BY <1>1, <1>3 DEF Powers

LEMMA PowersPositive ==
  ASSUME NEW P, NEW B \in Nat \ {0}, NEW n \in Nat, Powers(P, B, n)
  PROVE  \A i \in 0 .. n : P[i] \in Nat \ {0}
<1> DEFINE Bad == {i \in Nat : i <= n /\ P[i] \notin Nat \ {0}}
<1>1. SUFFICES ASSUME Bad # {} PROVE FALSE
  OBVIOUS
<1>2. PICK i \in Bad : \A j \in Bad : i <= j
  BY <1>1, NatMin
<1>3. i # 0
  BY <1>2 DEF Powers
<1>4. i - 1 \in Nat /\ i - 1 \in 0 .. n - 1 /\ i - 1 < i /\ (i - 1) + 1 = i
  BY <1>2, <1>3
<1>5. P[i - 1] \in Nat \ {0}
  BY <1>2, <1>4
<1>6. P[i] = B * P[i - 1]
  BY <1>4 DEF Powers
<1> QED
  BY <1>2, <1>5, <1>6

LEMMA DigitBound ==
  ASSUME NEW B \in Nat \ {0}, NEW b \in 0 .. B - 1, NEW p \in Nat \ {0}, NEW v \in 0 .. p - 1
  PROVE  b + B * v \in 0 .. (B * p) - 1
<1>1. B * v <= B * (p - 1) /\ B * v >= 0
  OBVIOUS
<1>2. B * (p - 1) = (B * p) - B
  OBVIOUS
<1> QED
  BY <1>1, <1>2

\* A buffer of n bytes holds a number below the n-th power.
LEMMA ValueBound ==
  ASSUME NEW B \in Nat \ {0}, NEW n \in Nat, NEW P, Powers(P, B, n),
         NEW buf \in [0 .. n - 1 -> 0 .. B - 1], NEW f, ValueOf(buf, n, B, f)
  PROVE  f[0] \in 0 .. P[n] - 1
<1>0. \A i \in 0 .. n : P[i] \in Nat \ {0}
  BY PowersPositive
<1> DEFINE Bad == {j \in Nat : j <= n /\ f[n - j] \notin 0 .. P[j] - 1}
<1>1. Bad = {}
  <2>1. SUFFICES ASSUME Bad # {} PROVE FALSE
    OBVIOUS
  <2>2. PICK j \in Bad : \A i \in Bad : j <= i
    BY <2>1, NatMin
  <2>3. j # 0
    <3>1. f[n] = 0 /\ n - 0 = n
      BY DEF ValueOf
    <3> QED
      BY <2>2, <3>1 DEF Powers
  <2>4. PICK k \in Nat : j = k + 1 /\ k \in 0 .. n - 1
    <3>1. j - 1 \in Nat /\ j - 1 \in 0 .. n - 1 /\ j = (j - 1) + 1
      BY <2>2, <2>3
    <3> QED
      BY <3>1
  <2>5. f[n - k] \in 0 .. P[k] - 1
    BY <2>2, <2>4
  <2>6. PICK i \in 0 .. n - 1 : i = n - j /\ i + 1 = n - k
    BY <2>2, <2>4
  <2>7. f[i] = buf[i] + B * f[i + 1]
    BY <2>6 DEF ValueOf
  <2>8. PICK b, p, v : /\ b = buf[i] /\ v = f[i + 1] /\ p = P[k]
                       /\ b \in 0 .. B - 1 /\ p \in Nat \ {0} /\ v \in 0 .. p - 1
    <3>1. P[k] \in Nat \ {0} /\ buf[i] \in 0 .. B - 1
      BY <1>0, <2>4, <2>6
    <3>2. f[i + 1] \in 0 .. P[k] - 1
      BY <2>5, <2>6
    <3> QED
      BY <3>1, <3>2
  <2>9. P[j] = B * p
    BY <2>4, <2>8 DEF Powers
  <2>10. b + B * v \in 0 .. (B * p) - 1
    BY <2>8, DigitBound
  <2> QED
    BY <2>2, <2>6, <2>7, <2>8, <2>9, <2>10
<1>2. n - n = 0
  OBVIOUS
<1> QED
  BY <1>1, <1>2

\* The buffer holds the n low digits of x.
DigitsOf(buf, n, x, P, B) == \A i \in 0 .. n - 1 : buf[i] = (x \div P[i]) % B

\* The bytes of a number give the number back.
LEMMA ValueBytes ==
  ASSUME NEW B \in Nat \ {0}, NEW n \in Nat, NEW P, Powers(P, B, n),
         NEW x \in Nat, x < P[n], NEW buf, DigitsOf(buf, n, x, P, B),
         NEW f, ValueOf(buf, n, B, f)
  PROVE  f[0] = x
<1>0. \A i \in 0 .. n : P[i] \in Nat \ {0}
  BY PowersPositive
<1> DEFINE Bad == {j \in Nat : j <= n /\ f[n - j] # x \div P[n - j]}
<1>1. Bad = {}
  <2>1. SUFFICES ASSUME Bad # {} PROVE FALSE
    OBVIOUS
  <2>2. PICK j \in Bad : \A i \in Bad : j <= i
    BY <2>1, NatMin
  <2>3. j # 0
    <3>1. f[n] = 0 /\ n - 0 = n
      BY DEF ValueOf
    <3>2. PICK p \in Nat \ {0} : p = P[n] /\ x < p
      BY <1>0
    <3>3. x \div p = 0
      BY <3>2
    <3> QED
      BY <2>2, <3>1, <3>2, <3>3
  <2>4. PICK i \in 0 .. n - 1 : i = n - j /\ i + 1 = n - (j - 1)
    BY <2>2, <2>3
  <2>5. f[i + 1] = x \div P[i + 1]
    <3>1. j - 1 \in Nat /\ j - 1 <= n /\ j - 1 < j
      BY <2>2, <2>3
    <3> QED
      BY <2>2, <2>4, <3>1
  <2>6. f[i] = buf[i] + B * f[i + 1] /\ buf[i] = (x \div P[i]) % B
    BY <2>4 DEF ValueOf, DigitsOf
  <2>7. PICK p \in Nat \ {0} : p = P[i] /\ P[i + 1] = B * p
    BY <1>0 DEF Powers
  <2>8. x \div (B * p) = (x \div p) \div B
    <3>1. B * p = p * B
      OBVIOUS
    <3> QED
      BY <3>1, QuotientTwice
  <2>9. PICK q \in Int : q = x \div p
    OBVIOUS
  <2>10. q = B * (q \div B) + (q % B)
    BY Division
  <2>11. f[i] = q
    BY <2>5, <2>6, <2>7, <2>8, <2>9, <2>10
  <2> QED
    BY <2>2, <2>4, <2>7, <2>9, <2>11
<1>2. n - n = 0 /\ P[0] = 1
  BY DEF Powers
<1> QED
  BY <1>1, <1>2
=============================================================================
