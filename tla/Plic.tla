-------------------------------- MODULE Plic --------------------------------
(***************************************************************************)
(* The platform-level interrupt controller (src/device/plic.cc).  The bit  *)
(* arrays pending_, enable and claimed_ are sets of source ids; the model  *)
(* keeps the first word of each, so every source has a bit in it (main has *)
(* sources 0 to 2).  A store sets the whole word, bits of no source too.   *)
(* A context's id and mmode are never read by the code and are left out.   *)
(* Accesses are whole registers (4 bytes).                                 *)
(***************************************************************************)
EXTENDS Integers

CONSTANTS
  Devices,       \* device_num: sources 1 .. Devices, and the unused source 0
  kWordBits,     \* the bits of a word (32 in the code)
  Contexts,      \* the ids of the contexts
  MaxPriority    \* bound on priorities and thresholds (uint32_t in the code)

ASSUME PlicAssumption ==
  /\ kWordBits \in Nat
  /\ Devices \in 1 .. kWordBits - 1
  /\ Contexts \subseteq Nat
  /\ MaxPriority \in Nat

Sources == 0 .. Devices
Bits == 0 .. kWordBits - 1
Levels == 0 .. MaxPriority

VARIABLE plic    \* [priority, pending, ctx]

-----------------------------------------------------------------------------

\* Mutant: a source whose line stays up is pending in every other call only.
DoUpdateExt_Edge(p, src, fired) ==
  [p EXCEPT !.pending = IF fired /\ src \notin @ THEN @ \cup {src} ELSE @ \ {src}]

\* UpdateExt: the level of a source's line.
DoUpdateExt(p, src, fired) ==
  [p EXCEPT !.pending = IF fired THEN @ \cup {src} ELSE @ \ {src}]

\* Mutant: a claimed source stays eligible.
Eligible_Claimed(p, c, i) ==
  /\ p.priority[i] >= p.ctx[c].threshold
  /\ i \in p.pending
  /\ i \in p.ctx[c].enable

\* Mutant: a source whose priority equals the threshold is masked.
Eligible_Above(p, c, i) ==
  /\ p.priority[i] > p.ctx[c].threshold
  /\ i \in p.pending
  /\ i \in p.ctx[c].enable
  /\ i \notin p.ctx[c].claimed

\* The condition of the loop of GetInterrupt.
Eligible(p, c, i) ==
  /\ p.priority[i] >= p.ctx[c].threshold
  /\ i \in p.pending
  /\ i \in p.ctx[c].enable
  /\ i \notin p.ctx[c].claimed

\* The winner, without the loop or its condition: highest priority, then
\* lowest id, source 0 included; 0 too if there is no candidate.
Candidates(p, c) ==
  { i \in Sources \cap p.pending \cap (p.ctx[c].enable \ p.ctx[c].claimed) :
      p.ctx[c].threshold <= p.priority[i] /\ p.priority[i] # 0 }

Best(p, c) ==
  IF Candidates(p, c) = {} THEN 0
  ELSE CHOOSE i \in Candidates(p, c) :
         \A j \in Candidates(p, c) :
           \/ p.priority[j] < p.priority[i]
           \/ p.priority[j] = p.priority[i] /\ i <= j

\* The loop itself: <<max_priority, best_interrupt>> after source n.
Scan(p, c) ==
  LET f[n \in -1 .. Devices] ==
        IF n = -1 THEN <<0, 0>>
        ELSE IF Eligible(p, c, n) /\ f[n - 1][1] < p.priority[n]
             THEN <<p.priority[n], n>>
             ELSE f[n - 1]
  IN  f[Devices][2]

\* GetInterrupt: refreshes claim; the line is up when claim is not 0.
DoGetInterrupt(p, c) == [p EXCEPT !.ctx[c].claim = Scan(p, c)]
Line(p, c) == Scan(p, c) # 0

-----------------------------------------------------------------------------
(* Load and Store.  A register is [reg, at], where at is a source for      *)
(* "priority" and a context for "enable", "threshold" and "claim".  A      *)
(* register that does not exist is refused (the code returns false).       *)

\* The register at an address; "hole" where there is none.  The two low bits
\* of the address are not looked at, except next to threshold and claim.
RegisterAt(addr) ==
  CASE addr < 4096                                             \* kPendingBase
         -> [reg |-> "priority", at |-> addr \div 4]
    [] addr \div 4 = 1024
         -> [reg |-> "pending", at |-> 0]
    [] 8192 <= addr /\ addr < 2039808 /\ (addr % 128) \div 4 = 0  \* kEnableBase
         -> [reg |-> "enable", at |-> (addr - 8192) \div 128]
    [] 2097152 <= addr /\ addr < 67108864 /\ addr % 4096 = 0      \* kContextBase
         -> [reg |-> "threshold", at |-> (addr - 2097152) \div 4096]
    [] 2097152 <= addr /\ addr < 67108864 /\ addr % 4096 = 4
         -> [reg |-> "claim", at |-> (addr - 2097152) \div 4096]
    [] OTHER -> [reg |-> "hole", at |-> 0]

Exists(r) ==
  CASE r.reg = "priority" -> r.at \in Sources
    [] r.reg = "pending"  -> TRUE
    [] r.reg \in {"enable", "threshold", "claim"} -> r.at \in Contexts
    [] OTHER -> FALSE

\* What a load returns.
LoadValue(p, r) ==
  CASE r.reg = "priority"  -> p.priority[r.at]
    [] r.reg = "pending"   -> p.pending
    [] r.reg = "enable"    -> p.ctx[r.at].enable
    [] r.reg = "threshold" -> p.ctx[r.at].threshold
    [] r.reg = "claim"     -> p.ctx[r.at].claim

\* What a load changes: reading claim marks its source as claimed.
DoLoad(p, r) ==
  IF Exists(r) /\ r.reg = "claim"
  THEN [p EXCEPT !.ctx[r.at].claimed = @ \cup {p.ctx[r.at].claim}]
  ELSE p

\* What Store returns.
Accepts(r, val) == Exists(r) /\ (r.reg = "claim" => val \in Sources)

\* A store; a completion of a source that does not exist is refused.
DoStore(p, r, val) ==
  IF ~ Exists(r) THEN p
  ELSE CASE r.reg = "priority"  -> [p EXCEPT !.priority[r.at] = val]
         [] r.reg = "pending"   -> [p EXCEPT !.pending = val]
         [] r.reg = "enable"    -> [p EXCEPT !.ctx[r.at].enable = val]
         [] r.reg = "threshold" -> [p EXCEPT !.ctx[r.at].threshold = val]
         [] r.reg = "claim"     -> [p EXCEPT !.ctx[r.at].claimed = @ \ {val}]

ResetPlic ==
  [ priority |-> [i \in Sources |-> 0],
    pending  |-> {},
    ctx      |-> [c \in Contexts |->
                    [claim |-> 0, threshold |-> 0, enable |-> {}, claimed |-> {}]] ]

-----------------------------------------------------------------------------

PlicType ==
  [ priority : [Sources -> Levels],
    pending  : SUBSET Bits,
    ctx      : [Contexts -> [claim : Sources, threshold : Levels,
                             enable : SUBSET Bits, claimed : SUBSET Sources]] ]

\* Every register holds a value of its type; claim always names a source.
PlicTypeOK == plic \in PlicType

\* The loop of GetInterrupt finds, in one pass and from every reachable
\* state, the first source of the highest priority among those pending,
\* enabled, not claimed and not below the threshold, and none when no such
\* source has a priority above 0.  A priority equal to the threshold is enough
\* here; the PLIC specification masks it.
ScanIsBest == \A c \in Contexts : Scan(plic, c) = Best(plic, c)
=============================================================================
