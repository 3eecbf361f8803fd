-------------------------------- MODULE Amo --------------------------------
(***************************************************************************)
(* LR, SC and the AMOs (AmoLrExec, AmoScExec, AmoTypeExec in               *)
(* src/cpu/executor.cc), and the program they are for: a thread increments *)
(* counters, traps into a handler that increments them too, and is resumed.*)
(*                                                                         *)
(* The reservation belongs to one Executor, that is to one hart, so the    *)
(* test of its hart_id always succeeds once it is valid.  A counter is a   *)
(* doubleword whose upper word stays 0.  Loads and stores fail when the    *)
(* fault argument says so.  rs2 of an LR is x0, so its value is 0.         *)
(***************************************************************************)
EXTENDS Integers

CONSTANTS
  Counters,      \* addresses of the counters
  Attempts,      \* what the thread may use: <<address, size>>
  Scratch,       \* a word of the handler's stack
  MaxIncs,       \* bound on the increments
  MaxTraps       \* bound on interrupts and faults of the thread

ASSUME AmoAssumption ==
  /\ Counters \subseteq {c \in Nat : c % 8 = 0}
  /\ Scratch \in Nat \ Counters /\ Scratch % 8 = 0
  /\ Attempts \subseteq Nat \X {4, 8}
  /\ \A at \in Attempts : at[1] \in Counters \/ at[1] % at[2] # 0
  /\ MaxIncs \in Nat /\ MaxTraps \in Nat

VARIABLES
  mem,           \* the counters
  res,           \* reservation_
  running,       \* "thread" or "handler"
  thread,        \* [pc, at, val]: its next step, the counter, what it read
  handler,       \* the same
  done,          \* history: completed increments of each counter
  traps,         \* history: traps taken
  lastLr         \* history: where the last LR completed, if no LR or SC was
                 \* tried since; NoLr otherwise

vars == <<mem, res, running, thread, handler, done, traps, lastLr>>

\* make_unique<Executor>() zeroes the reservation.
NoReservation == [addr |-> 0, size |-> 0, valid |-> FALSE]

Misaligned(at) == at[1] % at[2] # 0

-----------------------------------------------------------------------------
(* The instructions on memory m and reservation r, at = <<address, size>>. *)
(* A result is [mem, res, rd, trap].                                       *)

Result(m, r, rd, trap) == [mem |-> m, res |-> r, rd |-> rd, trap |-> trap]

\* Mutant: no reservation is made.
AmoLrExec_Unreserved(m, r, at, fault) ==
  IF Misaligned(at) THEN Result(m, r, 0, TRUE) ELSE Result(m, r, m[at[1]], fault)

\* AmoLrExec: the reservation is made before the load is tried.
AmoLrExec(m, r, at, fault) ==
  IF Misaligned(at) THEN Result(m, r, 0, TRUE)
  ELSE Result(m, [addr |-> at[1], size |-> at[2], valid |-> TRUE], m[at[1]], fault)

\* Mutant: an SC succeeds whatever its size.
Pairs_AnySize(r, at) == r.addr = at[1] /\ r.valid

Pairs(r, at) == r.addr = at[1] /\ r.size = at[2] /\ r.valid

\* Mutant: an SC to another address keeps the reservation.
AmoScExec_KeepsOther(m, r, at, val, fault) ==
  IF Misaligned(at) THEN Result(m, r, 0, TRUE)
  ELSE IF ~ Pairs(r, at) THEN Result(m, r, 1, FALSE)
  ELSE Result(IF fault THEN m ELSE [m EXCEPT ![at[1]] = val],
              [r EXCEPT !.valid = FALSE], 0, fault)

\* AmoScExec: rd is 0 for success.  The reservation is gone in every case,
\* before the store is tried.
AmoScExec(m, r, at, val, fault) ==
  IF Misaligned(at) THEN Result(m, r, 0, TRUE)
  ELSE IF ~ Pairs(r, at) THEN Result(m, [r EXCEPT !.valid = FALSE], 1, FALSE)
  ELSE Result(IF fault THEN m ELSE [m EXCEPT ![at[1]] = val],
              [r EXCEPT !.valid = FALSE], 0, fault)

\* AmoTypeExec, for AMOADD of 1: a load and a store in one instruction.  The
\* reservation stays.
AmoTypeExec(m, r, at, fault) ==
  IF Misaligned(at) \/ fault THEN Result(m, r, 0, TRUE)
  ELSE Result([m EXCEPT ![at[1]] = @ + 1], r, m[at[1]], FALSE)
-----------------------------------------------------------------------------
(* The program.  A trapped instruction runs again when the handler returns.*)

NoLr == <<0, 0>>

Aligned == {at \in Attempts : ~ Misaligned(at)}

Total == LET sum[S \in SUBSET Counters] ==
               IF S = {} THEN 0
               ELSE LET c == CHOOSE c \in S : TRUE IN done[c] + sum[S \ {c}]
         IN  sum[Counters]

Incremented(at) == [done EXCEPT ![at[1]] = @ + 1]

Init ==
  /\ mem = [c \in Counters |-> 0]
  /\ res = NoReservation
  /\ running = "thread"
  /\ thread = [pc |-> "idle", at |-> NoLr, val |-> 0]
  /\ handler = [pc |-> "off", at |-> NoLr, val |-> 0]
  /\ done = [c \in Counters |-> 0]
  /\ traps = 0
  /\ lastLr = NoLr

\* The thread's part of an instruction with result r: a trap starts the
\* handler, otherwise the thread goes on as next.
Leaves(r, next) ==
  /\ mem' = r.mem /\ res' = r.res
  /\ IF r.trap
     THEN /\ running' = "handler" /\ handler' = [handler EXCEPT !.pc = "entered"]
          /\ traps' = traps + 1
          /\ UNCHANGED thread
     ELSE /\ thread' = next
          /\ UNCHANGED <<running, handler, traps>>

ThreadLr(at, fault) ==
  LET r == AmoLrExec(mem, res, at, fault)
  IN  /\ running = "thread" /\ thread.pc = "idle"
      /\ Total < MaxIncs /\ (r.trap => traps < MaxTraps)
      /\ Leaves(r, [pc |-> "sc", at |-> at, val |-> r.rd])
      /\ lastLr' = IF r.trap THEN NoLr ELSE at
      /\ UNCHANGED done

ThreadSc(fault) ==
  LET r == AmoScExec(mem, res, thread.at, thread.val + 1, fault)
  IN  /\ running = "thread" /\ thread.pc = "sc"
      /\ r.trap => traps < MaxTraps
      /\ Leaves(r, [thread EXCEPT !.pc = "idle"])
      /\ done' = IF r.trap \/ r.rd # 0 THEN done ELSE Incremented(thread.at)
      /\ lastLr' = NoLr

ThreadAmo(at, fault) ==
  LET r == AmoTypeExec(mem, res, at, fault)
  IN  /\ running = "thread" /\ thread.pc = "idle"
      /\ Total < MaxIncs /\ (r.trap => traps < MaxTraps)
      /\ Leaves(r, thread)
      /\ done' = IF r.trap THEN done ELSE Incremented(at)
      /\ UNCHANGED lastLr

Interrupt ==
  /\ running = "thread" /\ traps < MaxTraps
  /\ running' = "handler" /\ handler' = [handler EXCEPT !.pc = "entered"]
  /\ traps' = traps + 1
  /\ UNCHANGED <<mem, res, thread, done, lastLr>>

\* The handler does at most one thing; it does not trap.
Handles(r, next) ==
  /\ mem' = r.mem /\ res' = r.res
  /\ handler' = next
  /\ UNCHANGED <<running, thread, traps>>

\* An LR, and the operand of the SC to follow: its size may be another one.
HandlerLr(at, size) ==
  LET r == AmoLrExec(mem, res, at, FALSE)
  IN  /\ handler.pc = "entered"
      /\ Handles(r, [pc |-> "sc", at |-> <<at[1], size>>, val |-> r.rd])
      /\ lastLr' = at
      /\ UNCHANGED done

HandlerSc ==
  LET r == AmoScExec(mem, res, handler.at, handler.val + 1, FALSE)
  IN  /\ handler.pc = "sc" /\ Total < MaxIncs
      /\ Handles(r, [handler EXCEPT !.pc = "leave"])
      /\ done' = IF r.rd # 0 THEN done ELSE Incremented(handler.at)
      /\ lastLr' = NoLr

\* An AMO, or a load and a store: neither touches the reservation.
HandlerAmo(at) ==
  /\ handler.pc = "entered" /\ Total < MaxIncs
  /\ Handles(AmoTypeExec(mem, res, at, FALSE), [handler EXCEPT !.pc = "leave"])
  /\ done' = Incremented(at)
  /\ UNCHANGED lastLr

HandlerSkip ==
  /\ handler.pc \in {"entered", "sc"}
  /\ handler' = [handler EXCEPT !.pc = "leave"]
  /\ UNCHANGED <<mem, res, running, thread, done, traps, lastLr>>

\* Before it returns the handler gives up any reservation by an SC to its
\* stack, the way Linux does.
HandlerReturn ==
  LET r == AmoScExec([c \in {Scratch} |-> 0], res, <<Scratch, 8>>, 0, FALSE)
  IN  /\ handler.pc = "leave"
      /\ res' = r.res
      /\ handler' = [handler EXCEPT !.pc = "off"] /\ running' = "thread"
      /\ lastLr' = NoLr
      /\ UNCHANGED <<mem, thread, done, traps>>

ThreadSteps ==
  \E fault \in BOOLEAN :
    ThreadSc(fault) \/ \E at \in Attempts : ThreadLr(at, fault) \/ ThreadAmo(at, fault)

HandlerSteps ==
  \/ \E at \in Aligned : HandlerAmo(at) \/ \E size \in {4, 8} : HandlerLr(at, size)
  \/ HandlerSc
  \/ HandlerSkip
  \/ HandlerReturn

Finished == running = "thread" /\ thread.pc = "idle" /\ Total >= MaxIncs /\ UNCHANGED vars

Next == ThreadSteps \/ HandlerSteps \/ Interrupt \/ Finished

Spec == Init /\ [][Next]_vars

\* The hart keeps running whatever is current.
FairSpec == Spec /\ WF_vars(ThreadSteps \/ HandlerSteps)

-----------------------------------------------------------------------------
\* Types: the pcs, and a reservation that is valid only after an LR.
TypeOK ==
  /\ mem \in [Counters -> Nat] /\ done \in [Counters -> Nat]
  /\ res \in [addr : Counters \cup {0}, size : {0, 4, 8}, valid : BOOLEAN]
  /\ running \in {"thread", "handler"}
  /\ thread.pc \in {"idle", "sc"}
  /\ handler.pc \in {"off", "entered", "sc", "leave"}

\* No increment is lost: wherever traps and faults fall between an LR and its
\* SC, and whatever the handler does to the counter meanwhile, the SC fails
\* if the value it was computed from is no longer there.
NoLostUpdate == mem = done

\* The operand of the SC that is next, if one is.
NextSc ==
  CASE handler.pc = "sc"                          -> handler.at
    [] running = "thread" /\ thread.pc = "sc"     -> thread.at
    [] OTHER                                      -> NoLr

\* "An SC can only pair with the most recent LR in program order": an SC
\* that stores pairs with an LR of the same address and size that completed,
\* with no LR or SC between, not even one that trapped.
ScPairs == [][NextSc # NoLr /\ mem' # mem => lastLr = NextSc]_vars

\* Once the traps are over, LR and SC in a loop get the work done: an SC does
\* not fail without a cause.
IncrementsEnd == <>(Total >= MaxIncs)
=============================================================================
