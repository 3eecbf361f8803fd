----------------------------- MODULE AmoProofs -----------------------------
(***************************************************************************)
(* For every set of counters and any number of increments and traps: no    *)
(* increment made with LR and SC, or with an AMO, is lost, and an SC       *)
(* stores only after the LR it pairs with.                                 *)
(***************************************************************************)
EXTENDS Amo, TLAPS

-----------------------------------------------------------------------------
(* The instructions                                                        *)

Reservations == [addr : Counters \cup {0}, size : {0, 4, 8}, valid : BOOLEAN]

\* What an SC may name: a counter, as a word or a doubleword.
Operands == Counters \X {4, 8}

LEMMA CounterAligned ==
  ASSUME NEW c \in Counters, NEW size \in {4, 8}
  PROVE  ~ Misaligned(<<c, size>>)
<1>1. c \in Nat /\ c % 8 = 0
  BY AmoAssumption DEF AmoAssumption
<1>2. c % 4 = 0
  BY <1>1
<1> QED
  BY <1>1, <1>2 DEF Misaligned

LEMMA AlignedOperand == Aligned \subseteq Operands
<1>1. SUFFICES ASSUME NEW at \in Aligned PROVE at \in Operands
  OBVIOUS
<1>2. at \in Nat \X {4, 8} /\ (at[1] \in Counters \/ at[1] % at[2] # 0)
  BY AmoAssumption DEF AmoAssumption, Aligned
<1> QED
  BY <1>2 DEF Aligned, Misaligned, Operands

LEMMA OperandAligned ==
  ASSUME NEW at \in Operands
  PROVE  ~ Misaligned(at) /\ at[1] \in Counters /\ at[2] \in {4, 8} /\ at = <<at[1], at[2]>>
<1>1. at[1] \in Counters /\ at[2] \in {4, 8} /\ at = <<at[1], at[2]>>
  BY DEF Operands
<1>2. ~ Misaligned(<<at[1], at[2]>>)
  BY <1>1, CounterAligned
<1> QED
  BY <1>1, <1>2

LEMMA LrSpec ==
  ASSUME NEW m, NEW r, NEW at, NEW fault, ~ Misaligned(at),
         NEW x, x = AmoLrExec(m, r, at, fault)
  PROVE  /\ x.mem = m /\ x.rd = m[at[1]] /\ x.trap = fault
         /\ x.res = [addr |-> at[1], size |-> at[2], valid |-> TRUE]
BY DEF AmoLrExec, Result

LEMMA MisalignedSpec ==
  ASSUME NEW m, NEW r, NEW at, NEW val, NEW fault, Misaligned(at)
  PROVE  /\ AmoLrExec(m, r, at, fault) = [mem |-> m, res |-> r, rd |-> 0, trap |-> TRUE]
         /\ AmoTypeExec(m, r, at, fault) = [mem |-> m, res |-> r, rd |-> 0, trap |-> TRUE]
BY DEF AmoLrExec, AmoTypeExec, Result

\* A reservation that an SC has used up pairs with nothing.
LEMMA UsedUp ==
  ASSUME NEW r \in Reservations
  PROVE  /\ [r EXCEPT !.valid = FALSE] \in Reservations
         /\ \A at : ~ Pairs([r EXCEPT !.valid = FALSE], at)
BY DEF Reservations, Pairs
-----------------------------------------------------------------------------
(* The inductive invariant: whoever is about to execute an SC that would   *)
(* succeed read the counter's present value, with the last LR that was     *)
(* executed.                                                               *)

Contexts == [pc : {"idle", "sc", "off", "entered", "leave"},
             at : Operands \cup {NoLr}, val : Nat]

\* The SC of x, if it is next and would succeed.
Fresh(x) ==
  x.pc = "sc" =>
    /\ x.at \in Operands
    /\ Pairs(res, x.at) => mem[x.at[1]] = x.val /\ lastLr = x.at

AInv ==
  /\ TypeOK
  /\ mem = done
  /\ thread \in Contexts /\ handler \in Contexts
  /\ running = "thread" <=> handler.pc = "off"
  /\ thread.pc = "sc" => thread.at \in Operands
  /\ running = "thread" => Fresh(thread)
  /\ Fresh(handler)

LEMMA InitAInv == Init => AInv
<1>1. SUFFICES ASSUME Init PROVE AInv
  OBVIOUS
<1>2. TypeOK
  BY <1>1 DEF Init, TypeOK, NoReservation
<1> QED
  BY <1>1, <1>2 DEF Init, AInv, Contexts, Fresh

\* A trap of the thread, or an interrupt: the counters are as they were.
LEMMA EnterHandler ==
  ASSUME AInv, running = "thread", mem' = mem, done' = done,
         res' \in Reservations, running' = "handler", thread' = thread,
         handler' = [handler EXCEPT !.pc = "entered"]
  PROVE  AInv'
<1>1. handler' \in Contexts /\ handler'.pc = "entered"
  BY DEF AInv, Contexts
<1>2. TypeOK'
  BY <1>1 DEF AInv, TypeOK, Reservations
<1> QED
  BY <1>1, <1>2 DEF AInv, Fresh

LEMMA ThreadLrKeeps ==
  ASSUME AInv, NEW at \in Attempts, NEW fault \in BOOLEAN, ThreadLr(at, fault)
  PROVE  AInv'
<1>1. PICK r : r = AmoLrExec(mem, res, at, fault)
  OBVIOUS
<1>2. /\ running = "thread" /\ thread.pc = "idle" /\ done' = done
      /\ Leaves(r, [pc |-> "sc", at |-> at, val |-> r.rd])
      /\ lastLr' = IF r.trap THEN NoLr ELSE at
  BY <1>1 DEF ThreadLr
<1>3. res \in Reservations /\ mem \in [Counters -> Nat]
  BY DEF AInv, TypeOK, Reservations
<1>4. CASE Misaligned(at)
  <2>1. r = [mem |-> mem, res |-> res, rd |-> 0, trap |-> TRUE]
    BY <1>1, <1>4, MisalignedSpec
  <2>2. /\ mem' = mem /\ res' = res /\ running' = "handler" /\ thread' = thread
        /\ handler' = [handler EXCEPT !.pc = "entered"]
    BY <1>2, <2>1 DEF Leaves
  <2> QED
    BY <1>2, <1>3, <2>2, EnterHandler
<1>5. CASE ~ Misaligned(at)
  <2>1. at \in Operands
    BY <1>5, AlignedOperand DEF Aligned
  <2>2. /\ r.mem = mem /\ r.rd = mem[at[1]] /\ r.trap = fault
        /\ r.res = [addr |-> at[1], size |-> at[2], valid |-> TRUE]
    BY <1>1, <1>5, LrSpec
  <2>3. r.res \in Reservations /\ r.rd \in Nat
    BY <1>3, <2>1, <2>2, OperandAligned DEF Reservations
  <2>4. CASE fault
    <3>1. /\ mem' = mem /\ res' = r.res /\ running' = "handler" /\ thread' = thread
          /\ handler' = [handler EXCEPT !.pc = "entered"]
      BY <1>2, <2>2, <2>4 DEF Leaves
    <3> QED
      BY <1>2, <2>3, <3>1, EnterHandler
  <2>5. CASE ~ fault
    <3>1. /\ mem' = mem /\ res' = r.res /\ running' = running /\ handler' = handler
          /\ thread' = [pc |-> "sc", at |-> at, val |-> r.rd] /\ lastLr' = at
      BY <1>2, <2>2, <2>5 DEF Leaves
    <3>2. TypeOK'
      BY <1>2, <2>3, <3>1 DEF AInv, TypeOK, Reservations
    <3>3. thread' \in Contexts
      BY <2>1, <2>3, <3>1 DEF Contexts
    <3> QED
      BY <1>2, <2>1, <2>2, <3>1, <3>2, <3>3 DEF AInv, Fresh
  <2> QED
    BY <2>4, <2>5
<1> QED
  BY <1>4, <1>5

LEMMA ThreadScKeeps ==
  ASSUME AInv, NEW fault \in BOOLEAN, ThreadSc(fault)
  PROVE  /\ AInv'
         /\ mem' # mem => lastLr = thread.at
<1>1. PICK r : r = AmoScExec(mem, res, thread.at, thread.val + 1, fault)
  OBVIOUS
<1>2. /\ running = "thread" /\ thread.pc = "sc"
      /\ Leaves(r, [thread EXCEPT !.pc = "idle"])
      /\ done' = IF r.trap \/ r.rd # 0 THEN done ELSE Incremented(thread.at)
  BY <1>1 DEF ThreadSc
<1>3. /\ thread.at \in Operands
      /\ Pairs(res, thread.at) => mem[thread.at[1]] = thread.val /\ lastLr = thread.at
  BY <1>2 DEF AInv, Fresh
<1>4. ~ Misaligned(thread.at) /\ thread.at[1] \in Counters
  BY <1>3, OperandAligned
<1>5. /\ r.res = [res EXCEPT !.valid = FALSE]
      /\ ~ Pairs(res, thread.at) => r.mem = mem /\ r.rd = 1 /\ r.trap = FALSE
      /\ Pairs(res, thread.at) /\ fault => r.mem = mem /\ r.trap = TRUE
      /\ Pairs(res, thread.at) /\ ~ fault =>
           /\ r.mem = [mem EXCEPT ![thread.at[1]] = thread.val + 1]
           /\ r.rd = 0 /\ r.trap = FALSE
  <2>1. PICK at, v : at = thread.at /\ v = thread.val + 1
    OBVIOUS
  <2>2. r = AmoScExec(mem, res, at, v, fault) /\ ~ Misaligned(at)
    BY <1>1, <1>4, <2>1
  <2>3. /\ r.res = [res EXCEPT !.valid = FALSE]
        /\ ~ Pairs(res, at) => r.mem = mem /\ r.rd = 1 /\ r.trap = FALSE
        /\ Pairs(res, at) /\ fault => r.mem = mem /\ r.trap = TRUE
        /\ Pairs(res, at) /\ ~ fault =>
             r.mem = [mem EXCEPT ![at[1]] = v] /\ r.rd = 0 /\ r.trap = FALSE
    <3>1. CASE ~ Pairs(res, at)
      BY <2>2, <3>1 DEF AmoScExec, Result
    <3>2. CASE Pairs(res, at) /\ fault
      BY <2>2, <3>2 DEF AmoScExec, Result
    <3>3. CASE Pairs(res, at) /\ ~ fault
      BY <2>2, <3>3 DEF AmoScExec, Result
    <3> QED
      BY <3>1, <3>2, <3>3
  <2> QED
    BY <2>1, <2>3
<1>6. r.res \in Reservations /\ \A at : ~ Pairs(r.res, at)
  BY <1>5, UsedUp DEF AInv, TypeOK, Reservations
<1>7. CASE Pairs(res, thread.at) /\ fault
  <2>1. /\ mem' = mem /\ res' = r.res /\ running' = "handler" /\ thread' = thread
        /\ handler' = [handler EXCEPT !.pc = "entered"] /\ done' = done
    BY <1>2, <1>5, <1>7 DEF Leaves
  <2> QED
    BY <1>2, <1>6, <2>1, EnterHandler
<1>8. CASE ~ (Pairs(res, thread.at) /\ fault)
  <2>1. /\ mem' = r.mem /\ res' = r.res /\ running' = running /\ handler' = handler
        /\ thread' = [thread EXCEPT !.pc = "idle"]
    BY <1>2, <1>5, <1>8 DEF Leaves
  <2>2. mem' = done' /\ mem' \in [Counters -> Nat] /\ (mem' # mem => Pairs(res, thread.at))
    <3>1. CASE ~ Pairs(res, thread.at)
      BY <1>2, <1>5, <2>1, <3>1 DEF AInv, TypeOK
    <3>2. CASE Pairs(res, thread.at)
      <4>1. mem' = [mem EXCEPT ![thread.at[1]] = mem[thread.at[1]] + 1]
        BY <1>3, <1>5, <1>8, <2>1, <3>2
      <4>2. done' = [mem EXCEPT ![thread.at[1]] = mem[thread.at[1]] + 1]
        BY <1>2, <1>5, <1>8, <3>2 DEF Incremented, AInv
      <4> QED
        BY <1>4, <3>2, <4>1, <4>2 DEF AInv, TypeOK
    <3> QED
      BY <3>1, <3>2
  <2>3. thread' \in Contexts /\ thread'.pc = "idle"
    BY <2>1 DEF AInv, Contexts
  <2>4. TypeOK'
    BY <1>6, <2>1, <2>2, <2>3 DEF AInv, TypeOK, Reservations
  <2>5. Fresh(handler)'
    BY <1>2, <2>1 DEF AInv, Fresh
  <2> QED
    BY <1>2, <1>3, <2>1, <2>2, <2>3, <2>4, <2>5 DEF AInv, Fresh
<1> QED
  BY <1>7, <1>8
LEMMA ThreadAmoKeeps ==
  ASSUME AInv, NEW at \in Attempts, NEW fault \in BOOLEAN, ThreadAmo(at, fault)
  PROVE  AInv'
<1>1. PICK r : r = AmoTypeExec(mem, res, at, fault)
  OBVIOUS
<1>2. /\ running = "thread" /\ thread.pc = "idle"
      /\ Leaves(r, thread)
      /\ done' = IF r.trap THEN done ELSE Incremented(at)
  BY <1>1 DEF ThreadAmo
<1>3. res \in Reservations /\ mem \in [Counters -> Nat]
  BY DEF AInv, TypeOK, Reservations
<1>4. CASE Misaligned(at) \/ fault
  <2>1. r.mem = mem /\ r.res = res /\ r.trap = TRUE
    BY <1>1, <1>4 DEF AmoTypeExec, Result
  <2>2. /\ mem' = mem /\ res' = res /\ running' = "handler" /\ thread' = thread
        /\ handler' = [handler EXCEPT !.pc = "entered"] /\ done' = done
    BY <1>2, <2>1 DEF Leaves
  <2> QED
    BY <1>2, <1>3, <2>2, EnterHandler
<1>5. CASE ~ Misaligned(at) /\ ~ fault
  <2>1. at \in Operands /\ at[1] \in Counters
    BY <1>5, AlignedOperand, OperandAligned DEF Aligned
  <2>2. r.res = res /\ r.trap = FALSE /\ r.mem = [mem EXCEPT ![at[1]] = @ + 1]
    BY <1>1, <1>5 DEF AmoTypeExec, Result
  <2>3. /\ mem' = r.mem /\ res' = res /\ running' = running /\ handler' = handler
        /\ thread' = thread
    BY <1>2, <2>2 DEF Leaves
  <2>4. mem' = done' /\ mem' \in [Counters -> Nat]
    BY <1>2, <1>3, <2>1, <2>2, <2>3 DEF AInv, Incremented
  <2>5. TypeOK'
    BY <2>3, <2>4 DEF AInv, TypeOK
  <2> QED
    BY <1>2, <2>3, <2>4, <2>5 DEF AInv, Fresh
<1> QED
  BY <1>4, <1>5

LEMMA InterruptKeeps ==
  ASSUME AInv, Interrupt
  PROVE  AInv'
BY EnterHandler DEF Interrupt, AInv, TypeOK, Reservations

\* A step of the handler after which no SC is next.
LEMMA HandlerGoesOn ==
  ASSUME AInv, handler.pc # "off", mem' = done', mem' \in [Counters -> Nat],
         res' \in Reservations, thread' = thread, running' = running,
         handler' = [handler EXCEPT !.pc = "leave"]
  PROVE  AInv'
<1>1. handler' \in Contexts /\ handler'.pc = "leave"
  BY DEF AInv, Contexts
<1>2. TypeOK'
  BY <1>1 DEF AInv, TypeOK, Reservations
<1>3. running = "handler"
  BY DEF AInv, TypeOK
<1> QED
  BY <1>1, <1>2, <1>3 DEF AInv, Fresh

LEMMA HandlerLrKeeps ==
  ASSUME AInv, NEW at \in Aligned, NEW size \in {4, 8}, HandlerLr(at, size)
  PROVE  AInv'
<1>1. PICK r : r = AmoLrExec(mem, res, at, FALSE)
  OBVIOUS
<1>2. /\ handler.pc = "entered" /\ mem' = r.mem /\ res' = r.res
      /\ handler' = [pc |-> "sc", at |-> <<at[1], size>>, val |-> r.rd]
      /\ UNCHANGED <<running, thread, traps, done>> /\ lastLr' = at
  BY <1>1 DEF HandlerLr, Handles
<1>3. at \in Operands /\ ~ Misaligned(at)
  BY AlignedOperand DEF Aligned
<1>4. at[1] \in Counters /\ at[2] \in {4, 8} /\ at = <<at[1], at[2]>>
  BY <1>3, OperandAligned
<1>5. /\ r.mem = mem /\ r.rd = mem[at[1]]
      /\ r.res = [addr |-> at[1], size |-> at[2], valid |-> TRUE]
  BY <1>1, <1>3 DEF AmoLrExec, Result
<1>6. handler' \in Contexts /\ <<at[1], size>> \in Operands
  BY <1>2, <1>4, <1>5 DEF AInv, TypeOK, Contexts, Operands
<1>7. TypeOK'
  BY <1>2, <1>4, <1>5, <1>6 DEF AInv, TypeOK
<1>8. running = "handler"
  BY <1>2 DEF AInv, TypeOK
<1>9. Fresh(handler)'
  BY <1>2, <1>4, <1>5, <1>6 DEF Fresh, Pairs
<1> QED
  BY <1>2, <1>5, <1>6, <1>7, <1>8, <1>9 DEF AInv

LEMMA HandlerScKeeps ==
  ASSUME AInv, HandlerSc
  PROVE  /\ AInv'
         /\ mem' # mem => lastLr = handler.at
<1>1. PICK at, v, r : /\ at = handler.at /\ v = handler.val + 1
                      /\ r = AmoScExec(mem, res, at, v, FALSE)
  OBVIOUS
<1>2. /\ handler.pc = "sc" /\ mem' = r.mem /\ res' = r.res
      /\ handler' = [handler EXCEPT !.pc = "leave"]
      /\ running' = running /\ thread' = thread
      /\ done' = IF r.rd # 0 THEN done ELSE Incremented(at)
  BY <1>1 DEF HandlerSc, Handles
<1>3. /\ at \in Operands
      /\ Pairs(res, at) => mem[at[1]] = handler.val /\ lastLr = at
  BY <1>1, <1>2 DEF AInv, Fresh
<1>4. ~ Misaligned(at) /\ at[1] \in Counters
  BY <1>3, OperandAligned
<1>5. /\ r.res = [res EXCEPT !.valid = FALSE]
      /\ ~ Pairs(res, at) => r.mem = mem /\ r.rd = 1
      /\ Pairs(res, at) => r.mem = [mem EXCEPT ![at[1]] = v] /\ r.rd = 0
  <2>1. CASE ~ Pairs(res, at)
    BY <1>1, <1>4, <2>1 DEF AmoScExec, Result
  <2>2. CASE Pairs(res, at)
    BY <1>1, <1>4, <2>2 DEF AmoScExec, Result
  <2> QED
    BY <2>1, <2>2
<1>6. r.res \in Reservations
  BY <1>5, UsedUp DEF AInv, TypeOK, Reservations
<1>7. mem' = done' /\ mem' \in [Counters -> Nat]
  <2>1. CASE ~ Pairs(res, at)
    BY <1>2, <1>5, <2>1 DEF AInv, TypeOK
  <2>2. CASE Pairs(res, at)
    <3>1. mem' = [mem EXCEPT ![at[1]] = mem[at[1]] + 1]
      BY <1>1, <1>2, <1>3, <1>5, <2>2
    <3>2. done' = [mem EXCEPT ![at[1]] = mem[at[1]] + 1]
      BY <1>2, <1>5, <2>2 DEF Incremented, AInv
    <3> QED
      BY <1>4, <3>1, <3>2 DEF AInv, TypeOK
  <2> QED
    BY <2>1, <2>2
<1>8. AInv'
  BY <1>2, <1>6, <1>7, HandlerGoesOn
<1> QED
  BY <1>1, <1>2, <1>3, <1>5, <1>8
LEMMA HandlerAmoKeeps ==
  ASSUME AInv, NEW at \in Aligned, HandlerAmo(at)
  PROVE  AInv'
<1>1. PICK r : r = AmoTypeExec(mem, res, at, FALSE)
  OBVIOUS
<1>2. /\ handler.pc = "entered" /\ mem' = r.mem /\ res' = r.res
      /\ handler' = [handler EXCEPT !.pc = "leave"]
      /\ running' = running /\ thread' = thread /\ done' = Incremented(at)
  BY <1>1 DEF HandlerAmo, Handles
<1>3. ~ Misaligned(at) /\ at[1] \in Counters
  BY AlignedOperand, OperandAligned
<1>4. r.res = res /\ r.mem = [mem EXCEPT ![at[1]] = @ + 1]
  BY <1>1, <1>3 DEF AmoTypeExec, Result
<1>5. mem' = done' /\ mem' \in [Counters -> Nat] /\ res' \in Reservations
  BY <1>2, <1>3, <1>4 DEF AInv, TypeOK, Incremented, Reservations
<1> QED
  BY <1>2, <1>5, HandlerGoesOn

LEMMA HandlerSkipKeeps ==
  ASSUME AInv, HandlerSkip
  PROVE  AInv'
BY HandlerGoesOn DEF HandlerSkip, AInv, TypeOK, Reservations

\* The SC on the way out leaves no reservation to the thread.
LEMMA HandlerReturnKeeps ==
  ASSUME AInv, HandlerReturn
  PROVE  AInv'
<1>1. PICK r : r = AmoScExec([c \in {Scratch} |-> 0], res, <<Scratch, 8>>, 0, FALSE)
  OBVIOUS
<1>2. /\ handler.pc = "leave" /\ res' = r.res
      /\ handler' = [handler EXCEPT !.pc = "off"] /\ running' = "thread"
      /\ mem' = mem /\ thread' = thread /\ done' = done
  BY <1>1 DEF HandlerReturn
<1>3. ~ Misaligned(<<Scratch, 8>>)
  BY AmoAssumption DEF AmoAssumption, Misaligned
<1>4. r.res = [res EXCEPT !.valid = FALSE]
  <2>1. CASE ~ Pairs(res, <<Scratch, 8>>)
    BY <1>1, <1>3, <2>1 DEF AmoScExec, Result
  <2>2. CASE Pairs(res, <<Scratch, 8>>)
    BY <1>1, <1>3, <2>2 DEF AmoScExec, Result
  <2> QED
    BY <2>1, <2>2
<1>5. r.res \in Reservations /\ \A at : ~ Pairs(r.res, at)
  BY <1>4, UsedUp DEF AInv, TypeOK, Reservations
<1>6. handler' \in Contexts /\ handler'.pc = "off"
  BY <1>2 DEF AInv, Contexts
<1>7. TypeOK'
  BY <1>2, <1>5, <1>6 DEF AInv, TypeOK, Reservations
<1> QED
  BY <1>2, <1>5, <1>6, <1>7 DEF AInv, Fresh

\* Every step keeps the invariant, and one that stores for an SC is paired.
LEMMA StepKeeps ==
  ASSUME AInv, [Next]_vars
  PROVE  /\ AInv'
         /\ NextSc # NoLr /\ mem' # mem => lastLr = NextSc
<1>1. ASSUME NEW fault \in BOOLEAN, ThreadSc(fault)
      PROVE  AInv' /\ (mem' # mem => lastLr = NextSc)
  <2>1. running = "thread" /\ thread.pc = "sc"
    BY <1>1 DEF ThreadSc
  <2>2. NextSc = thread.at
    BY <2>1 DEF NextSc, AInv
  <2> QED
    BY <1>1, <2>2, ThreadScKeeps
<1>2. ASSUME NEW fault \in BOOLEAN, NEW at \in Attempts,
             ThreadLr(at, fault) \/ ThreadAmo(at, fault)
      PROVE  AInv' /\ NextSc = NoLr
  <2>1. NextSc = NoLr
    BY <1>2 DEF ThreadLr, ThreadAmo, NextSc, AInv
  <2> QED
    BY <1>2, <2>1, ThreadLrKeeps, ThreadAmoKeeps
<1>3. ASSUME NEW at \in Aligned, HandlerAmo(at)
      PROVE  AInv' /\ NextSc = NoLr
  <2>1. NextSc = NoLr
    BY <1>3 DEF HandlerAmo, NextSc, AInv
  <2> QED
    BY <1>3, <2>1, HandlerAmoKeeps
<1>4. ASSUME NEW at \in Aligned, NEW size \in {4, 8}, HandlerLr(at, size)
      PROVE  AInv' /\ NextSc = NoLr
  <2>1. NextSc = NoLr
    BY <1>4 DEF HandlerLr, NextSc, AInv
  <2> QED
    BY <1>4, <2>1, HandlerLrKeeps
<1>5. ASSUME HandlerSc PROVE AInv' /\ (mem' # mem => lastLr = NextSc)
  <2>1. NextSc = handler.at
    BY <1>5 DEF HandlerSc, NextSc, AInv
  <2> QED
    BY <1>5, <2>1, HandlerScKeeps
<1>6. ASSUME HandlerSkip \/ HandlerReturn \/ Interrupt PROVE AInv' /\ mem' = mem
  BY <1>6, HandlerSkipKeeps, HandlerReturnKeeps, InterruptKeeps
     DEF HandlerSkip, HandlerReturn, Interrupt
<1>7. ASSUME UNCHANGED vars PROVE AInv' /\ mem' = mem
  BY <1>7 DEF vars, AInv, TypeOK, Fresh
<1> QED
  BY <1>1, <1>2, <1>3, <1>4, <1>5, <1>6, <1>7
     DEF Next, ThreadSteps, HandlerSteps, Finished

LEMMA AmoInvariance == Spec => []AInv
<1>1. AInv /\ [Next]_vars => AInv'
  BY StepKeeps
<1> QED
  BY <1>1, InitAInv, PTL DEF Spec

\* Types, and a reservation that never names anything but a counter.
THEOREM AmoTypes == Spec => []TypeOK
<1>1. AInv => TypeOK
  BY DEF AInv
<1> QED
  BY <1>1, AmoInvariance, PTL

\* No increment is lost, wherever AmoLrExec, AmoScExec and AmoTypeExec are
\* interrupted or fail.
THEOREM NoneLost == Spec => []NoLostUpdate
<1>1. AInv => NoLostUpdate
  BY DEF AInv, NoLostUpdate
<1> QED
  BY <1>1, AmoInvariance, PTL

\* An SC stores only if the last LR or SC was an LR of its address and size
\* that completed.
THEOREM ScIsPaired == Spec => ScPairs
<1>1. AInv /\ [Next]_vars => [NextSc # NoLr /\ mem' # mem => lastLr = NextSc]_vars
  BY StepKeeps
<1> QED
  BY <1>1, AmoInvariance, PTL DEF Spec, ScPairs
=============================================================================
