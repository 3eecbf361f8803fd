------------------------------ MODULE Emulator ------------------------------
(***************************************************************************)
(* The running program: main, the thread UartInput and the signal handler  *)
(* SigintHangler of src/rv64_emulator.cc around the serial port, the       *)
(* interrupt controller and the clock.  The guest appears through the      *)
(* device access, if any, of the instruction that a tick runs; at most one *)
(* per tick (loads and stores; an AMO on a device register would make      *)
(* two).  A character is its code.                                         *)
(***************************************************************************)
EXTENDS Plic, Serial, Sequences

CONSTANTS
  Base,           \* of Clint
  Chars,          \* the characters that keys and the guest produce
  Keys,           \* what getchar may return
  Sessions        \* what a run of the program meets: [accesses, keys, signals,
                  \* sent, start, horizon], the device accesses the guest may
                  \* make, bounds on the characters typed, the SIGINTs and the
                  \* characters transmitted, and the first and the last time
                  \* of the clock.  An access is [kind], or [kind, at, val] for
                  \* the serial port and the clock (at an [addr, bytes]),
                  \* [kind, reg, val] for the controller; val maps the names of
                  \* the registers that are stored to their new values, or is
                  \* the number stored in the clock

VARIABLES                \* plic is declared in Plic
  session,       \* the one of Sessions that this is
  uart,          \* see Uart
  clint,         \* see Clint
  now,           \* what ReadGuestTimeStamp returns
  main,          \* where the main thread is in its loop
  delay_cr, send_ctrl_c,   \* the two globals
  recent,        \* the clock still shows the second of the last SIGINT
  alive,         \* exit(0) has not been called
  stdout,        \* what has been printed
  seen           \* history, see NoHistory

vars == <<uart, plic, clint, now, main, delay_cr, send_ctrl_c, recent, alive,
          stdout, seen, session>>

C == INSTANCE Clint WITH Harts <- 1

CR == 13
LF == 10
CtrlC == 3

\* The source id of the serial port.
UartSource == 1

\* What the guest may store in the registers of the two controllers.
UartValues ==
  [ rx_fifo |-> Chars, tx_fifo |-> Chars,
    status |-> SUBSET T!StatusBits, control |-> SUBSET T!ControlBits ]

PlicValues(reg) == IF reg \in {"pending", "enable"} THEN SUBSET Bits ELSE Levels

\* Loads and stores have the widths of the instruction set.  The clock of the
\* host does not reach the end of its range.
ASSUME EmulatorAssumption ==
  /\ Keys \cup {0, CR, CtrlC} \subseteq Chars
  /\ Base \in Nat \ {0, 1} /\ C!PowersOfBase
  /\ \A s \in Sessions : {s.start, s.horizon} \subseteq C!Numbers(8)
  /\ \A s \in Sessions : \A acc \in s.accesses :
       /\ acc.kind \in {"uart load", "uart store"} =>
            acc.at.addr \in Nat /\ acc.at.bytes \in {1, 2, 4, 8}
       /\ acc.kind = "uart store" =>
            \A w \in T!Covers(acc.at) : acc.val[w] \in UartValues[w]
       /\ acc.kind = "plic store" /\ acc.reg.reg # "claim" =>
            acc.val[acc.reg.reg] \in PlicValues(acc.reg.reg)

\* keys: characters typed.  sigs: SIGINTs.  ctrlc: Ctrl-C characters pushed.
\* pushed: characters pushed and not discarded by a reset of the rx buffer
\* that the guest asked for.  received: characters that loads of rx_fifo
\* returned.  sent: characters that the guest stored in tx_fifo and did not
\* ask to discard.  drained: characters taken from the tx buffer.  stray: the
\* buffers that a store meant for another register may have disturbed, see
\* Stray.  held: how often each id was handed out by a load of claim since it
\* was last completed.  time: the last time the guest read.
NoHistory ==
  [ keys |-> 0, sigs |-> 0, ctrlc |-> 0,
    pushed |-> <<>>, received |-> <<>>, sent |-> <<>>, drained |-> <<>>,
    stray |-> {},
    held |-> [c \in Contexts |-> [i \in Sources |-> 0]],
    time |-> 0 ]

Init ==
  /\ session \in Sessions
  /\ uart = T!NewUart
  /\ plic = ResetPlic
  /\ now = session.start
  /\ clint = C!NewClint(now)
  /\ main = "poll"
  /\ delay_cr = FALSE /\ send_ctrl_c = FALSE /\ recent = FALSE
  /\ alive = TRUE
  /\ stdout = <<>>
  /\ seen = NoHistory

-----------------------------------------------------------------------------
(* The main thread                                                         *)

\* UpdateMtime(), and UpdateExt(1, Irq()): the input thread may push before or
\* after Irq looks, and the host's clock goes on after it was read.
Poll ==
  /\ main = "poll"
  /\ clint' = C!DoUpdateMtime(clint, now)
  /\ plic' = DoUpdateExt(plic, UartSource, T!Irq(uart))
  /\ main' = "tick"
  /\ UNCHANGED <<uart, now, delay_cr, send_ctrl_c, recent, alive, stdout, seen>>

\* The calls of GetInterrupt, one for each context; their results are the
\* external interrupt lines of the tick.
Arbitrated ==
  [plic EXCEPT !.ctx = [c \in Contexts |-> DoGetInterrupt(plic, c).ctx[c]]]

PlicAfter(acc) ==
  CASE acc.kind = "plic load"  -> DoLoad(Arbitrated, acc.reg)
    [] acc.kind = "plic store" -> DoStore(Arbitrated, acc.reg, acc.val[acc.reg.reg])
    [] OTHER                   -> Arbitrated

UartAfter(acc) ==
  CASE acc.kind = "uart load"  -> T!DoLoad(uart, acc.at)
    [] acc.kind = "uart store" -> T!DoStore(uart, acc.at, acc.val)
    [] OTHER                   -> uart

ClintAfter(acc) ==
  IF acc.kind = "clint store" /\ C!Mapped(acc.at.addr, acc.at.bytes)
  THEN C!DoStore(clint, acc.at.addr, C!ToBytes(acc.val, acc.at.bytes), acc.at.bytes)
  ELSE clint

\* The lines of the timer and of software interrupts at this tick.
TimerLine == C!MachineTimerIrq(clint, 0)
SoftwareLine == C!MachineSoftwareIrq(clint, 0)

\* The history of a tick.
Held(acc) ==
  CASE acc.kind = "plic load" /\ acc.reg.reg = "claim" ->
         LET c == acc.reg.at
             id == Arbitrated.ctx[c].claim
         IN  [seen.held EXCEPT ![c][id] = IF id = 0 THEN 0 ELSE @ + 1]
    [] acc.kind = "plic store" /\ acc.reg.reg = "claim" ->
         [seen.held EXCEPT ![acc.reg.at] =
            [i \in Sources |-> IF i = acc.val.claim THEN 0 ELSE @[i]]]
    [] OTHER -> seen.held

Received(acc) ==
  IF acc.kind = "uart load" /\ "rx_fifo" \in T!Covers(acc.at) /\ uart.rx # <<>>
  THEN Append(seen.received, T!LoadValue(uart, acc.at).rx_fifo)
  ELSE seen.received

\* The guest stores to register w of the serial port; it asks for a reset by
\* storing its bit to control.
Stores(acc, w) ==
  acc.kind = "uart store" /\ T!InRange(acc.at) /\ w \in T!Covers(acc.at)

AsksFor(acc, bit) == Stores(acc, "control") /\ bit \in acc.val.control

Pushed(acc) == IF AsksFor(acc, "RstRx") THEN seen.received ELSE seen.pushed

Sent(acc) ==
  IF AsksFor(acc, "RstTx") THEN seen.drained
  ELSE IF Stores(acc, "tx_fifo") THEN Append(seen.sent, acc.val.tx_fifo)
  ELSE seen.sent

\* A store that ends just below w and does not reach it; Uart::Store takes it
\* for one to w, with what w held before.
StopsShortOf(acc, w) ==
  /\ acc.kind = "uart store" /\ T!InRange(acc.at)
  /\ T!Touches(acc.at, w) /\ w \notin T!Covers(acc.at)

\* The buffers whose contents are no longer what the guest asked for, until it
\* resets them: by a store that stops short of control while control holds the
\* bit of an old reset, or of tx_fifo.
Stray(acc) ==
  LET again == IF StopsShortOf(acc, "control") THEN uart.reg.control ELSE {}
      rx == "RstRx" \in again \/ ("rx" \in seen.stray /\ ~ AsksFor(acc, "RstRx"))
      tx == \/ "RstTx" \in again \/ StopsShortOf(acc, "tx_fifo")
            \/ "tx" \in seen.stray /\ ~ AsksFor(acc, "RstTx")
  IN  {b \in {"rx", "tx"} : IF b = "rx" THEN rx ELSE tx}

\* A load of mtime returns what the loop last read from the host's clock, an
\* instruction that reads the CSR time asks the clock again (CsrTypeExec).
TimeRead(acc) ==
  CASE acc.kind = "clint load" /\ acc.at = [addr |-> C!kMtimeBase, bytes |-> 8] ->
         C!FromBytes(C!LoadValue(clint, acc.at.addr, 8), 8)
    [] acc.kind = "rdtime" -> now
    [] OTHER -> seen.time

\* CPU::Tick with an instruction that makes the access acc.
Tick(acc) ==
  /\ main = "tick"
  /\ plic' = PlicAfter(acc)
  /\ uart' = UartAfter(acc)
  /\ clint' = ClintAfter(acc)
  /\ main' = "drain"
  /\ seen' = [seen EXCEPT !.held = Held(acc), !.received = Received(acc),
                          !.pushed = Pushed(acc), !.sent = Sent(acc),
                          !.stray = Stray(acc), !.time = TimeRead(acc)]
  /\ UNCHANGED <<now, delay_cr, send_ctrl_c, recent, alive, stdout>>

\* Mutant: a delayed CR is dropped before any character.
Echo_DropCr(ch, delayed) == IF ch = CR THEN <<>> ELSE <<ch>>

\* What one iteration of the drain loop prints.
Echo(ch, delayed) ==
  IF ch = CR THEN <<>>
  ELSE IF delayed /\ ch # LF THEN <<CR, ch>>
  ELSE <<ch>>

Drain ==
  /\ main = "drain"
  /\ T!TxBufferNotEmpty(uart)
  /\ LET ch == Head(uart.tx)
     IN  /\ stdout' = stdout \o Echo(ch, delay_cr)
         /\ delay_cr' = (ch = CR)
         /\ seen' = [seen EXCEPT !.drained = Append(@, ch)]
  /\ uart' = T!DoGetc(uart)
  /\ UNCHANGED <<plic, clint, now, main, send_ctrl_c, recent, alive>>

Drained ==
  /\ main = "drain"
  /\ ~ T!TxBufferNotEmpty(uart)
  /\ main' = "ctrlc"
  /\ UNCHANGED <<uart, plic, clint, now, delay_cr, send_ctrl_c, recent, alive, stdout, seen>>

\* The test of send_ctrl_c, the push and the clearing of the flag are three
\* steps: the handler may run between any two.
TestCtrlC ==
  /\ main = "ctrlc"
  /\ main' = IF send_ctrl_c THEN "putc" ELSE "poll"
  /\ UNCHANGED <<uart, plic, clint, now, delay_cr, send_ctrl_c, recent, alive, stdout, seen>>

\* Mutant: Ctrl-C is pushed into an empty buffer only.
PutCtrlC_IfEmpty ==
  /\ main = "putc"
  /\ IF uart.rx = <<>>
     THEN /\ uart' = T!DoPutc(uart, CtrlC)
          /\ seen' = [seen EXCEPT !.pushed = Append(@, CtrlC), !.ctrlc = @ + 1]
     ELSE UNCHANGED <<uart, seen>>
  /\ main' = "clear"
  /\ UNCHANGED <<plic, clint, now, delay_cr, send_ctrl_c, recent, alive, stdout>>

PutCtrlC ==
  /\ main = "putc"
  /\ uart' = T!DoPutc(uart, CtrlC)
  /\ main' = "clear"
  /\ seen' = [seen EXCEPT !.pushed = Append(@, CtrlC), !.ctrlc = @ + 1]
  /\ UNCHANGED <<plic, clint, now, delay_cr, send_ctrl_c, recent, alive, stdout>>

\* Mutant: the flag stays up.
ClearCtrlC_Forgets ==
  /\ main = "clear"
  /\ main' = "poll"
  /\ UNCHANGED <<uart, plic, clint, now, delay_cr, send_ctrl_c, recent, alive, stdout, seen>>

ClearCtrlC ==
  /\ main = "clear"
  /\ send_ctrl_c' = FALSE
  /\ main' = "poll"
  /\ UNCHANGED <<uart, plic, clint, now, delay_cr, recent, alive, stdout, seen>>

-----------------------------------------------------------------------------
(* The input thread, the signal handler and the clock                      *)

\* One round of UartInput.  At end of file getchar returns EOF, 255 as a
\* char, again and again: it is a key like any other.
UartInput(key) ==
  /\ seen.keys < session.keys
  /\ LET ch == IF key = LF THEN CR ELSE key
     IN  /\ uart' = T!DoPutc(uart, ch)
         /\ seen' = [seen EXCEPT !.pushed = Append(@, ch), !.keys = @ + 1]
  /\ UNCHANGED <<plic, clint, now, main, delay_cr, send_ctrl_c, recent, alive, stdout>>

\* A second SIGINT in the same second of the clock ends the program.
SigintHangler ==
  /\ seen.sigs < session.signals
  /\ seen' = [seen EXCEPT !.sigs = @ + 1]
  /\ IF recent
     THEN alive' = FALSE /\ UNCHANGED <<send_ctrl_c, recent>>
     ELSE send_ctrl_c' = TRUE /\ recent' = TRUE /\ UNCHANGED alive
  /\ UNCHANGED <<uart, plic, clint, now, main, delay_cr, stdout>>

\* The counter of the host goes on: by any amount, in several steps.
TimePasses ==
  /\ now < session.horizon
  /\ now' = now + 1
  /\ UNCHANGED <<uart, plic, clint, main, delay_cr, send_ctrl_c, recent, alive,
                 stdout, seen>>

SecondPasses ==
  /\ recent
  /\ recent' = FALSE
  /\ UNCHANGED <<uart, plic, clint, now, main, delay_cr, send_ctrl_c, alive, stdout, seen>>

-----------------------------------------------------------------------------

Loop == Poll \/ Drain \/ Drained \/ TestCtrlC \/ PutCtrlC \/ ClearCtrlC

Host == (\E key \in Keys : UartInput(key)) \/ SigintHangler \/ SecondPasses
          \/ TimePasses

\* The guest stops transmitting after a number of characters.
MayMake(acc) ==
  acc.kind = "uart store" =>
    /\ Len(seen.drained) + Len(UartAfter(acc).tx) <= session.sent
    /\ Len(Sent(acc)) <= session.sent

Exited == ~ alive /\ UNCHANGED vars

Next ==
  \/ alive /\ (Loop \/ Host) /\ UNCHANGED session
  \/ alive /\ (\E acc \in session.accesses : MayMake(acc) /\ Tick(acc))
           /\ UNCHANGED session
  \/ Exited

Spec == Init /\ [][Next]_vars

-----------------------------------------------------------------------------
(* Properties                                                              *)

\* No context is handed an interrupt again before it has completed it: the
\* claim register that Plic::Load returns is recomputed by GetInterrupt in
\* every iteration of the main loop, so it never names a source in service.
NoDoubleClaim == \A c \in Contexts, i \in Sources : seen.held[c][i] <= 1

\* Every character pushed by UartInput or by the Ctrl-C branch reaches the
\* guest once and in order unless the guest resets the rx buffer, whatever other
\* accesses fall between (Uart::Load pops only when rx_fifo is read), with one
\* exception: a store that stops short of control, as one to status does, obeys
\* the RstRx that control still holds again, and after it characters are lost
\* that the guest did not discard, until it next resets the buffer.
RxInOrder == "rx" \notin seen.stray => seen.pushed = seen.received \o uart.rx

\* What the terminal shows of a stream: the CR of each CR LF is removed, a run
\* of CRs collapsed into one and a last CR held back.
Cooked(s) ==
  LET shown(i) == IF s[i] = CR THEN <<>>
                  ELSE IF i > 1 /\ s[i - 1] = CR /\ s[i] # LF THEN <<CR, s[i]>>
                  ELSE <<s[i]>>
      upto[i \in 0 .. Len(s)] == IF i = 0 THEN <<>> ELSE upto[i - 1] \o shown(i)
  IN  upto[Len(s)]

\* The terminal shows the drained stream cooked, although each character is
\* drained in an iteration of its own (delay_cr carries over).  What is drained
\* is what the guest stored in tx_fifo, once and in order, but for what it
\* discarded by a reset; with one exception: a store that stops short of tx_fifo
\* pushes the character stored there before, one that stops short of control
\* obeys the old RstTx, and after either the stream is another one, until the
\* guest next resets the buffer.
TerminalCooked ==
  /\ stdout = Cooked(seen.drained)
  /\ "tx" \notin seen.stray => seen.sent = seen.drained \o uart.tx

\* Ctrl-C reaches the guest at most once for each SIGINT, and the one that
\* ends the program is not sent: the flag is cleared only after the push.
CtrlCOncePerSignal ==
  seen.ctrlc + (IF send_ctrl_c /\ main # "clear" THEN 1 ELSE 0)
    + (IF alive THEN 0 ELSE 1) <= seen.sigs

\* Time never goes backwards for the guest, whether it loads mtime, which the
\* loop refreshes once per iteration and the guest may itself overwrite, or
\* reads the CSR time, which asks the host's clock.
TimeMonotone == [][seen'.time >= seen.time]_vars
=============================================================================
