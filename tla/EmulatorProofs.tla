--------------------------- MODULE EmulatorProofs ---------------------------
(***************************************************************************)
(* The main loop, the input thread and the signal handler, for any number  *)
(* of keys, signals and characters and any guest: no Ctrl-C without its    *)
(* signal, characters once and in order both ways, no interrupt claimed    *)
(* twice, no time going backwards.  With the guest of module Drivers: no   *)
(* timer rings early, and a handler finds the interrupt it was called for. *)
(***************************************************************************)
EXTENDS Drivers, DeviceProofs

(* The serial port                                                         *)

UartType == UartOf(Chars)

-----------------------------------------------------------------------------
(* The interrupt controller                                                *)

\* The two calls of GetInterrupt before a tick: claim is what the loop finds,
\* and claimed stays.
LEMMA ArbitratedPlic ==
  ASSUME plic \in PlicType
  PROVE  /\ Arbitrated \in PlicType
         /\ \A c \in Contexts : /\ Claimed(Arbitrated, c) = Claimed(plic, c)
                                /\ Arbitrated.ctx[c].claim = Scan(plic, c)
<1>1. ASSUME NEW c \in Contexts
      PROVE  DoGetInterrupt(plic, c).ctx[c] = [plic.ctx[c] EXCEPT !.claim = Scan(plic, c)]
  BY DEF DoGetInterrupt, PlicType
<1>2. \A c \in Contexts : Scan(plic, c) \in Sources
  BY ScanEligible
<1>3. Arbitrated = [plic EXCEPT !.ctx = [c \in Contexts |->
                      [plic.ctx[c] EXCEPT !.claim = Scan(plic, c)]]]
  BY <1>1 DEF Arbitrated
<1>4. \A c \in Contexts : [plic.ctx[c] EXCEPT !.claim = Scan(plic, c)] \in CtxType
  BY <1>2 DEF PlicType, CtxType
<1>5. /\ Arbitrated.ctx = [c \in Contexts |-> [plic.ctx[c] EXCEPT !.claim = Scan(plic, c)]]
      /\ Arbitrated.priority = plic.priority /\ Arbitrated.pending = plic.pending
  BY <1>3 DEF PlicType
<1>6. Arbitrated \in PlicType
  BY <1>3, <1>4, Zenon DEF PlicType, CtxType
<1> QED
  BY <1>5, <1>6 DEF PlicType, Claimed

-----------------------------------------------------------------------------
(* The invariant                                                           *)

SeenType(time) ==
  [ keys : Nat, sigs : Nat, ctrlc : Nat,
    pushed : Seq(Chars), received : Seq(Chars), sent : Seq(Chars),
    drained : Seq(Chars), stray : SUBSET {"rx", "tx"},
    held : [Contexts -> [Sources -> Nat]], time : {time} ]

Places == {"poll", "tick", "drain", "ctrlc", "putc", "clear"}

Typed ==
  /\ session \in Sessions
  /\ uart \in UartType
  /\ plic \in PlicType
  /\ seen \in SeenType(seen.time)
  /\ main \in Places
  /\ send_ctrl_c \in BOOLEAN /\ alive \in BOOLEAN

\* What a context was handed and has not completed, it has claimed.
HeldIsClaimed ==
  \A c \in Contexts, i \in Sources :
    /\ seen.held[c][i] <= 1
    /\ seen.held[c][i] > 0 => i # 0 /\ i \in Claimed(plic, c)

EInv ==
  /\ Typed
  /\ main = "putc" => send_ctrl_c
  /\ CtrlCOncePerSignal
  /\ RxInOrder
  /\ HeldIsClaimed

LEMMA InitInv == Init => EInv
<1> SUFFICES ASSUME Init PROVE EInv
  OBVIOUS
<1>1. uart \in UartType /\ uart.rx = <<>>
  <2>1. 0 \in Chars
    BY EmulatorAssumption, Zenon DEF EmulatorAssumption
  <2> QED
    BY <2>1, NewUartType DEF Init, T!NewUart, UartType
<1>2. plic \in PlicType
  BY ResetPlicType DEF Init
<1>3. seen = NoHistory
  BY DEF Init
<1>4. <<>> \in Seq(Chars)
  OBVIOUS
<1>5. seen \in SeenType(seen.time)
  BY <1>3, <1>4 DEF NoHistory, SeenType
<1>6. Typed
  BY <1>1, <1>2, <1>5, Zenon DEF Init, Typed, Places
<1>7. CtrlCOncePerSignal
  BY <1>3 DEF Init, CtrlCOncePerSignal, NoHistory
<1>8. RxInOrder
  BY <1>1, <1>3, <1>4 DEF RxInOrder, NoHistory
<1>9. HeldIsClaimed
  BY <1>3 DEF HeldIsClaimed, NoHistory
<1> QED
  BY <1>6, <1>7, <1>8, <1>9 DEF EInv, Init

\* A step that leaves the queues, the controller and the history alone.
LEMMA QuietInv ==
  ASSUME EInv, UNCHANGED <<uart, plic, seen, session>>,
         main' \in Places, send_ctrl_c' \in BOOLEAN, alive' = alive,
         main' = "putc" => send_ctrl_c',
         send_ctrl_c' /\ main' # "clear" => send_ctrl_c /\ main # "clear"
  PROVE  EInv'
<1>1. Typed'
  BY DEF EInv, Typed, SeenType
<1>2. RxInOrder' /\ HeldIsClaimed'
  BY Zenon DEF EInv, RxInOrder, HeldIsClaimed, Claimed
<1>3. CtrlCOncePerSignal'
  BY DEF EInv, Typed, CtrlCOncePerSignal, SeenType
<1> QED
  BY <1>1, <1>2, <1>3 DEF EInv

LEMMA PollInv ==
  ASSUME EInv, Poll, UNCHANGED session
  PROVE  EInv'
<1>1. T!Irq(uart) \in BOOLEAN
  BY DEF EInv, Typed, UartType, UartOf, T!Irq
<1>2. plic' \in PlicType /\ plic'.ctx = plic.ctx
  <2>1. UartSource \in Sources
    BY PlicAssumption DEF PlicAssumption, Sources, UartSource
  <2> QED
    BY <1>1, <2>1, UpdateExtPlic DEF Poll, EInv, Typed
<1>3. Typed'
  BY <1>2 DEF EInv, Typed, SeenType, Poll, Places
<1>4. RxInOrder' /\ HeldIsClaimed'
  BY <1>2, Zenon DEF EInv, RxInOrder, HeldIsClaimed, Claimed, Poll
<1>5. CtrlCOncePerSignal'
  BY DEF EInv, Typed, CtrlCOncePerSignal, SeenType, Poll
<1> QED
  BY <1>3, <1>4, <1>5 DEF EInv, Poll

LEMMA DrainInv ==
  ASSUME EInv, Drain, UNCHANGED session
  PROVE  EInv'
<1>1. uart' \in UartType /\ uart'.rx = uart.rx /\ Head(uart.tx) \in Chars
  BY GetcUart DEF UartType, Drain, T!TxBufferNotEmpty, EInv, Typed
<1>2. PICK d : d = Append(seen.drained, Head(uart.tx))
  BY Zenon
<1>3. d \in Seq(Chars)
  BY <1>1, <1>2 DEF EInv, Typed, SeenType
<1>4. seen' = [seen EXCEPT !.drained = d]
  BY <1>2 DEF Drain, EInv, Typed, SeenType
<1>5. seen' \in SeenType(seen'.time)
  BY <1>3, <1>4, Zenon DEF EInv, Typed, SeenType
<1>6. Typed'
  BY <1>1, <1>5 DEF EInv, Typed, Drain
<1>7. /\ seen'.pushed = seen.pushed /\ seen'.received = seen.received /\ seen'.held = seen.held
      /\ seen'.stray = seen.stray
      /\ seen'.ctrlc = seen.ctrlc /\ seen'.sigs = seen.sigs
  BY <1>4 DEF EInv, Typed, SeenType
<1>8. RxInOrder' /\ HeldIsClaimed'
  BY <1>1, <1>7, Zenon DEF EInv, RxInOrder, HeldIsClaimed, Claimed, Drain
<1>9. CtrlCOncePerSignal'
  BY <1>7 DEF EInv, CtrlCOncePerSignal, Drain
<1> QED
  BY <1>6, <1>8, <1>9 DEF EInv, Drain

LEMMA SigintInv ==
  ASSUME EInv, SigintHangler, alive, UNCHANGED session
  PROVE  EInv'
<1>0. PICK n \in Nat : n = seen.sigs + 1
  BY DEF EInv, Typed, SeenType
<1>1. seen' = [seen EXCEPT !.sigs = n]
  BY <1>0 DEF SigintHangler, EInv, Typed, SeenType
<1>2. seen' \in SeenType(seen'.time)
  BY <1>1, Zenon DEF EInv, Typed, SeenType
<1>3. Typed'
  BY <1>2, Zenon DEF EInv, Typed, SigintHangler
<1>4. /\ seen'.pushed = seen.pushed /\ seen'.received = seen.received /\ seen'.held = seen.held
      /\ seen'.stray = seen.stray
      /\ seen'.ctrlc = seen.ctrlc /\ seen'.sigs = seen.sigs + 1
  BY <1>0, <1>1 DEF EInv, Typed, SeenType
<1>5. RxInOrder' /\ HeldIsClaimed'
  BY <1>4, Zenon DEF EInv, RxInOrder, HeldIsClaimed, Claimed, SigintHangler
<1>6. seen.ctrlc \in Nat /\ seen.sigs \in Nat
  BY DEF EInv, Typed, SeenType
<1>7. CtrlCOncePerSignal'
  <2>1. seen.ctrlc + (IF send_ctrl_c /\ main # "clear" THEN 1 ELSE 0) <= seen.sigs
    BY <1>6 DEF EInv, CtrlCOncePerSignal
  <2>2. CASE recent
    <3>1. send_ctrl_c' = send_ctrl_c /\ main' = main /\ ~ alive'
      BY <2>2 DEF SigintHangler
    <3> QED
      BY <1>4, <1>6, <2>1, <3>1 DEF CtrlCOncePerSignal
  <2>3. CASE ~ recent
    <3>1. main' = main /\ alive'
      BY <2>3 DEF SigintHangler
    <3>2. seen.ctrlc <= seen.sigs
      BY <1>6, <2>1
    <3> QED
      BY <1>4, <1>6, <3>1, <3>2 DEF CtrlCOncePerSignal
  <2> QED
    BY <2>2, <2>3
<1> QED
  BY <1>3, <1>5, <1>7, Zenon DEF EInv, SigintHangler

LEMMA PushOrder ==
  ASSUME EInv, NEW ch \in Chars, "rx" \notin seen.stray
  PROVE  Append(seen.pushed, ch) = seen.received \o Append(uart.rx, ch)
<1>1. PICK a \in Seq(Chars), b \in Seq(Chars) :
        a = seen.received /\ b = uart.rx /\ seen.pushed = a \o b
  BY Zenon DEF EInv, Typed, SeenType, UartType, UartOf, RxInOrder
<1>2. Append(a \o b, ch) = a \o Append(b, ch)
  OBVIOUS
<1> QED
  BY <1>1, <1>2

\* A character pushed by the input thread or by the Ctrl-C branch.
LEMMA PutcInv ==
  ASSUME EInv, NEW ch \in Chars, uart' = T!DoPutc(uart, ch),
         NEW k \in Nat, NEW n \in Nat,
         seen' = [seen EXCEPT !.pushed = Append(seen.pushed, ch), !.keys = k, !.ctrlc = n]
  PROVE  /\ uart' \in UartType
         /\ seen' \in SeenType(seen'.time)
         /\ RxInOrder'
         /\ seen'.held = seen.held /\ seen'.sigs = seen.sigs /\ seen'.ctrlc = n
<1>1. uart' \in UartType /\ uart'.rx = Append(uart.rx, ch)
  BY PutcUart DEF UartType, EInv, Typed
<1>2. /\ seen.pushed \in Seq(Chars) /\ seen.received \in Seq(Chars) /\ uart.rx \in Seq(Chars)
  BY DEF EInv, Typed, SeenType, UartType, UartOf
<1>3. Append(seen.pushed, ch) \in Seq(Chars)
  BY <1>2
<1>4. seen' \in SeenType(seen'.time)
  BY <1>3, Zenon DEF EInv, Typed, SeenType
<1>5. /\ seen'.pushed = Append(seen.pushed, ch) /\ seen'.received = seen.received
      /\ seen'.stray = seen.stray
      /\ seen'.held = seen.held /\ seen'.sigs = seen.sigs /\ seen'.ctrlc = n
  BY DEF EInv, Typed, SeenType
<1> QED
  BY <1>1, <1>4, <1>5, PushOrder, Zenon DEF RxInOrder
LEMMA PutCtrlCInv ==
  ASSUME EInv, PutCtrlC, UNCHANGED session
  PROVE  EInv'
<1>1. CtrlC \in Chars
  BY EmulatorAssumption, Zenon DEF EmulatorAssumption
<1>2. PICK k \in Nat, n \in Nat : k = seen.keys /\ n = seen.ctrlc + 1
  BY DEF EInv, Typed, SeenType
<1>3. seen' = [seen EXCEPT !.pushed = Append(seen.pushed, CtrlC), !.keys = k, !.ctrlc = n]
  BY <1>2, Zenon DEF PutCtrlC, EInv, Typed, SeenType
<1>4. uart' = T!DoPutc(uart, CtrlC)
  BY DEF PutCtrlC
<1>5. /\ uart' \in UartType /\ seen' \in SeenType(seen'.time) /\ RxInOrder'
      /\ seen'.held = seen.held /\ seen'.sigs = seen.sigs /\ seen'.ctrlc = n
  BY <1>1, <1>3, <1>4, PutcInv, Zenon
<1>6. Typed'
  BY <1>5 DEF EInv, Typed, PutCtrlC, Places
<1>7. HeldIsClaimed'
  BY <1>5 DEF EInv, HeldIsClaimed, Claimed, PutCtrlC
<1>8. CtrlCOncePerSignal'
  <2>1. main' = "clear" /\ alive' = alive /\ main = "putc" /\ send_ctrl_c
    BY DEF PutCtrlC, EInv
  <2>2. seen.ctrlc + 1 + (IF alive THEN 0 ELSE 1) <= seen.sigs
    BY <2>1 DEF EInv, CtrlCOncePerSignal
  <2>3. seen.ctrlc \in Nat /\ seen.sigs \in Nat
    BY DEF EInv, Typed, SeenType
  <2>4. seen'.ctrlc + 0 + (IF alive' THEN 0 ELSE 1) <= seen'.sigs
    BY <1>2, <1>5, <2>1, <2>2, <2>3
  <2> QED
    BY <2>1, <2>4 DEF CtrlCOncePerSignal
<1> QED
  BY <1>5, <1>6, <1>7, <1>8 DEF EInv, PutCtrlC

LEMMA UartInputInv ==
  ASSUME EInv, NEW key \in Keys, UartInput(key), UNCHANGED session
  PROVE  EInv'
<1>1. PICK ch \in Chars : ch = IF key = LF THEN CR ELSE key
  BY EmulatorAssumption, Zenon DEF EmulatorAssumption
<1>2. PICK k \in Nat, n \in Nat : k = seen.keys + 1 /\ n = seen.ctrlc
  BY DEF EInv, Typed, SeenType
<1>3. seen' = [seen EXCEPT !.pushed = Append(seen.pushed, ch), !.keys = k, !.ctrlc = n]
  BY <1>1, <1>2, Zenon DEF UartInput, EInv, Typed, SeenType
<1>4. uart' = T!DoPutc(uart, ch)
  BY <1>1 DEF UartInput
<1>5. /\ uart' \in UartType /\ seen' \in SeenType(seen'.time) /\ RxInOrder'
      /\ seen'.held = seen.held /\ seen'.sigs = seen.sigs /\ seen'.ctrlc = n
  BY <1>3, <1>4, PutcInv, Zenon
<1>6. Typed'
  BY <1>5 DEF EInv, Typed, UartInput
<1>7. HeldIsClaimed'
  BY <1>5 DEF EInv, HeldIsClaimed, Claimed, UartInput
<1>8. CtrlCOncePerSignal'
  BY <1>2, <1>5 DEF EInv, CtrlCOncePerSignal, UartInput
<1> QED
  BY <1>5, <1>6, <1>7, <1>8 DEF EInv, UartInput

-----------------------------------------------------------------------------
(* The tick                                                                *)

\* An access other than a store to the serial port leaves the history of what
\* the guest asked for alone.
LEMMA NoStoreHistory ==
  ASSUME EInv, NEW acc, acc.kind # "uart store"
  PROVE  Pushed(acc) = seen.pushed /\ Sent(acc) = seen.sent /\ Stray(acc) = seen.stray
<1>1. /\ \A w : ~ Stores(acc, w) /\ ~ StopsShortOf(acc, w)
      /\ \A b : ~ AsksFor(acc, b)
  BY DEF Stores, StopsShortOf, AsksFor
<1>2. seen.stray \subseteq {"rx", "tx"}
  BY DEF EInv, Typed, SeenType
<1>3. Pushed(acc) = seen.pushed /\ Sent(acc) = seen.sent
  BY <1>1 DEF Pushed, Sent
<1>4. Stray(acc) = seen.stray
  BY <1>1, <1>2 DEF Stray
<1> QED
  BY <1>3, <1>4

IsUartStore(acc) == acc.kind = "uart store"

\* The queues at a store, if Stray(acc) does not name them: each is as it was,
\* empty because the guest asked for it, or one character longer because the
\* guest stored it.
LEMMA StoreAsAsked ==
  ASSUME EInv, NEW acc \in session.accesses, IsUartStore(acc),
         NEW v, v = T!DoStore(uart, acc.at, acc.val)
  PROVE  /\ "rx" \notin Stray(acc) =>
              IF AsksFor(acc, "RstRx") THEN v.rx = <<>>
              ELSE v.rx = uart.rx /\ "rx" \notin seen.stray
         /\ "tx" \notin Stray(acc) =>
              IF AsksFor(acc, "RstTx") THEN v.tx = <<>>
              ELSE /\ "tx" \notin seen.stray
                   /\ v.tx = IF Stores(acc, "tx_fifo") THEN Append(uart.tx, acc.val.tx_fifo)
                             ELSE uart.tx
<1>0. uart \in UartOf(Chars)
  BY DEF EInv, Typed, UartType
<1>1. /\ "control" \in T!Covers(acc.at) => T!Touches(acc.at, "control")
      /\ "tx_fifo" \in T!Covers(acc.at) => T!Touches(acc.at, "tx_fifo")
  <2>1. acc.at.addr \in Nat /\ acc.at.bytes \in {1, 2, 4, 8}
    BY EmulatorAssumption, ZenonT(30) DEF EmulatorAssumption, EInv, Typed, IsUartStore
  <2> QED
    BY <2>1 DEF T!Covers, T!Touches, T!Words, T!UartReg
<1>2. PICK a, again : /\ a = acc.at
                      /\ again = IF StopsShortOf(acc, "control") THEN uart.reg.control ELSE {}
  BY Zenon
<1>3. /\ "rx" \notin Stray(acc) => /\ "RstRx" \notin again
                                   /\ "rx" \notin seen.stray \/ AsksFor(acc, "RstRx")
      /\ "tx" \notin Stray(acc) => /\ "RstTx" \notin again /\ ~ StopsShortOf(acc, "tx_fifo")
                                   /\ "tx" \notin seen.stray \/ AsksFor(acc, "RstTx")
  BY <1>2 DEF Stray
<1>4. CASE ~ T!InRange(a)
  <2>1. v = uart
    BY <1>2, <1>4 DEF T!DoStore
  <2>2. ~ AsksFor(acc, "RstRx") /\ ~ AsksFor(acc, "RstTx") /\ ~ Stores(acc, "tx_fifo")
    BY <1>2, <1>4 DEF AsksFor, Stores
  <2> QED
    BY <1>3, <2>1, <2>2, Zenon
<1>5. CASE T!InRange(a)
  <2>0. v = T!DoStore(uart, a, acc.val)
    BY <1>2
  <2>1. PICK cmd, ch :
          /\ cmd = IF "control" \in T!Covers(a) THEN acc.val.control ELSE uart.reg.control
          /\ ch = IF "tx_fifo" \in T!Covers(a) THEN acc.val.tx_fifo ELSE uart.reg.tx_fifo
          /\ v.rx = IF T!Touches(a, "control") /\ "RstRx" \in cmd THEN <<>> ELSE uart.rx
          /\ v.tx = IF T!Touches(a, "control") /\ "RstTx" \in cmd THEN <<>>
                    ELSE IF T!Touches(a, "tx_fifo") THEN Append(uart.tx, ch) ELSE uart.tx
    BY <1>0, <1>5, <2>0, StoreQueues
  <2>2. ASSUME NEW bit, bit \notin again
        PROVE  T!Touches(a, "control") /\ bit \in cmd <=> AsksFor(acc, bit)
    BY <1>1, <1>2, <1>5, <2>1, <2>2, Zenon DEF AsksFor, Stores, StopsShortOf, IsUartStore
  <2>3. ~ StopsShortOf(acc, "tx_fifo") =>
          /\ T!Touches(a, "tx_fifo") <=> Stores(acc, "tx_fifo")
          /\ Stores(acc, "tx_fifo") => ch = acc.val.tx_fifo
    BY <1>1, <1>2, <1>5, <2>1, Zenon DEF Stores, StopsShortOf, IsUartStore
  <2>4. "rx" \notin Stray(acc) =>
          IF AsksFor(acc, "RstRx") THEN v.rx = <<>>
          ELSE v.rx = uart.rx /\ "rx" \notin seen.stray
    BY <1>3, <2>1, <2>2, Zenon
  <2>5. "tx" \notin Stray(acc) =>
          IF AsksFor(acc, "RstTx") THEN v.tx = <<>>
          ELSE /\ "tx" \notin seen.stray
               /\ v.tx = IF Stores(acc, "tx_fifo") THEN Append(uart.tx, acc.val.tx_fifo)
                         ELSE uart.tx
    BY <1>3, <2>1, <2>2, <2>3, Zenon
  <2> QED
    BY <2>4, <2>5
<1> QED
  BY <1>4, <1>5

\* The serial port at a tick: what leaves rx is received or discarded as the
\* guest asked.
LEMMA TickUart ==
  ASSUME EInv, NEW acc \in session.accesses
  PROVE  /\ UartAfter(acc) \in UartType
         /\ Received(acc) \in Seq(Chars) /\ Pushed(acc) \in Seq(Chars)
         /\ Sent(acc) \in Seq(Chars) /\ Stray(acc) \in SUBSET {"rx", "tx"}
         /\ "rx" \notin Stray(acc) => Pushed(acc) = Received(acc) \o UartAfter(acc).rx
<1>1. /\ uart \in UartType /\ seen.received \in Seq(Chars) /\ seen.pushed \in Seq(Chars)
      /\ seen.sent \in Seq(Chars) /\ seen.drained \in Seq(Chars) /\ uart.rx \in Seq(Chars)
      /\ "rx" \notin seen.stray => seen.pushed = seen.received \o uart.rx
  BY DEF EInv, Typed, SeenType, UartType, UartOf, RxInOrder
<1>0. Stray(acc) \in SUBSET {"rx", "tx"}
  BY DEF Stray
<1>2. CASE acc.kind = "uart load"
  <2>1. PICK v : v = T!DoLoad(uart, acc.at)
    OBVIOUS
  <2>2. /\ UartAfter(acc) = v /\ Pushed(acc) = seen.pushed
        /\ Sent(acc) = seen.sent /\ Stray(acc) = seen.stray
    BY <1>2, <2>1, NoStoreHistory, Zenon DEF UartAfter
  <2>3. acc.at.addr \in Nat /\ acc.at.bytes \in {1, 2, 4, 8}
    BY <1>2, EmulatorAssumption, ZenonT(30) DEF EmulatorAssumption, EInv, Typed
  <2>4. /\ "rx_fifo" \in T!Covers(acc.at) <=> acc.at.addr = 0
        /\ T!InRange(acc.at) /\ T!Touches(acc.at, "rx_fifo") <=> acc.at.addr = 0
    BY <2>3 DEF T!Covers, T!InRange, T!Touches, T!Words, T!UartReg
  <2>5. v \in UartType /\ v.rx = IF acc.at.addr = 0 /\ uart.rx # <<>> THEN Tail(uart.rx) ELSE uart.rx
    BY <1>1, <2>1, <2>4, LoadUart DEF UartType
  <2>6. CASE acc.at.addr = 0 /\ uart.rx # <<>>
    <3>1. T!LoadValue(uart, acc.at).rx_fifo = Head(uart.rx)
      BY <1>1, <2>4, <2>6, RefreshType DEF T!LoadValue, UartType
    <3>2. Received(acc) = Append(seen.received, Head(uart.rx))
      BY <1>2, <2>4, <2>6, <3>1, Zenon DEF Received
    <3>3. Append(seen.received, Head(uart.rx)) \o Tail(uart.rx) = seen.received \o uart.rx
      BY <1>1, <2>6, MoveHead, ZenonT(40)
    <3>4. Append(seen.received, Head(uart.rx)) \in Seq(Chars)
      BY <1>1, <2>6, MoveHead
    <3> QED
      BY <1>0, <1>1, <2>2, <2>5, <2>6, <3>2, <3>3, <3>4, Zenon
  <2>7. CASE ~ (acc.at.addr = 0 /\ uart.rx # <<>>)
    <3>1. Received(acc) = seen.received
      BY <2>4, <2>7, Zenon DEF Received
    <3> QED
      BY <1>0, <1>1, <2>2, <2>5, <2>7, <3>1, Zenon
  <2> QED
    BY <2>6, <2>7
<1>3. CASE acc.kind = "uart store"
  <2>1. PICK v : v = T!DoStore(uart, acc.at, acc.val)
    OBVIOUS
  <2>2. UartAfter(acc) = v /\ Received(acc) = seen.received
    BY <1>3, <2>1, Zenon DEF UartAfter, Received
  <2>3. \A w \in T!Covers(acc.at) : acc.val[w] \in UartValues[w]
    BY <1>3, EmulatorAssumption, Zenon DEF EmulatorAssumption, EInv, Typed
  <2>4. v \in UartType
    BY <1>1, <2>1, <2>3, StoreUart DEF UartType, UartValues, RegValues
  <2>5. Pushed(acc) \in Seq(Chars)
    BY <1>1 DEF Pushed
  <2>6. Sent(acc) \in Seq(Chars)
    <3>1. Stores(acc, "tx_fifo") => acc.val.tx_fifo \in Chars
      BY <2>3 DEF Stores, UartValues
    <3> QED
      BY <1>1, <3>1 DEF Sent
  <2>7. ASSUME "rx" \notin Stray(acc) PROVE Pushed(acc) = seen.received \o v.rx
    <3>1. IF AsksFor(acc, "RstRx") THEN v.rx = <<>>
          ELSE v.rx = uart.rx /\ "rx" \notin seen.stray
      BY <1>3, <2>1, <2>7, StoreAsAsked, Zenon DEF IsUartStore
    <3>2. seen.received \o <<>> = seen.received
      BY <1>1, SMTT(30)
    <3> QED
      BY <1>1, <3>1, <3>2, Zenon DEF Pushed
  <2> QED
    BY <1>0, <1>1, <2>2, <2>4, <2>5, <2>6, <2>7, Zenon
<1>4. CASE acc.kind \notin {"uart load", "uart store"}
  <2>1. UartAfter(acc) = uart /\ Received(acc) = seen.received
    BY <1>4, Zenon DEF UartAfter, Received
  <2>2. Pushed(acc) = seen.pushed /\ Sent(acc) = seen.sent /\ Stray(acc) = seen.stray
    BY <1>4, NoStoreHistory, Zenon
  <2> QED
    BY <1>0, <1>1, <2>1, <2>2, Zenon
<1> QED
  BY <1>2, <1>3, <1>4, Zenon

\* The controller at a tick.  What a load of claim returns was eligible, so
\* it was not claimed, so it was not handed out since its completion.
LEMMA TickPlic ==
  ASSUME EInv, NEW acc \in session.accesses
  PROVE  /\ PlicAfter(acc) \in PlicType
         /\ Held(acc) \in [Contexts -> [Sources -> Nat]]
         /\ \A c \in Contexts, i \in Sources :
              /\ Held(acc)[c][i] <= 1
              /\ Held(acc)[c][i] > 0 => i # 0 /\ i \in Claimed(PlicAfter(acc), c)
<1>1. /\ plic \in PlicType /\ seen.held \in [Contexts -> [Sources -> Nat]]
      /\ HeldIsClaimed
  BY DEF EInv, Typed, SeenType
<1>2. PICK p : p = Arbitrated
  OBVIOUS
<1>3. /\ p \in PlicType
      /\ \A c \in Contexts : Claimed(p, c) = Claimed(plic, c) /\ p.ctx[c].claim = Scan(plic, c)
  BY <1>1, <1>2, ArbitratedPlic
<1>4. CASE acc.kind = "plic load"
  <2>1. PICK r, q : r = acc.reg /\ q = DoLoad(p, r)
    OBVIOUS
  <2>2. PlicAfter(acc) = q
    BY <1>2, <1>4, <2>1, Zenon DEF PlicAfter
  <2>3. /\ q \in PlicType
        /\ \A c \in Contexts :
              Claimed(q, c) = IF r.reg = "claim" /\ r.at = c
                              THEN Claimed(p, c) \cup {p.ctx[c].claim} ELSE Claimed(p, c)
    <3>1. p \in PlicType
      BY <1>3
    <3>2. DoLoad(p, r) \in PlicType
      BY <3>1, LoadPlic
    <3>3. \A c \in Contexts :
            Claimed(DoLoad(p, r), c) = IF r.reg = "claim" /\ r.at = c
                                       THEN Claimed(p, c) \cup {p.ctx[c].claim} ELSE Claimed(p, c)
      BY <3>1, LoadPlic, Zenon
    <3> QED
      BY <2>1, <3>2, <3>3
  <2>4. CASE r.reg = "claim" /\ r.at \in Contexts
    <3>1. PICK d \in Contexts, src \in Sources : d = r.at /\ src = Scan(plic, d)
      BY <1>1, <2>4, ScanEligible
    <3>2. src # 0 => src \notin Claimed(plic, d)
      BY <1>1, <3>1, ScanEligible DEF Eligible, Claimed
    <3>3. PICK n : n = IF src = 0 THEN 0 ELSE seen.held[d][src] + 1
      OBVIOUS
    <3>4. src # 0 => seen.held[d][src] = 0
      BY <1>1, <3>2 DEF HeldIsClaimed
    <3>5. n = (IF src = 0 THEN 0 ELSE 1) /\ n \in Nat
      BY <3>3, <3>4
    <3>6. Held(acc) = [seen.held EXCEPT ![d][src] = n]
      <4>1. Arbitrated.ctx[d].claim = src
        BY <1>2, <1>3, <3>1
      <4>2. Held(acc) = [seen.held EXCEPT ![d][src] = IF src = 0 THEN 0 ELSE @ + 1]
        BY <1>4, <2>1, <2>4, <3>1, <4>1, Zenon DEF Held
      <4> QED
        BY <1>1, <3>3, <4>2, Zenon
    <3>7. Held(acc) \in [Contexts -> [Sources -> Nat]]
      BY <1>1, <3>5, <3>6
    <3>8. ASSUME NEW c \in Contexts, NEW i \in Sources
          PROVE  /\ Held(acc)[c][i] <= 1
                 /\ Held(acc)[c][i] > 0 => i # 0 /\ i \in Claimed(q, c)
      <4>1. CASE c = d /\ i = src
        BY <1>1, <1>3, <2>3, <2>4, <3>1, <3>5, <3>6, <4>1
      <4>2. CASE ~ (c = d /\ i = src)
        <5>1. Held(acc)[c][i] = seen.held[c][i]
          BY <1>1, <3>6, <4>2
        <5>2. Claimed(plic, c) \subseteq Claimed(q, c)
          BY <1>3, <2>3
        <5> QED
          BY <1>1, <5>1, <5>2 DEF HeldIsClaimed
      <4> QED
        BY <4>1, <4>2
    <3> QED
      BY <2>2, <2>3, <3>7, <3>8
  <2>5. CASE ~ (r.reg = "claim" /\ r.at \in Contexts)
    <3>1. Held(acc) = seen.held
      BY <1>1, <1>4, <2>1, <2>5, Zenon DEF Held
    <3>2. \A c \in Contexts : Claimed(q, c) = Claimed(plic, c)
      BY <1>3, <2>3, <2>5
    <3> QED
      BY <1>1, <2>2, <2>3, <3>1, <3>2 DEF HeldIsClaimed
  <2> QED
    BY <2>4, <2>5
<1>5. CASE acc.kind = "plic store"
  <2>1. PICK r, val, q : r = acc.reg /\ val = acc.val[r.reg] /\ q = DoStore(p, r, val)
    OBVIOUS
  <2>2. PlicAfter(acc) = q
    BY <1>2, <1>5, <2>1, ZenonT(30) DEF PlicAfter
  <2>3. r.reg # "claim" => val \in PlicValues(r.reg)
    BY <1>5, <2>1, EmulatorAssumption, Zenon DEF EmulatorAssumption, EInv, Typed
  <2>4. /\ q \in PlicType
        /\ \A c \in Contexts :
              Claimed(q, c) = IF r.reg = "claim" /\ r.at = c
                              THEN Claimed(p, c) \ {val} ELSE Claimed(p, c)
    <3>1. p \in PlicType
      BY <1>3
    <3>2. DoStore(p, r, val) \in PlicType
      BY <2>3, <3>1, StorePlic DEF PlicValues
    <3>3. \A c \in Contexts :
            Claimed(DoStore(p, r, val), c) = IF r.reg = "claim" /\ r.at = c
                                             THEN Claimed(p, c) \ {val} ELSE Claimed(p, c)
      BY <2>3, <3>1, StorePlic DEF PlicValues
    <3> QED
      BY <2>1, <3>2, <3>3
  <2>5. CASE r.reg = "claim" /\ r.at \in Contexts
    <3>1. PICK d \in Contexts : d = r.at
      BY <2>5
    <3>2. PICK f : f = [i \in Sources |-> IF i = val THEN 0 ELSE seen.held[d][i]]
      BY Zenon
    <3>3. f \in [Sources -> Nat]
      BY <1>1, <3>2
    <3>4. Held(acc) = [seen.held EXCEPT ![d] = f]
      BY <1>1, <1>5, <2>1, <2>5, <3>1, <3>2, ZenonT(30) DEF Held
    <3>5. Held(acc) \in [Contexts -> [Sources -> Nat]]
      BY <1>1, <3>3, <3>4, Zenon
    <3>6. ASSUME NEW c \in Contexts, NEW i \in Sources
          PROVE  /\ Held(acc)[c][i] <= 1
                 /\ Held(acc)[c][i] > 0 => i # 0 /\ i \in Claimed(q, c)
      <4>1. CASE c = d /\ i = val
        BY <1>1, <3>2, <3>4, <4>1
      <4>2. CASE ~ (c = d /\ i = val)
        <5>1. Held(acc)[c][i] = seen.held[c][i]
          BY <1>1, <3>2, <3>4, <4>2
        <5>2. i \in Claimed(plic, c) => i \in Claimed(q, c)
          BY <1>3, <2>4, <3>1, <4>2, Zenon
        <5> QED
          BY <1>1, <5>1, <5>2 DEF HeldIsClaimed
      <4> QED
        BY <4>1, <4>2
    <3> QED
      BY <2>2, <2>4, <3>5, <3>6
  <2>6. CASE ~ (r.reg = "claim" /\ r.at \in Contexts)
    <3>1. Held(acc) = seen.held
      BY <1>1, <1>5, <2>1, <2>6, Zenon DEF Held
    <3>2. \A c \in Contexts : Claimed(q, c) = Claimed(plic, c)
      BY <1>3, <2>4, <2>6
    <3> QED
      BY <1>1, <2>2, <2>4, <3>1, <3>2 DEF HeldIsClaimed
  <2> QED
    BY <2>5, <2>6
<1>6. CASE acc.kind \notin {"plic load", "plic store"}
  <2>1. PlicAfter(acc) = p /\ Held(acc) = seen.held
    BY <1>2, <1>6, Zenon DEF PlicAfter, Held
  <2> QED
    BY <1>1, <1>3, <2>1 DEF HeldIsClaimed
<1> QED
  BY <1>4, <1>5, <1>6, Zenon

LEMMA TickInv ==
  ASSUME EInv, NEW acc \in session.accesses, Tick(acc), UNCHANGED session
  PROVE  EInv'
<1>1. PICK h, r, p, s, y, t :
        /\ h = Held(acc) /\ r = Received(acc) /\ p = Pushed(acc)
        /\ s = Sent(acc) /\ y = Stray(acc) /\ t = TimeRead(acc)
  BY Zenon
<1>2. /\ uart' \in UartType /\ r \in Seq(Chars) /\ p \in Seq(Chars)
      /\ s \in Seq(Chars) /\ y \in SUBSET {"rx", "tx"}
      /\ "rx" \notin y => p = r \o uart'.rx
  BY <1>1, TickUart, Zenon DEF Tick
<1>3. /\ plic' \in PlicType /\ h \in [Contexts -> [Sources -> Nat]]
      /\ \A c \in Contexts, i \in Sources :
           /\ h[c][i] <= 1
           /\ h[c][i] > 0 => i # 0 /\ i \in Claimed(plic', c)
  BY <1>1, TickPlic DEF Tick
<1>4. seen' = [seen EXCEPT !.held = h, !.received = r, !.pushed = p, !.sent = s,
                            !.stray = y, !.time = t]
  BY <1>1 DEF Tick
<1>5. seen' \in SeenType(seen'.time)
  BY <1>2, <1>3, <1>4, Zenon DEF EInv, Typed, SeenType
<1>6. /\ seen'.held = h /\ seen'.received = r /\ seen'.pushed = p /\ seen'.stray = y
      /\ seen'.ctrlc = seen.ctrlc /\ seen'.sigs = seen.sigs
  BY <1>4 DEF EInv, Typed, SeenType
<1>7. Typed'
  BY <1>2, <1>3, <1>5 DEF EInv, Typed, Tick, Places
<1>8. RxInOrder'
  BY <1>2, <1>6 DEF RxInOrder
<1>9. HeldIsClaimed'
  BY <1>3, <1>6 DEF HeldIsClaimed, Claimed
<1>10. CtrlCOncePerSignal'
  BY <1>6 DEF EInv, CtrlCOncePerSignal, Tick
<1> QED
  BY <1>7, <1>8, <1>9, <1>10 DEF EInv, Tick

-----------------------------------------------------------------------------

LEMMA NextInv ==
  ASSUME EInv, [Next]_vars
  PROVE  EInv'
<1>1. CASE alive /\ (Loop \/ Host) /\ UNCHANGED session
  <2>1. CASE Drained \/ TestCtrlC \/ ClearCtrlC \/ SecondPasses \/ TimePasses
    <3>1. UNCHANGED <<uart, plic, seen, session>> /\ alive' = alive
      BY <1>1, <2>1, Zenon DEF Drained, TestCtrlC, ClearCtrlC, SecondPasses, TimePasses
    <3>2. main' \in Places /\ send_ctrl_c' \in BOOLEAN
      BY <2>1, Zenon DEF EInv, Typed, Places, Drained, TestCtrlC, ClearCtrlC, SecondPasses, TimePasses
    <3>3. main' = "putc" => send_ctrl_c'
      BY <2>1 DEF EInv, Drained, TestCtrlC, ClearCtrlC, SecondPasses, TimePasses
    <3>4. send_ctrl_c' /\ main' # "clear" => send_ctrl_c /\ main # "clear"
      BY <2>1, Zenon DEF Drained, TestCtrlC, ClearCtrlC, SecondPasses, TimePasses
    <3> QED
      BY <3>1, <3>2, <3>3, <3>4, QuietInv
  <2>2. CASE \E key \in Keys : UartInput(key)
    BY <1>1, <2>2, UartInputInv
  <2>3. CASE Poll
    BY <1>1, <2>3, PollInv
  <2>4. CASE Drain
    BY <1>1, <2>4, DrainInv
  <2>5. CASE PutCtrlC
    BY <1>1, <2>5, PutCtrlCInv
  <2>6. CASE SigintHangler
    BY <1>1, <2>6, SigintInv
  <2> QED
    BY <1>1, <2>1, <2>2, <2>3, <2>4, <2>5, <2>6 DEF Loop, Host
<1>2. CASE alive /\ (\E acc \in session.accesses : MayMake(acc) /\ Tick(acc)) /\ UNCHANGED session
  BY <1>2, TickInv
<1>3. CASE UNCHANGED vars
  BY <1>3, QuietInv DEF EInv, Typed, vars
<1>4. CASE Exited
  BY <1>3, <1>4 DEF Exited
<1> QED
  BY <1>1, <1>2, <1>3, <1>4 DEF Next

\* Ctrl-C reaches the guest at most once per SIGINT: for any number of signals,
\* at any point of the test, the push and the clearing of send_ctrl_c in main.
THEOREM OnceCtrlC == Spec => []CtrlCOncePerSignal
<1>1. EInv => CtrlCOncePerSignal
  BY DEF EInv
<1> QED
  BY <1>1, InitInv, NextInv, PTL DEF Spec

\* Every character pushed by UartInput or main reaches the guest once and in
\* order unless the guest discards it by a reset, for any number of keys and any
\* sequence of accesses, as long as no store that stops short of control
\* repeats an old reset (Uart::Store).
THEOREM InOrder == Spec => []RxInOrder
<1>1. EInv => RxInOrder
  BY DEF EInv
<1> QED
  BY <1>1, InitInv, NextInv, PTL DEF Spec

\* No context is handed a source again before it completed it: for any number
\* of sources and contexts, any priorities, and any use of the registers.
THEOREM ClaimedOnce == Spec => []NoDoubleClaim
<1>1. EInv => NoDoubleClaim
  BY DEF EInv, HeldIsClaimed, NoDoubleClaim
<1> QED
  BY <1>1, InitInv, NextInv, PTL DEF Spec

-----------------------------------------------------------------------------
(* The terminal                                                            *)

\* What Cooked shows for the i-th character of s.
Shown(s, i) ==
  IF s[i] = CR THEN <<>>
  ELSE IF i > 1 /\ s[i - 1] = CR /\ s[i] # LF THEN <<CR, s[i]>>
  ELSE <<s[i]>>

\* f holds what is shown of s after each of its first n characters.
CookedUpTo(s, n, f) ==
  f = [i \in 0 .. n |-> IF i = 0 THEN <<>> ELSE f[i - 1] \o Shown(s, i)]

LEMMA CookedRuns ==
  ASSUME NEW s, NEW n \in Nat
  PROVE  \E f : CookedUpTo(s, n, f)
<1> DEFINE Stuck == {j \in Nat : ~ \E f : CookedUpTo(s, j, f)}
<1>1. SUFFICES ASSUME Stuck # {} PROVE FALSE
  OBVIOUS
<1>2. PICK j \in Stuck : \A i \in Stuck : j <= i
  BY <1>1, NatMin, Zenon
<1>3. j # 0
  <2> DEFINE f == [i \in 0 .. 0 |-> <<>>]
  <2>1. CookedUpTo(s, 0, f)
    BY DEF CookedUpTo
  <2> QED
    BY <1>2, <2>1
<1>4. PICK f : CookedUpTo(s, j - 1, f)
  <2>1. j - 1 \in Nat /\ j - 1 < j
    BY <1>2, <1>3
  <2> QED
    BY <1>2, <2>1
<1> DEFINE h == [i \in 0 .. j |-> IF i = j THEN f[j - 1] \o Shown(s, j) ELSE f[i]]
<1>5. ASSUME NEW i \in 0 .. j
      PROVE  h[i] = IF i = 0 THEN <<>> ELSE h[i - 1] \o Shown(s, i)
  <2>1. CASE i = 0
    BY <1>3, <1>4, <2>1 DEF CookedUpTo
  <2>2. CASE i # 0
    <3>1. i - 1 \in 0 .. j - 1 /\ h[i - 1] = f[i - 1]
      BY <2>2, SMTT(30)
    <3>2. CASE i = j
      BY <2>2, <3>1, <3>2, Zenon
    <3>3. CASE i # j
      <4>1. i \in 0 .. j - 1 /\ h[i] = f[i]
        BY <3>3, SMTT(30)
      <4>2. f[i] = f[i - 1] \o Shown(s, i)
        BY <1>4, <2>2, <4>1, Zenon DEF CookedUpTo
      <4> QED
        BY <2>2, <3>1, <4>1, <4>2, Zenon
    <3> QED
      BY <3>2, <3>3
  <2> QED
    BY <2>1, <2>2
<1>6. CookedUpTo(s, j, h)
  BY <1>5, Zenon DEF CookedUpTo
<1> QED
  BY <1>2, <1>6

\* What is shown of the beginning of a stream does not depend on what follows.
LEMMA CookedPrefix ==
  ASSUME NEW s, NEW t, NEW f, NEW g, NEW n \in Nat,
         \A i \in 1 .. n : s[i] = t[i],
         CookedUpTo(s, n, f), CookedUpTo(t, n + 1, g)
  PROVE  f[n] = g[n]
<1> DEFINE Bad == {i \in Nat : i <= n /\ f[i] # g[i]}
<1>1. SUFFICES ASSUME Bad # {} PROVE FALSE
  OBVIOUS
<1>2. PICK i \in Bad : \A j \in Bad : i <= j
  BY <1>1, NatMin, Zenon
<1>3. i # 0
  BY <1>2 DEF CookedUpTo
<1>4. i - 1 \in Nat /\ i - 1 < i /\ i - 1 <= n
  BY <1>2, <1>3
<1>5. f[i - 1] = g[i - 1]
  BY <1>2, <1>4
<1>6. Shown(s, i) = Shown(t, i)
  <2>1. s[i] = t[i] /\ (i > 1 => s[i - 1] = t[i - 1])
    BY <1>2, <1>3, SMTT(30)
  <2> QED
    BY <2>1 DEF Shown
<1>7. f[i] = f[i - 1] \o Shown(s, i) /\ g[i] = g[i - 1] \o Shown(t, i)
  <2>1. i \in 0 .. n /\ i \in 0 .. n + 1
    BY <1>2
  <2> QED
    BY <1>3, <2>1, Zenon DEF CookedUpTo
<1> QED
  BY <1>2, <1>5, <1>6, <1>7, Zenon

LEMMA CookedIsLoop ==
  ASSUME NEW s \in Seq(Chars)
  PROVE  \E f : CookedUpTo(s, Len(s), f) /\ Cooked(s) = f[Len(s)]
<1> DEFINE f == CHOOSE f : CookedUpTo(s, Len(s), f)
<1>1. CookedUpTo(s, Len(s), f)
  BY CookedRuns
<1>2. Cooked(s) = f[Len(s)]
  BY DEF Cooked, CookedUpTo, Shown
<1> QED
  BY <1>1, <1>2, Zenon

\* One more character adds what the drain loop prints for it.
LEMMA CookedAppend ==
  ASSUME NEW s \in Seq(Chars), NEW ch \in Chars, NEW d \in BOOLEAN,
         d <=> (Len(s) > 0 /\ s[Len(s)] = CR)
  PROVE  Cooked(Append(s, ch)) = Cooked(s) \o Echo(ch, d)
<1>1. PICK t : t = Append(s, ch) /\ t \in Seq(Chars)
  <2>1. Append(s, ch) \in Seq(Chars)
    OBVIOUS
  <2> QED
    BY <2>1, Zenon
<1>2. PICK n \in Nat : n = Len(s)
  OBVIOUS
<1>3. Len(t) = n + 1 /\ t[n + 1] = ch /\ \A i \in 1 .. n : s[i] = t[i]
  BY <1>1, <1>2
<1>4. PICK f : CookedUpTo(s, n, f) /\ Cooked(s) = f[n]
  BY <1>2, CookedIsLoop
<1>5. PICK g : CookedUpTo(t, n + 1, g) /\ Cooked(t) = g[n + 1]
  BY <1>1, <1>3, CookedIsLoop, Zenon
<1>6. f[n] = g[n]
  <2>1. \A i \in 1 .. n : s[i] = t[i]
    BY <1>3
  <2>2. n \in Nat /\ CookedUpTo(s, n, f) /\ CookedUpTo(t, n + 1, g)
    BY <1>4, <1>5, Zenon
  <2> QED
    BY <2>1, <2>2, CookedPrefix, SMT
<1>7. g[n + 1] = g[n] \o Shown(t, n + 1)
  <2>1. n + 1 \in 0 .. n + 1 /\ n + 1 # 0 /\ (n + 1) - 1 = n
    OBVIOUS
  <2> QED
    BY <1>5, <2>1, Zenon DEF CookedUpTo
<1>8. Shown(t, n + 1) = Echo(ch, d)
  <2>1. n > 0 => t[n] = s[n]
    BY <1>3
  <2> QED
    BY <1>2, <1>3, <2>1 DEF Shown, Echo
<1> QED
  BY <1>1, <1>4, <1>5, <1>6, <1>7, <1>8, Zenon

\* delay_cr says that the last character drained was a CR.
TerminalInv ==
  /\ stdout = Cooked(seen.drained)
  /\ delay_cr \in BOOLEAN
  /\ delay_cr <=> (Len(seen.drained) > 0 /\ seen.drained[Len(seen.drained)] = CR)

LEMMA InitTerminal == Init => TerminalInv
<1> SUFFICES ASSUME Init PROVE TerminalInv
  OBVIOUS
<1>1. seen.drained = <<>> /\ stdout = <<>> /\ delay_cr = FALSE
  BY DEF Init, NoHistory
<1>2. PICK f : CookedUpTo(<<>>, 0, f) /\ Cooked(<<>>) = f[0]
  <2>1. <<>> \in Seq(Chars) /\ Len(<<>>) = 0
    OBVIOUS
  <2> QED
    BY <2>1, CookedIsLoop, Zenon
<1>3. Cooked(<<>>) = <<>>
  BY <1>2 DEF CookedUpTo
<1>4. ~ (Len(seen.drained) > 0)
  BY <1>1
<1> QED
  BY <1>1, <1>3, <1>4, Zenon DEF TerminalInv

LEMMA NextTerminal ==
  ASSUME EInv, TerminalInv, [Next]_vars
  PROVE  TerminalInv'
<1>1. CASE Drain
  <2>1. PICK s \in Seq(Chars), ch \in Chars : s = seen.drained /\ ch = Head(uart.tx)
    BY <1>1, SMTT(30) DEF Drain, T!TxBufferNotEmpty, EInv, Typed, SeenType, UartType, UartOf
  <2>2. seen'.drained = Append(s, ch)
    BY <1>1, <2>1 DEF Drain, EInv, Typed, SeenType
  <2>3. stdout' = stdout \o Echo(ch, delay_cr) /\ delay_cr' = (ch = CR)
    BY <1>1, <2>1 DEF Drain
  <2>4. Cooked(Append(s, ch)) = stdout'
    BY <2>1, <2>3, CookedAppend, ZenonT(30) DEF TerminalInv
  <2>5. Len(Append(s, ch)) > 0 /\ Append(s, ch)[Len(Append(s, ch))] = ch
    BY <2>1
  <2> QED
    BY <2>2, <2>3, <2>4, <2>5, Zenon DEF TerminalInv
<1>2. CASE stdout' = stdout /\ delay_cr' = delay_cr /\ seen'.drained = seen.drained
  BY <1>2 DEF TerminalInv
<1>3. CASE Poll \/ Drained \/ TestCtrlC \/ ClearCtrlC \/ SecondPasses \/ TimePasses
             \/ UNCHANGED vars
  BY <1>2, <1>3, Zenon DEF Poll, Drained, TestCtrlC, ClearCtrlC, SecondPasses, TimePasses, vars
<1>4. CASE (\E key \in Keys : UartInput(key)) \/ PutCtrlC \/ SigintHangler
             \/ \E acc \in session.accesses : Tick(acc)
  BY <1>2, <1>4, Zenon DEF UartInput, PutCtrlC, SigintHangler, Tick, EInv, Typed, SeenType
<1> QED
  BY <1>1, <1>3, <1>4, Zenon DEF Next, Loop, Host, Exited

\* What the guest transmits is drained or still in the tx buffer, in order, if
\* no store has strayed into it.
SentInOrder == "tx" \notin seen.stray => seen.sent = seen.drained \o uart.tx

\* The tx buffer and the history of what the guest sent, at a tick.
LEMMA TickSent ==
  ASSUME EInv, SentInOrder, NEW acc \in session.accesses, "tx" \notin Stray(acc)
  PROVE  Sent(acc) = seen.drained \o UartAfter(acc).tx
<1>1. /\ uart \in UartType /\ uart.tx \in Seq(Chars) /\ seen.drained \in Seq(Chars)
      /\ "tx" \notin seen.stray => seen.sent = seen.drained \o uart.tx
  BY DEF EInv, Typed, SeenType, UartType, UartOf, SentInOrder
<1>2. CASE acc.kind = "uart store"
  <2>1. PICK v : v = T!DoStore(uart, acc.at, acc.val)
    OBVIOUS
  <2>2. UartAfter(acc) = v
    BY <1>2, <2>1, Zenon DEF UartAfter
  <2>3. IF AsksFor(acc, "RstTx") THEN v.tx = <<>>
        ELSE /\ "tx" \notin seen.stray
             /\ v.tx = IF Stores(acc, "tx_fifo") THEN Append(uart.tx, acc.val.tx_fifo)
                       ELSE uart.tx
    BY <1>2, <2>1, StoreAsAsked, Zenon DEF IsUartStore
  <2>4. Stores(acc, "tx_fifo") => acc.val.tx_fifo \in Chars
    <3>1. \A w \in T!Covers(acc.at) : acc.val[w] \in UartValues[w]
      BY <1>2, EmulatorAssumption, Zenon DEF EmulatorAssumption, EInv, Typed
    <3> QED
      BY <3>1 DEF Stores, UartValues
  <2>5. CASE AsksFor(acc, "RstTx")
    <3>1. seen.drained \o <<>> = seen.drained
      BY <1>1, SMTT(30)
    <3> QED
      BY <2>2, <2>3, <2>5, <3>1, Zenon DEF Sent
  <2>6. CASE ~ AsksFor(acc, "RstTx") /\ Stores(acc, "tx_fifo")
    <3>1. PICK s \in Seq(Chars), q \in Seq(Chars), ch \in Chars :
            s = seen.drained /\ q = uart.tx /\ ch = acc.val.tx_fifo
      BY <1>1, <2>4, <2>6, Zenon
    <3>2. Append(s \o q, ch) = s \o Append(q, ch)
      BY SMTT(30)
    <3> QED
      BY <1>1, <2>2, <2>3, <2>6, <3>1, <3>2, Zenon DEF Sent
  <2>7. CASE ~ AsksFor(acc, "RstTx") /\ ~ Stores(acc, "tx_fifo")
    BY <1>1, <2>2, <2>3, <2>7, Zenon DEF Sent
  <2> QED
    BY <2>5, <2>6, <2>7, Zenon
<1>3. CASE acc.kind # "uart store"
  <2>1. Sent(acc) = seen.sent /\ Stray(acc) = seen.stray
    BY <1>3, NoStoreHistory, Zenon
  <2>2. CASE acc.kind = "uart load"
    <3>1. UartAfter(acc) = T!DoLoad(uart, acc.at)
      BY <2>2, Zenon DEF UartAfter
    <3>2. T!DoLoad(uart, acc.at).tx = uart.tx
      BY <1>1, LoadUart DEF UartType
    <3> QED
      BY <1>1, <2>1, <3>1, <3>2, Zenon
  <2>3. CASE acc.kind # "uart load"
    <3>1. UartAfter(acc) = uart
      BY <1>3, <2>3, Zenon DEF UartAfter
    <3> QED
      BY <1>1, <2>1, <3>1, Zenon
  <2> QED
    BY <2>2, <2>3
<1> QED
  BY <1>2, <1>3

LEMMA NextSent ==
  ASSUME EInv, SentInOrder, [Next]_vars
  PROVE  SentInOrder'
<1>1. CASE Drain
  <2>1. /\ uart.tx \in Seq(Chars) /\ uart.tx # <<>> /\ seen.drained \in Seq(Chars)
        /\ uart \in UartOf(Chars)
    BY <1>1 DEF Drain, T!TxBufferNotEmpty, EInv, Typed, SeenType, UartType, UartOf
  <2>2. uart'.tx = Tail(uart.tx)
    BY <1>1, <2>1, GetcUart, Zenon DEF Drain
  <2>3. seen'.drained = Append(seen.drained, Head(uart.tx))
    BY <1>1 DEF Drain, EInv, Typed, SeenType
  <2>4. seen'.sent = seen.sent /\ seen'.stray = seen.stray
    BY <1>1 DEF Drain, EInv, Typed, SeenType
  <2>5. Append(seen.drained, Head(uart.tx)) \o Tail(uart.tx) = seen.drained \o uart.tx
    BY <2>1, MoveHead, ZenonT(40)
  <2> QED
    BY <2>2, <2>3, <2>4, <2>5, Zenon DEF SentInOrder
<1>2. CASE /\ uart'.tx = uart.tx /\ seen'.sent = seen.sent
           /\ seen'.drained = seen.drained /\ seen'.stray = seen.stray
  BY <1>2, Zenon DEF SentInOrder
<1>3. CASE Poll \/ Drained \/ TestCtrlC \/ ClearCtrlC \/ SecondPasses \/ TimePasses
             \/ UNCHANGED vars
  BY <1>2, <1>3, Zenon DEF Poll, Drained, TestCtrlC, ClearCtrlC, SecondPasses, TimePasses, vars
<1>4. CASE SigintHangler
  BY <1>2, <1>4, Zenon DEF SigintHangler, EInv, Typed, SeenType
<1>5. CASE PutCtrlC \/ \E key \in Keys : UartInput(key)
  <2>1. \E ch : uart' = T!DoPutc(uart, ch)
    BY <1>5, Zenon DEF PutCtrlC, UartInput
  <2>2. uart'.tx = uart.tx
    BY <2>1 DEF T!DoPutc, EInv, Typed, UartType, UartOf
  <2>3. /\ seen'.sent = seen.sent /\ seen'.drained = seen.drained
        /\ seen'.stray = seen.stray
    BY <1>5, Zenon DEF PutCtrlC, UartInput, EInv, Typed, SeenType
  <2> QED
    BY <1>2, <2>2, <2>3
<1>6. CASE \E acc \in session.accesses : Tick(acc)
  <2>1. PICK acc \in session.accesses : Tick(acc)
    BY <1>6
  <2>2. seen'.sent = Sent(acc) /\ seen'.stray = Stray(acc) /\ seen'.drained = seen.drained
    BY <2>1, Zenon DEF Tick, EInv, Typed, SeenType
  <2>3. uart' = UartAfter(acc)
    BY <2>1 DEF Tick
  <2> QED
    BY <2>2, <2>3, TickSent, Zenon DEF SentInOrder
<1> QED
  BY <1>1, <1>3, <1>4, <1>5, <1>6, Zenon DEF Next, Loop, Host, Exited

\* The terminal shows the drained stream with the CR of each CR LF removed and a
\* last CR held back, for streams of any length and every interleaving of the
\* drain loop of main with the input thread and the signal handler; and what is
\* drained is what the guest stored in tx_fifo and did not discard, as long as no
\* store that stops short of tx_fifo or control strays (Uart::Store).
THEOREM OutputCooked == Spec => []TerminalCooked
<1>1. TerminalInv /\ SentInOrder => TerminalCooked
  BY DEF TerminalInv, SentInOrder, TerminalCooked
<1>2. Init => SentInOrder
  BY DEF Init, SentInOrder, NoHistory, T!NewUart
<1> QED
  BY <1>1, <1>2, InitInv, NextInv, InitTerminal, NextTerminal, NextSent, PTL DEF Spec

-----------------------------------------------------------------------------
(* The clock                                                               *)

LEMMA ClockFacts ==
  ASSUME NEW n \in 0 .. 8
  PROVE  /\ Base \in Nat \ {0}
         /\ \E P : /\ P = [i \in 0 .. 8 |-> Base^i]
                   /\ Powers(P, Base, n) /\ P[n] = Base^n /\ P[n] \in Nat \ {0}
<1>1. Base \in Nat \ {0} /\ C!PowersOfBase
  BY EmulatorAssumption, Zenon DEF EmulatorAssumption
<1>2. PICK P : P = [i \in 0 .. 8 |-> Base^i]
  BY Zenon
<1>3. Powers(P, Base, n) /\ P[n] = Base^n
  BY <1>1, <1>2, PowersOf, Zenon DEF C!PowersOfBase
<1>4. n \in Nat /\ n \in 0 .. n
  OBVIOUS
<1>5. P[n] \in Nat \ {0}
  BY <1>1, <1>3, <1>4, PowersPositive
<1> QED
  BY <1>1, <1>2, <1>3, <1>5

\* The times of the clock.
LEMMA Times == Base^8 \in Nat \ {0} /\ C!Numbers(8) = 0 .. Base^8 - 1 /\ C!Numbers(8) \subseteq Nat
<1>1. Base^8 \in Nat \ {0}
  BY ClockFacts
<1> QED
  BY <1>1 DEF C!Numbers

\* The bytes of a number give the number back.
LEMMA NumberBack ==
  ASSUME NEW n \in 0 .. 8, NEW x \in C!Numbers(n), NEW buf,
         \A i \in 0 .. n - 1 : buf[i] = (x \div Base^i) % Base
  PROVE  C!FromBytes(buf, n) = x
<1>1. PICK P : /\ P = [i \in 0 .. 8 |-> Base^i]
               /\ Powers(P, Base, n) /\ P[n] = Base^n /\ P[n] \in Nat \ {0}
  BY ClockFacts
<1>2. Base \in Nat \ {0} /\ n \in Nat
  BY ClockFacts
<1>3. PICK f : f = CHOOSE g : ValueOf(buf, n, Base, g)
  OBVIOUS
<1>4. ValueOf(buf, n, Base, f)
  BY <1>2, <1>3, ValueRuns, Zenon
<1>5. C!FromBytes(buf, n) = f[0]
  BY <1>3, Zenon DEF C!FromBytes, ValueOf
<1>6. x \in Nat /\ x < P[n]
  BY <1>1 DEF C!Numbers
<1>7. DigitsOf(buf, n, x, P, Base)
  BY <1>1 DEF DigitsOf
<1>8. f[0] = x
  <2>1. Powers(P, Base, n)
    BY <1>1
  <2> QED
    BY <1>2, <1>4, <1>6, <1>7, <2>1, ValueBytes
<1> QED
  BY <1>5, <1>8

\* A load of mtime reads the whole of it.
LEMMA MtimeLoaded ==
  ASSUME NEW t \in C!Numbers(8), NEW c, c.mtime = C!ToBytes(t, 8)
  PROVE  C!FromBytes(C!LoadValue(c, C!kMtimeBase, 8), 8) = t
<1>1. C!FileOf(C!kMtimeBase, 8) = "mtime"
  <2>1. C!Holds("mtime", C!kMtimeBase, 8)
    BY DEF C!Holds, C!Files, C!kMtimeBase
  <2>2. \A f \in DOMAIN C!Files : C!Holds(f, C!kMtimeBase, 8) => f = "mtime"
    BY DEF C!Holds, C!Files, C!kMtimeBase, C!kMtimeCmpBase, C!kMsipBase
  <2>3. "mtime" \in DOMAIN C!Files
    BY DEF C!Files
  <2> QED
    BY <2>1, <2>2, <2>3, Zenon DEF C!FileOf
<1>2. PICK buf : buf = C!LoadValue(c, C!kMtimeBase, 8)
  BY Zenon
<1>3. buf = [i \in 0 .. 8 - 1 |-> c.mtime[i]]
  <2>1. C!Files["mtime"].base = C!kMtimeBase
    BY DEF C!Files
  <2>2. C!kMtimeBase - C!kMtimeBase = 0 /\ \A i \in 0 .. 8 - 1 : 0 + i = i
    BY DEF C!kMtimeBase
  <2> QED
    BY <1>1, <1>2, <2>1, <2>2 DEF C!LoadValue, C!Slice
<1>4. \A i \in 0 .. 8 - 1 : buf[i] = (t \div Base^i) % Base
  BY <1>3 DEF C!ToBytes
<1> QED
  BY <1>2, <1>4, NumberBack

\* The time that the guest last read is not ahead of the clock, and in the
\* tick mtime is what the clock showed between the two.
ClockInv ==
  /\ session \in Sessions
  /\ "mtime" \in DOMAIN clint /\ "time" \in DOMAIN seen
  /\ now \in C!Numbers(8) /\ (now = session.start \/ now <= session.horizon)
  /\ seen.time \in 0 .. now
  /\ main = "tick" => \E t \in seen.time .. now : clint.mtime = C!ToBytes(t, 8)

LEMMA InitClock ==
  ASSUME session \in Sessions, now = session.start, "mtime" \in DOMAIN clint,
         main = "poll", seen = NoHistory
  PROVE  ClockInv
<1>1. now \in C!Numbers(8) /\ now \in Nat
  BY EmulatorAssumption, Times, Zenon DEF EmulatorAssumption
<1> QED
  BY <1>1 DEF ClockInv, NoHistory

LEMMA HostClock ==
  ASSUME ClockInv, Loop \/ Host, UNCHANGED session
  PROVE  ClockInv' /\ seen'.time = seen.time
<1>1. now \in Nat
  BY Times DEF ClockInv
<1>2. seen'.time = seen.time /\ "time" \in DOMAIN seen'
  BY Zenon DEF Loop, Host, Poll, Drain, Drained, TestCtrlC, PutCtrlC, ClearCtrlC, UartInput,
       SigintHangler, SecondPasses, TimePasses, ClockInv
<1>3. CASE Poll
  <2>1. now' = now /\ clint'.mtime = C!ToBytes(now, 8) /\ "mtime" \in DOMAIN clint'
    BY <1>3 DEF Poll, ClockInv, C!DoUpdateMtime
  <2>2. now \in seen'.time .. now'
    BY <1>1, <1>2, <2>1 DEF ClockInv
  <2> QED
    BY <1>2, <2>1, <2>2 DEF ClockInv, Poll
<1>4. CASE TimePasses
  <2>1. now' = now + 1 /\ now' <= session.horizon /\ session.horizon \in C!Numbers(8)
    <3>1. session.horizon \in C!Numbers(8) /\ session.horizon \in Nat
      BY EmulatorAssumption, Times, Zenon DEF EmulatorAssumption, ClockInv
    <3> QED
      BY <1>1, <1>4, <3>1 DEF TimePasses
  <2>2. now' \in C!Numbers(8) /\ seen.time .. now \subseteq seen.time .. now'
    BY <1>1, <2>1, Times DEF ClockInv
  <2> QED
    BY <1>1, <1>2, <1>4, <2>1, <2>2 DEF ClockInv, TimePasses
<1>5. CASE Drain \/ Drained \/ TestCtrlC \/ PutCtrlC \/ ClearCtrlC
             \/ (\E key \in Keys : UartInput(key)) \/ SigintHangler \/ SecondPasses
  <2>1. UNCHANGED <<clint, now>> /\ (main' = "tick" => main = "tick")
    BY <1>5, Zenon DEF Drain, Drained, TestCtrlC, PutCtrlC, ClearCtrlC, UartInput, SigintHangler,
         SecondPasses
  <2> QED
    BY <1>2, <2>1, Zenon DEF ClockInv
<1> QED
  BY <1>2, <1>3, <1>4, <1>5 DEF Loop, Host

\* A tick reads a time that is not before the last one.
LEMMA TickClock ==
  ASSUME ClockInv, NEW acc, Tick(acc), UNCHANGED session
  PROVE  ClockInv' /\ seen'.time >= seen.time
<1>1. now' = now /\ main' = "drain" /\ now \in Nat
  BY Times DEF Tick, ClockInv
<1>2. "time" \in DOMAIN seen' /\ seen'.time = TimeRead(acc)
  BY DEF Tick, ClockInv
<1>3. "mtime" \in DOMAIN clint'
  BY Zenon DEF Tick, ClockInv, ClintAfter, C!DoStore
<1>4. TimeRead(acc) \in seen.time .. now
  <2>1. CASE acc.kind = "clint load" /\ acc.at = [addr |-> C!kMtimeBase, bytes |-> 8]
    <3>1. PICK t \in seen.time .. now : clint.mtime = C!ToBytes(t, 8)
      BY DEF ClockInv, Tick
    <3>2. t \in C!Numbers(8)
      BY <1>1, Times DEF ClockInv
    <3>3. acc.at.addr = C!kMtimeBase
      <4>1. PICK at, k : at = acc.at /\ k = C!kMtimeBase
        OBVIOUS
      <4>2. at = [addr |-> k, bytes |-> 8]
        BY <2>1, <4>1, Zenon
      <4>3. at.addr = k
        BY <4>2
      <4> QED
        BY <4>1, <4>3
    <3>4. TimeRead(acc) = C!FromBytes(C!LoadValue(clint, C!kMtimeBase, 8), 8)
      BY <2>1, <3>3, Zenon DEF TimeRead
    <3> QED
      BY <3>1, <3>2, <3>4, MtimeLoaded
  <2>2. CASE acc.kind = "rdtime"
    BY <1>1, <2>2 DEF TimeRead, ClockInv
  <2>3. CASE acc.kind # "rdtime" /\ ~ (acc.kind = "clint load"
                                       /\ acc.at = [addr |-> C!kMtimeBase, bytes |-> 8])
    <3>1. TimeRead(acc) = seen.time
      BY <2>3, Zenon DEF TimeRead
    <3> QED
      BY <1>1, <3>1 DEF ClockInv
  <2> QED
    BY <2>1, <2>2, <2>3, Zenon
<1> QED
  BY <1>1, <1>2, <1>3, <1>4 DEF ClockInv

\* Time never goes backwards for the guest, through mtime or the CSR time:
\* for every width of a byte and every interleaving of the clock, the loop of
\* main and the stores of the guest to mtime itself.
THEOREM TimeForward == Spec => TimeMonotone
<1>1. Init => ClockInv
  BY InitClock DEF Init, C!NewClint
<1>2. ASSUME ClockInv, [Next]_vars
      PROVE  ClockInv' /\ seen'.time >= seen.time
  <2>1. seen.time \in Int
    BY <1>2, Times DEF ClockInv
  <2>2. CASE UNCHANGED vars
    BY <1>2, <2>1, <2>2 DEF vars, ClockInv
  <2> QED
    BY <1>2, <2>1, <2>2, HostClock, TickClock DEF Next, Exited
<1>3. ClockInv /\ [Next]_vars => [seen'.time >= seen.time]_vars
  BY <1>2
<1> QED
  BY <1>1, <1>2, <1>3, PTL DEF Spec, TimeMonotone

-----------------------------------------------------------------------------
(* The timer of the guest in Drivers                                       *)

\* A guest's tick is a tick of the emulator.
LEMMA GuestTicks ==
  ASSUME Guest
  PROVE  \E acc : Tick(acc)
BY Zenon DEF Guest, SerialDriver, Idle, Claim, CheckStatus, ReadChar, Complete,
     ReadMtime, SetLow, SetHigh, SetHalf, Mret

LEMMA GuestClock ==
  ASSUME ClockInv, [DNext]_dvars
  PROVE  ClockInv'
<1>1. CASE alive /\ Guest /\ UNCHANGED session
  BY <1>1, GuestTicks, TickClock
<1>2. CASE (Loop \/ Host) /\ UNCHANGED session
  BY <1>2, HostClock
<1>3. CASE UNCHANGED vars
  BY <1>3 DEF vars, ClockInv
<1> QED
  BY <1>1, <1>2, <1>3 DEF DNext, MainThread, Exited, dvars

\* The low digits of the rest and the digits of the quotient are digits of
\* the number.
SameDigit(d, m, p, B) == ((d % m) \div p) % B = (d \div p) % B

LEMMA RestDigit ==
  ASSUME NEW d \in Int, NEW p \in Nat \ {0}, NEW B \in Nat \ {0}, NEW r \in Nat \ {0},
         NEW m \in Nat \ {0}, m = p * (B * r)
  PROVE  SameDigit(d, m, p, B)
<1>2. PICK q \in Int, s \in 0 .. m - 1 : d = m * q + s /\ d % m = s
  BY Division, Zenon
<1>3. PICK a \in Int, b \in 0 .. p - 1 : s = p * a + b /\ s \div p = a
  BY Division
<1>4. PICK e \in Int, f \in 0 .. B - 1 : a = B * e + f /\ a % B = f
  BY Division, Zenon
<1>5. PICK g \in Int : g = r * q + e
  OBVIOUS
<1>6. PICK h \in Int : h = B * g + f
  OBVIOUS
<1>7. h = B * (r * q) + a
  BY <1>4, <1>5, <1>6
<1>8. p * h = m * q + p * a
  <2>1. p * h = p * (B * (r * q)) + p * a
    BY <1>7
  <2>2. p * (B * (r * q)) = (p * (B * r)) * q
    OBVIOUS
  <2> QED
    BY <2>1, <2>2
<1>9. d = p * h + b
  BY <1>2, <1>3, <1>8
<1>10. d \div p = h
  BY <1>3, <1>9, Quotient
<1>11. h % B = f
  BY <1>4, <1>6, Quotient
<1> QED
  BY <1>2, <1>3, <1>4, <1>10, <1>11 DEF SameDigit

LEMMA HalfDigits ==
  ASSUME NEW d \in Nat
  PROVE  \A i \in 0 .. 3 :
           /\ ((d % Base^4) \div Base^i) % Base = (d \div Base^i) % Base
           /\ ((d \div Base^4) \div Base^i) % Base = (d \div Base^(i + 4)) % Base
<1>0. d \in Int
  OBVIOUS
<1>1. Base \in Nat \ {0} /\ C!PowersOfBase
  BY EmulatorAssumption, Zenon DEF EmulatorAssumption
<1>2. PICK B \in Nat \ {0} : B = Base
  BY <1>1
<1>3. PICK P : P = [i \in 0 .. 8 |-> B^i]
  BY Zenon
<1>4. Powers(P, B, 8)
  BY <1>1, <1>2, <1>3, PowersOf DEF C!PowersOfBase
<1>5. \A i \in 0 .. 8 : P[i] \in Nat \ {0}
  BY <1>2, <1>4, PowersPositive
<1>6. PICK b2 \in Nat \ {0}, b3 \in Nat \ {0} : b2 = B * B /\ b3 = B * b2
  OBVIOUS
<1>7. /\ P[0] = 1 /\ P[1] = B /\ P[2] = b2 /\ P[3] = b3 /\ P[4] = B * b3
      /\ P[5] = B * P[4] /\ P[6] = B * P[5] /\ P[7] = B * P[6]
  <2>1. /\ P[0 + 1] = B * P[0] /\ P[1 + 1] = B * P[1] /\ P[2 + 1] = B * P[2] /\ P[3 + 1] = B * P[3]
        /\ P[4 + 1] = B * P[4] /\ P[5 + 1] = B * P[5] /\ P[6 + 1] = B * P[6] /\ P[0] = 1
    BY <1>4 DEF Powers
  <2> QED
    BY <1>6, <2>1
<1>8. PICK m \in Nat \ {0} : m = P[4]
  BY <1>5
<1>9. ASSUME NEW i \in 0 .. 3
      PROVE  /\ ((d % m) \div P[i]) % B = (d \div P[i]) % B
             /\ ((d \div m) \div P[i]) % B = (d \div P[i + 4]) % B
  <2>1. PICK p \in Nat \ {0}, r \in Nat \ {0} :
          p = P[i] /\ m = p * (B * r) /\ P[i + 4] = m * p
    <3>1. CASE i = 0
      BY <1>6, <1>7, <1>8, <3>1, SMTT(30)
    <3>2. CASE i = 1
      BY <1>6, <1>7, <1>8, <3>2
    <3>3. CASE i = 2
      BY <1>6, <1>7, <1>8, <3>3
    <3>4. CASE i = 3
      BY <1>6, <1>7, <1>8, <3>4
    <3> QED
      BY <3>1, <3>2, <3>3, <3>4
  <2>2. SameDigit(d, m, p, B)
    <3>1. m = p * (B * r)
      BY <2>1
    <3> QED
      BY <1>0, <3>1, RestDigit, Zenon
  <2>3. (d \div m) \div p = d \div (m * p)
    BY <1>0, QuotientTwice, Zenon
  <2> QED
    BY <2>1, <2>2, <2>3 DEF SameDigit
<1>10. \A i \in 0 .. 3 : P[i] = Base^i /\ P[i + 4] = Base^(i + 4) /\ m = Base^4
  BY <1>2, <1>3, <1>8
<1> QED
  BY <1>2, <1>9, <1>10, Zenon

\* The bytes of mtimecmp from i to j are those of x.
Digits(c, i, j, x) == \A k \in i .. j : c.mtimecmp[k] = (x \div Base^k) % Base

\* The deadline is in mtimecmp, except while the handler sets its halves.
TimerInv ==
  /\ "mtimecmp" \in DOMAIN clint /\ DOMAIN clint.mtimecmp = 0 .. 7
  /\ deadline \in C!Numbers(8)
  /\ timer \in {"idle", "mtime", "low", "high", "mret"}
  /\ timer \in {"idle", "mtime", "mret"} => Digits(clint, 0, 7, deadline)
  /\ timer = "high" => Digits(clint, 0, 3, deadline)

\* A store of n bytes into mtimecmp.
LEMMA StoreDeadline ==
  ASSUME NEW c, "mtimecmp" \in DOMAIN c, DOMAIN c.mtimecmp = 0 .. 7,
         NEW o \in {0, 4}, NEW n \in {4, 8}, o + n <= 8, NEW x, NEW d,
         d = C!DoStore(c, C!kMtimeCmpBase + o, C!ToBytes(x, n), n)
  PROVE  /\ C!Mapped(C!kMtimeCmpBase + o, n) /\ DOMAIN d = DOMAIN c
         /\ d.mtimecmp = [k \in 0 .. 7 |-> IF k - o \in 0 .. n - 1
                                           THEN (x \div Base^(k - o)) % Base
                                           ELSE c.mtimecmp[k]]
<1>1. PICK a : a = C!kMtimeCmpBase + o
  OBVIOUS
<1>2. a = 16384 + o
  BY <1>1 DEF C!kMtimeCmpBase
<1>3. DOMAIN C!Files = {"msip", "mtimecmp", "mtime"}
  BY DEF C!Files
<1>4. C!Holds("mtimecmp", a, n) /\ ~ C!Holds("msip", a, n) /\ ~ C!Holds("mtime", a, n)
  BY <1>2 DEF C!Holds, C!Files, C!kMsipBase, C!kMtimeCmpBase, C!kMtimeBase
<1>5. C!FileOf(a, n) = "mtimecmp" /\ C!Mapped(a, n)
  BY <1>3, <1>4 DEF C!FileOf, C!Mapped
<1>6. a - C!Files["mtimecmp"].base = o
  BY <1>2 DEF C!Files, C!kMtimeCmpBase
<1>7. PICK buf, file : buf = C!ToBytes(x, n) /\ file = C!Patch(c.mtimecmp, o, buf)
  OBVIOUS
<1>8. d = [c EXCEPT !.mtimecmp = file]
  BY <1>1, <1>5, <1>6, <1>7, Zenon DEF C!DoStore
<1>9. buf = [i \in 0 .. n - 1 |-> (x \div Base^i) % Base]
  BY <1>7 DEF C!ToBytes
<1>10. file = [k \in 0 .. 7 |-> IF k - o \in 0 .. n - 1
                                THEN (x \div Base^(k - o)) % Base ELSE c.mtimecmp[k]]
  <2>1. file = [k \in 0 .. 7 |-> IF k - o \in DOMAIN buf THEN buf[k - o] ELSE c.mtimecmp[k]]
    BY <1>7, Zenon DEF C!Patch
  <2>2. DOMAIN buf = 0 .. n - 1 /\ \A i \in 0 .. n - 1 : buf[i] = (x \div Base^i) % Base
    BY <1>9, Zenon
  <2>3. ASSUME NEW k \in 0 .. 7
        PROVE  file[k] = IF k - o \in 0 .. n - 1
                         THEN (x \div Base^(k - o)) % Base ELSE c.mtimecmp[k]
    BY <2>1, <2>2, Zenon
  <2> QED
    BY <2>1, <2>3, Zenon
<1> QED
  BY <1>1, <1>5, <1>8, <1>10, Zenon

LEMMA QuietClint ==
  ASSUME NEW acc, Tick(acc), acc.kind # "clint store"
  PROVE  clint' = clint
BY ZenonT(30) DEF Tick, ClintAfter

LEMMA InitTimer == DInit => ClockInv /\ TimerInv
<1> SUFFICES ASSUME DInit PROVE ClockInv /\ TimerInv
  OBVIOUS
<1>1. deadline \in C!Numbers(8)
  <2>1. CASE session.timer
    BY <2>1, DriversAssumption DEF DriversAssumption, DInit, FirstDeadline
  <2>2. CASE ~ session.timer
    <3>1. deadline = Base^8 - 1
      BY <2>2 DEF DInit, FirstDeadline
    <3> QED
      BY <3>1, Times
  <2> QED
    BY <2>1, <2>2
<1>2. PICK c : c = C!NewClint(now)
  OBVIOUS
<1>3. DOMAIN c = {"msip", "mtimecmp", "mtime"} /\ DOMAIN c.mtimecmp = 0 .. 7
  BY <1>2 DEF C!NewClint
<1>4. C!kMtimeCmpBase + 0 = C!kMtimeCmpBase
  BY DEF C!kMtimeCmpBase
<1>5. clint = C!DoStore(c, C!kMtimeCmpBase + 0, C!ToBytes(deadline, 8), 8)
  BY <1>2, <1>4 DEF DInit
<1>6. /\ DOMAIN clint = DOMAIN c
      /\ clint.mtimecmp = [k \in 0 .. 7 |-> IF k - 0 \in 0 .. 8 - 1
                                            THEN (deadline \div Base^(k - 0)) % Base
                                            ELSE c.mtimecmp[k]]
  <2>1. PICK o \in {0, 4}, n \in {4, 8} : o = 0 /\ n = 8 /\ o + n <= 8
    OBVIOUS
  <2>2. clint = C!DoStore(c, C!kMtimeCmpBase + o, C!ToBytes(deadline, n), n)
    BY <1>5, <2>1
  <2>3. "mtimecmp" \in DOMAIN c /\ DOMAIN c.mtimecmp = 0 .. 7
    BY <1>3
  <2>4. /\ DOMAIN clint = DOMAIN c
        /\ clint.mtimecmp = [k \in 0 .. 7 |-> IF k - o \in 0 .. n - 1
                                              THEN (deadline \div Base^(k - o)) % Base
                                              ELSE c.mtimecmp[k]]
    BY <2>1, <2>2, <2>3, StoreDeadline
  <2> QED
    BY <2>1, <2>4
<1>7. \A k \in 0 .. 7 : k - 0 = k /\ k - 0 \in 0 .. 8 - 1
  OBVIOUS
<1>8. Digits(clint, 0, 7, deadline) /\ DOMAIN clint.mtimecmp = 0 .. 7
  BY <1>6, <1>7, ZenonT(30) DEF Digits
<1>9. ClockInv
  BY <1>3, <1>6, InitClock, Zenon DEF DInit
<1> QED
  BY <1>1, <1>3, <1>6, <1>8, <1>9 DEF TimerInv, DInit

LEMMA NextTimer ==
  ASSUME ClockInv, TimerInv, [DNext]_dvars
  PROVE  TimerInv'
<1>1. deadline \in Nat
  BY Times DEF TimerInv
<1>2. CASE UNCHANGED <<clint, deadline, timer>>
  BY <1>2 DEF TimerInv, Digits
<1>3. CASE (Loop \/ Host) /\ UNCHANGED driver
  <2>1. CASE Poll
    <3>1. clint'.mtimecmp = clint.mtimecmp /\ "mtimecmp" \in DOMAIN clint'
      BY <2>1 DEF Poll, C!DoUpdateMtime, TimerInv
    <3> QED
      BY <1>3, <3>1 DEF driver, TimerInv, Digits
  <2>2. CASE ~ Poll
    <3>1. clint' = clint
      BY <1>3, <2>2, ZenonT(30) DEF Loop, Host, Drain, Drained, TestCtrlC, PutCtrlC, ClearCtrlC, UartInput,
           SigintHangler, SecondPasses, TimePasses
    <3> QED
      BY <1>2, <1>3, <3>1, Zenon DEF driver
  <2> QED
    BY <2>1, <2>2, Zenon
<1>4. CASE SerialDriver \/ Mret
  <2>1. clint' = clint
    BY <1>4, QuietClint, Zenon DEF SerialDriver, Idle, Claim, CheckStatus, ReadChar, Complete, Mret, NoAccess
  <2>2. timer \in {"idle", "mret"} /\ timer' \in {"mtime", "idle"} /\ deadline' = deadline
    BY <1>4 DEF SerialDriver, Mret, TakesTimer
  <2> QED
    BY <2>1, <2>2, Zenon DEF TimerInv, Digits
<1>5. CASE ReadMtime /\ UNCHANGED session
  <2>1. PICK acc : /\ acc.kind = "clint load" /\ Tick(acc)
                   /\ deadline' = TimeRead(acc) + Period
    BY <1>5, Zenon DEF ReadMtime
  <2>2. clint' = clint
    BY <2>1, QuietClint, ZenonT(30)
  <2>3. TimeRead(acc) \in 0 .. now /\ now \in Nat
    <3>1. ClockInv' /\ now' = now
      BY <1>5, <2>1, TickClock, Zenon DEF Tick
    <3>2. seen'.time = TimeRead(acc)
      BY <2>1, Zenon DEF Tick, ClockInv
    <3> QED
      BY <3>1, <3>2, Times, Zenon DEF ClockInv
  <2>4. now + Period \in C!Numbers(8)
    <3>1. /\ session \in Sessions /\ Period \in Nat
          /\ session.start + Period \in C!Numbers(8) /\ session.horizon + Period \in C!Numbers(8)
          /\ session.horizon \in C!Numbers(8)
      BY DriversAssumption, EmulatorAssumption, Zenon DEF DriversAssumption, EmulatorAssumption, ClockInv
    <3>2. CASE now = session.start
      BY <3>1, <3>2
    <3>3. CASE now <= session.horizon
      <4>1. PICK h \in Nat : h = session.horizon
        BY <3>1, Times
      <4> QED
        BY <2>3, <3>1, <3>3, <4>1, Times, SMTT(30)
    <3> QED
      BY <3>2, <3>3 DEF ClockInv
  <2>5. deadline' \in C!Numbers(8)
    <3>1. Period \in Nat
      BY DriversAssumption DEF DriversAssumption
    <3> QED
      <4>1. PICK t \in 0 .. now, b \in Nat : t = TimeRead(acc) /\ b = Base^8
        BY <2>3, Times
      <4>2. now + Period \in 0 .. b - 1
        BY <2>4, <4>1, Times
      <4>3. t + Period \in 0 .. b - 1
        BY <2>3, <3>1, <4>2
      <4> QED
        BY <2>1, <4>1, <4>3, Times, Zenon
  <2>6. timer' = "low"
    BY <1>5, Zenon DEF ReadMtime
  <2> QED
    BY <2>2, <2>5, <2>6 DEF TimerInv
<1>6. ASSUME NEW o \in {0, 4}, NEW x, SetHalf(o, x)
      PROVE  /\ "mtimecmp" \in DOMAIN clint' /\ DOMAIN clint'.mtimecmp = 0 .. 7
             /\ \A k \in 0 .. 7 : clint'.mtimecmp[k] = IF k - o \in 0 .. 3
                                                       THEN (x \div Base^(k - o)) % Base
                                                       ELSE clint.mtimecmp[k]
  <2>1. PICK a, d : a = C!kMtimeCmpBase + o /\ d = C!DoStore(clint, a, C!ToBytes(x, 4), 4)
    OBVIOUS
  <2>2. /\ C!Mapped(a, 4) /\ DOMAIN d = DOMAIN clint
        /\ d.mtimecmp = [k \in 0 .. 7 |-> IF k - o \in 0 .. 4 - 1
                                          THEN (x \div Base^(k - o)) % Base
                                          ELSE clint.mtimecmp[k]]
    BY <2>1, StoreDeadline, SMTT(30) DEF TimerInv
  <2>3. clint' = d
    BY <1>6, <2>1, <2>2, Zenon DEF SetHalf, Word, Tick, ClintAfter
  <2>4. 0 .. 4 - 1 = 0 .. 3
    BY SMTT(30)
  <2> QED
    BY <2>2, <2>3, <2>4, Zenon DEF TimerInv
<1>7. CASE SetLow
  <2>1. /\ \A k \in 0 .. 7 : clint'.mtimecmp[k] = IF k - 0 \in 0 .. 3
                                                  THEN ((deadline % Base^4) \div Base^(k - 0)) % Base
                                                  ELSE clint.mtimecmp[k]
        /\ "mtimecmp" \in DOMAIN clint' /\ DOMAIN clint'.mtimecmp = 0 .. 7
    BY <1>6, <1>7 DEF SetLow
  <2>2. ASSUME NEW k \in 0 .. 3 PROVE clint'.mtimecmp[k] = (deadline \div Base^k) % Base
    <3>1. k \in 0 .. 7 /\ k - 0 = k /\ k - 0 \in 0 .. 3
      OBVIOUS
    <3>2. ((deadline % Base^4) \div Base^k) % Base = (deadline \div Base^k) % Base
      BY <1>1, HalfDigits
    <3> QED
      BY <2>1, <3>1, <3>2, Zenon
  <2>3. timer' = "high" /\ deadline' = deadline
    BY <1>7, Zenon DEF SetLow
  <2> QED
    BY <2>1, <2>2, <2>3, Zenon DEF TimerInv, Digits
<1>8. CASE SetHigh
  <2>1. /\ \A k \in 0 .. 7 : clint'.mtimecmp[k] = IF k - 4 \in 0 .. 3
                                                  THEN ((deadline \div Base^4) \div Base^(k - 4)) % Base
                                                  ELSE clint.mtimecmp[k]
        /\ "mtimecmp" \in DOMAIN clint' /\ DOMAIN clint'.mtimecmp = 0 .. 7
    BY <1>6, <1>8 DEF SetHigh
  <2>2. timer = "high" /\ timer' = "mret" /\ deadline' = deadline
    BY <1>8 DEF SetHigh
  <2>3. ASSUME NEW k \in 0 .. 7 PROVE clint'.mtimecmp[k] = (deadline \div Base^k) % Base
    <3>1. CASE k \in 0 .. 3
      <4>1. ~ (k - 4 \in 0 .. 3)
        BY <3>1
      <4> QED
        BY <2>1, <2>2, <3>1, <4>1, Zenon DEF TimerInv, Digits
    <3>2. CASE k \in 4 .. 7
      <4>1. PICK i \in 0 .. 3 : i = k - 4 /\ i + 4 = k
        BY <3>2
      <4>2. ((deadline \div Base^4) \div Base^i) % Base = (deadline \div Base^(i + 4)) % Base
        BY <1>1, HalfDigits
      <4> QED
        BY <2>1, <4>1, <4>2, Zenon
    <3> QED
      BY <3>1, <3>2
  <2> QED
    BY <2>1, <2>2, <2>3, Zenon DEF TimerInv, Digits
<1> QED
  BY <1>2, <1>3, <1>4, <1>5, <1>7, <1>8, Zenon DEF DNext, MainThread, Guest, Exited, dvars, vars, driver

\* When the line of the timer is up, the deadline has passed.
LEMMA LineIsLate ==
  ASSUME ClockInv, TimerInv, main = "tick", timer \in {"idle", "mret"}, TimerLine
  PROVE  now > deadline
<1>1. PICK t \in seen.time .. now : clint.mtime = C!ToBytes(t, 8)
  BY DEF ClockInv
<1>2. t \in C!Numbers(8) /\ t \in Nat /\ t <= now /\ now \in Nat /\ deadline \in Nat
  BY <1>1, Times DEF ClockInv, TimerInv
<1>3. C!FromBytes(clint.mtime, 8) = t
  <2>1. \A i \in 0 .. 8 - 1 : clint.mtime[i] = (t \div Base^i) % Base
    BY <1>1 DEF C!ToBytes
  <2> QED
    BY <1>2, <2>1, NumberBack, SMTT(30)
<1>4. PICK buf : buf = C!Slice(clint.mtimecmp, 8 * 0, 8)
  OBVIOUS
<1>5. C!FromBytes(buf, 8) = deadline
  <2>1. \A i \in 0 .. 8 - 1 : 8 * 0 + i = i /\ i \in 0 .. 7
    OBVIOUS
  <2>2. \A i \in 0 .. 8 - 1 : buf[i] = (deadline \div Base^i) % Base
    BY <1>4, <2>1, Zenon DEF C!Slice, TimerInv, Digits
  <2> QED
    BY <2>2, NumberBack DEF TimerInv
<1>6. t > deadline
  BY <1>3, <1>4, <1>5 DEF TimerLine, C!MachineTimerIrq
<1> QED
  BY <1>2, <1>6

\* The timer never rings early, although its handler sets the deadline one
\* half at a time and may find any time in mtime: for every period, first
\* time and width of a byte, and wherever the serial driver is.
THEOREM RingsInTime == DSpec => NeverEarly
<1>1. DInit => ClockInv /\ TimerInv
  BY InitTimer
<1>2. ClockInv /\ TimerInv /\ [DNext]_dvars => (ClockInv /\ TimerInv)'
  BY GuestClock, NextTimer
<1>3. ClockInv /\ TimerInv /\ [DNext]_dvars
        => [timer # "mtime" /\ timer' = "mtime" => now > deadline]_dvars
  <2> SUFFICES ASSUME ClockInv, TimerInv, DNext, timer # "mtime", timer' = "mtime"
               PROVE  now > deadline
    OBVIOUS
  <2>1. SerialDriver \/ Mret
    BY DEF DNext, MainThread, Guest, ReadMtime, SetLow, SetHigh, Exited, driver
  <2>2. timer \in {"idle", "mret"} /\ TimerLine /\ \E acc : Tick(acc)
    BY <2>1, GuestTicks DEF SerialDriver, Mret, TakesTimer, Guest
  <2> QED
    BY <2>2, LineIsLate DEF Tick
<1> QED
  BY <1>1, <1>2, <1>3, PTL DEF DSpec, NeverEarly

-----------------------------------------------------------------------------
(* The serial driver in Drivers                                            *)

\* The registers that the guest set when it booted.
Booted(p) ==
  p.priority[1] = 1 /\ p.ctx[1].threshold = 0 /\ p.ctx[1].enable = {1}

LEMMA BootFacts == 1 \in Sources /\ 1 \in Bits /\ 1 \in Levels /\ 1 \in Contexts /\ UartSource = 1 /\ SContext = 1
BY PlicAssumption, DriversAssumption
   DEF PlicAssumption, DriversAssumption, Sources, Bits, Levels, UartSource, SContext

\* A handler that was entered finds its interrupt: while it waits to claim,
\* the serial port holds up its line, which the loop carries to the controller
\* before each tick, and the source is not claimed.
IsrInv ==
  /\ plic \in PlicType /\ Booted(plic)
  /\ uart \in UartType
  /\ isr \in {"idle", "claim", "status", "read", "complete"}
  /\ main = "tick" /\ 1 \in plic.pending => T!Irq(uart)
  /\ isr = "claim" => T!Irq(uart) /\ (main = "tick" => 1 \in plic.pending)
  /\ isr \in {"idle", "claim"} => 1 \notin Claimed(plic, 1)
  /\ isr \in {"status", "read", "complete"} => id = 1

\* Of the enabled sources only the serial port's is there to be found.
LEMMA LineMeans ==
  ASSUME IsrInv
  PROVE  /\ Scan(plic, 1) # 0 => 1 \in plic.pending
         /\ 1 \in plic.pending /\ 1 \notin Claimed(plic, 1) => Scan(plic, 1) = 1
<1>1. plic.priority[1] = 1 /\ plic.ctx[1].threshold = 0 /\ plic.ctx[1].enable = {1}
  BY DEF IsrInv, Booted
<1>2. Scan(plic, 1) # 0 => 1 \in plic.pending
  <2>1. PICK i : i = Scan(plic, 1)
    OBVIOUS
  <2>2. i # 0 => Eligible(plic, 1, i)
    BY <2>1, ScanEligible
  <2> QED
    BY <1>1, <2>1, <2>2 DEF Eligible
<1>3. ASSUME 1 \in plic.pending, 1 \notin Claimed(plic, 1)
      PROVE  Scan(plic, 1) = 1
  <2>1. \A i \in Candidates(plic, 1) : i = 1
    BY <1>1 DEF Candidates
  <2>2. 1 \in Candidates(plic, 1)
    BY <1>1, <1>3, BootFacts DEF Candidates, Claimed
  <2>3. Best(plic, 1) = 1
    BY <1>1, <2>1, <2>2 DEF Best
  <2>4. Scan(plic, 1) = Best(plic, 1)
    BY ScanFindsBest, BootFacts DEF PlicTypeOK, ScanIsBest, IsrInv
  <2> QED
    BY <2>3, <2>4
<1> QED
  BY <1>2, <1>3

\* The line does not drop when a character comes in or goes out.
LEMMA PutcIrq ==
  ASSUME NEW u \in UartType, NEW ch \in Chars, NEW v, v = T!DoPutc(u, ch)
  PROVE  v \in UartType /\ T!Irq(v)
<1>1. v \in UartType /\ v.rx = Append(u.rx, ch)
  BY PutcUart DEF UartType
<1>2. Append(u.rx, ch) # <<>>
  BY DEF UartType, UartOf
<1> QED
  BY <1>1, <1>2 DEF T!Irq

LEMMA GetcIrq ==
  ASSUME NEW u \in UartType, u.tx # <<>>, NEW v, v = T!DoGetc(u)
  PROVE  v \in UartType /\ (T!Irq(u) => T!Irq(v))
<1>1. v \in UartType /\ v.rx = u.rx
  BY GetcUart DEF UartType
<1>2. u.wait_ack => v.wait_ack
  BY DEF T!DoGetc, UartType, UartOf
<1> QED
  BY <1>1, <1>2 DEF T!Irq

\* What the driver transmits does not touch the received characters.
LEMMA SendIrq ==
  ASSUME NEW u \in UartType, NEW ch \in Chars,
         NEW v, v = T!DoStore(u, Word(4), [tx_fifo |-> ch])
  PROVE  v \in UartType /\ (T!Irq(u) <=> T!Irq(v))
<1>1. PICK a, val : a = Word(4) /\ val = [tx_fifo |-> ch]
  OBVIOUS
<1>2. a.addr = 4 /\ a.bytes = 4 /\ ~ T!Touches(a, "control")
  BY <1>1 DEF Word, T!Touches, T!UartReg
<1>3. T!Words = {"rx_fifo", "tx_fifo", "status", "control"}
  BY DEF T!Words, T!UartReg
<1>4. \A w \in T!Covers(a) : w = "tx_fifo"
  BY <1>2, <1>3, SMTT(30) DEF T!Covers, T!UartReg
<1>5. \A w \in T!Covers(a) : val[w] \in RegValues(Chars)[w]
  <2>1. val.tx_fifo = ch /\ RegValues(Chars).tx_fifo = Chars
    BY <1>1, Zenon DEF RegValues
  <2> QED
    BY <1>4, <2>1, Zenon
<1>6. v \in UartType /\ v.rx = u.rx /\ v.wait_ack = u.wait_ack
  <2>1. u \in UartOf(Chars) /\ v = T!DoStore(u, a, val)
    BY <1>1, Zenon DEF UartType
  <2>2. v \in UartOf(Chars)
    BY <1>5, <2>1, StoreUart
  <2>3. v.wait_ack = u.wait_ack
    BY <1>5, <2>1, StoreUart
  <2>4. v.rx = u.rx
    BY <1>2, <1>5, <2>1, StoreUart
  <2> QED
    BY <2>2, <2>3, <2>4, Zenon DEF UartType
<1> QED
  BY <1>6 DEF T!Irq

\* The controller after a tick of the driver.
LEMMA TickBooted ==
  ASSUME IsrInv, NEW acc,
         \/ acc.kind \notin {"plic load", "plic store"}
         \/ acc.kind \in {"plic load", "plic store"} /\ acc.reg = ClaimReg
  PROVE  /\ PlicAfter(acc) \in PlicType /\ Booted(PlicAfter(acc))
         /\ Claimed(PlicAfter(acc), 1) =
              CASE acc.kind = "plic load"  -> Claimed(plic, 1) \cup {Scan(plic, 1)}
                [] acc.kind = "plic store" -> Claimed(plic, 1) \ {acc.val["claim"]}
                [] OTHER                   -> Claimed(plic, 1)
<1>1. PICK p : p = Arbitrated
  BY Zenon
<1>2. p \in PlicType /\ Claimed(p, 1) = Claimed(plic, 1) /\ p.ctx[1].claim = Scan(plic, 1)
  BY <1>1, ArbitratedPlic, BootFacts, ZenonT(30) DEF IsrInv
<1>3. Booted(p)
  <2>1. p.ctx[1] = DoGetInterrupt(plic, 1).ctx[1] /\ p.priority = plic.priority
    BY <1>1, BootFacts, Zenon DEF Arbitrated, IsrInv, PlicType
  <2>2. DoGetInterrupt(plic, 1).ctx[1] = [plic.ctx[1] EXCEPT !.claim = Scan(plic, 1)]
    BY BootFacts, Zenon DEF DoGetInterrupt, IsrInv, PlicType
  <2>3. /\ p.ctx[1].threshold = plic.ctx[1].threshold
        /\ p.ctx[1].enable = plic.ctx[1].enable
    <3>1. PICK y, n : y = plic.ctx[1] /\ n = Scan(plic, 1) /\ p.ctx[1] = [y EXCEPT !.claim = n]
      BY <2>1, <2>2, ZenonT(30)
    <3>2. y \in CtxType
      BY <3>1, BootFacts, Zenon DEF IsrInv, PlicType, CtxType
    <3> QED
      BY <3>1, <3>2, Zenon DEF CtxType
  <2> QED
    BY <2>1, <2>3, Zenon DEF Booted, IsrInv
<1>4. Exists(ClaimReg) /\ ClaimReg.reg = "claim" /\ ClaimReg.at = 1
  BY BootFacts, Zenon DEF Exists, ClaimReg
<1>5. CASE acc.kind = "plic load"
  <2>1. PICK q : q = DoLoad(p, ClaimReg) /\ q = PlicAfter(acc)
    BY <1>1, <1>5, Zenon DEF PlicAfter
  <2>2. q = [p EXCEPT !.ctx[1].claimed = p.ctx[1].claimed \cup {p.ctx[1].claim}]
    BY <1>2, <1>4, <2>1, BootFacts, ZenonT(30) DEF DoLoad, PlicType
  <2>3. q \in PlicType /\ Claimed(q, 1) = Claimed(p, 1) \cup {p.ctx[1].claim}
    BY <1>2, <1>4, <2>1, LoadPlic, BootFacts, Zenon
  <2>4. Booted(q)
    BY <1>2, <1>3, <2>2, BootFacts, ZenonT(30) DEF Booted, PlicType
  <2> QED
    BY <1>2, <1>5, <2>1, <2>3, <2>4, Zenon
<1>6. CASE acc.kind = "plic store"
  <2>1. PICK val, q : val = acc.val["claim"] /\ q = DoStore(p, ClaimReg, val) /\ q = PlicAfter(acc)
    BY <1>1, <1>4, <1>6, Zenon DEF PlicAfter
  <2>2. PICK r, x : /\ r = ClaimReg /\ Exists(r) /\ r.reg = "claim" /\ r.at = 1
                    /\ x = [p.ctx[1] EXCEPT !.claimed = p.ctx[1].claimed \ {val}]
    BY <1>4, Zenon
  <2>3. q \in PlicType
    <3>1. /\ r.reg \in {"pending", "enable"} => val \in SUBSET Bits
          /\ r.reg \in {"priority", "threshold"} => val \in Levels
      BY <2>2, Zenon
    <3>2. p \in PlicType
      BY <1>2, Zenon
    <3>3. DoStore(p, r, val) \in PlicType
      BY <3>1, <3>2, StorePlic, Zenon
    <3> QED
      BY <2>1, <2>2, <3>3, Zenon
  <2>4. q = [p EXCEPT !.ctx[1] = x]
    BY <1>2, <2>1, <2>2, BootFacts, Zenon DEF DoStore, PlicType
  <2>5. q.ctx[1] = x /\ q.priority = p.priority
    BY <1>2, <2>4, BootFacts, Zenon DEF PlicType
  <2>6. x.threshold = p.ctx[1].threshold /\ x.enable = p.ctx[1].enable
    BY <1>2, <2>2, BootFacts, Zenon DEF PlicType, CtxType
  <2>7. Claimed(q, 1) = Claimed(p, 1) \ {val}
    BY <1>2, <2>2, <2>5, BootFacts, ZenonT(30) DEF Claimed, PlicType, CtxType
  <2>8. Booted(q)
    BY <1>3, <2>5, <2>6, Zenon DEF Booted
  <2> QED
    BY <1>2, <1>6, <2>1, <2>3, <2>7, <2>8, Zenon
<1>7. CASE acc.kind \notin {"plic load", "plic store"}
  <2>1. PlicAfter(acc) = p
    BY <1>1, <1>7, ZenonT(30) DEF PlicAfter
  <2> QED
    BY <1>2, <1>3, <1>7, <2>1, Zenon
<1> QED
  BY <1>5, <1>6, <1>7, Zenon

LEMMA InitIsr == DInit => IsrInv
<1> SUFFICES ASSUME DInit PROVE IsrInv
  OBVIOUS
<1>1. PICK p, q, r, s : /\ p = ResetPlic
                        /\ r = [reg |-> "priority", at |-> UartSource]
                        /\ s = [reg |-> "enable", at |-> SContext]
                        /\ q = DoStore(p, r, 1) /\ plic = DoStore(q, s, {UartSource})
  BY ZenonT(30) DEF DInit, BootedPlic
<1>2. p \in PlicType /\ p.ctx[1].threshold = 0 /\ p.ctx[1].claimed = {}
  BY <1>1, ResetPlicType, BootFacts, Zenon DEF ResetPlic
<1>3. /\ Exists(r) /\ r.reg = "priority" /\ r.at = 1
      /\ Exists(s) /\ s.reg = "enable" /\ s.at = 1
  BY <1>1, BootFacts DEF Exists
<1>4. q \in PlicType /\ q.priority[1] = 1 /\ q.ctx = p.ctx
  <2>1. q = [p EXCEPT !.priority[1] = 1]
    BY <1>1, <1>3 DEF DoStore
  <2> QED
    BY <1>2, <2>1, BootFacts DEF PlicType
<1>5. PICK x : x = [q.ctx[1] EXCEPT !.enable = {1}]
  BY Zenon
<1>6. plic = [q EXCEPT !.ctx[1] = x]
  BY <1>1, <1>3, <1>4, <1>5, BootFacts, Zenon DEF DoStore, PlicType
<1>7. x \in CtxType /\ x.enable = {1} /\ x.threshold = 0 /\ x.claimed = {}
  BY <1>2, <1>4, <1>5, BootFacts DEF PlicType, CtxType
<1>8. plic \in PlicType
  BY <1>4, <1>6, <1>7, SetContext, BootFacts
<1>9. plic.priority[1] = 1 /\ plic.ctx[1] = x
  BY <1>4, <1>6, BootFacts, Zenon DEF PlicType
<1>10. uart \in UartType
  BY NewUartType, EmulatorAssumption, Zenon DEF DInit, UartType, EmulatorAssumption
<1> QED
  BY <1>7, <1>8, <1>9, <1>10 DEF DInit, IsrInv, Booted, Claimed

\* What the serial driver does with the controller and the serial port.
LEMMA DriverStep ==
  ASSUME IsrInv, Guest
  PROVE  IsrInv' /\ (isr = "claim" /\ isr' # "claim" => isr' = "status")
<1>0. main = "tick" /\ main' = "drain"
  BY GuestTicks, Zenon DEF Tick
<1>1. ASSUME NEW acc, Tick(acc), acc.kind \notin {"plic load", "plic store", "uart load", "uart store"}
      PROVE  /\ plic' \in PlicType /\ Booted(plic') /\ Claimed(plic', 1) = Claimed(plic, 1)
             /\ uart' = uart
  <2>1. plic' = PlicAfter(acc) /\ uart' = uart
    BY <1>1, ZenonT(30) DEF Tick, UartAfter
  <2> QED
    BY <1>1, <2>1, TickBooted, Zenon
\* Entering the handler.
<1>2. ASSUME Line(plic, SContext)
      PROVE  T!Irq(uart)
  BY <1>0, <1>2, LineMeans, BootFacts, Zenon DEF Line, IsrInv
<1>3. CASE Idle
  <2>1. /\ plic' \in PlicType /\ Booted(plic') /\ Claimed(plic', 1) = Claimed(plic, 1)
        /\ uart' \in UartType /\ (T!Irq(uart) <=> T!Irq(uart'))
    <3>1. CASE Tick(NoAccess)
      BY <1>1, <3>1, Zenon DEF NoAccess, IsrInv
    <3>2. ASSUME NEW ch \in SentChars, NEW acc, Tick(acc),
                 acc = [kind |-> "uart store", at |-> Word(4), val |-> [tx_fifo |-> ch]]
          PROVE  /\ plic' \in PlicType /\ Booted(plic') /\ Claimed(plic', 1) = Claimed(plic, 1)
                 /\ uart' \in UartType /\ (T!Irq(uart) <=> T!Irq(uart'))
      <4>1. plic' = PlicAfter(acc) /\ uart' = T!DoStore(uart, Word(4), [tx_fifo |-> ch])
        BY <3>2, Zenon DEF Tick, UartAfter
      <4>2. ch \in Chars
        BY DriversAssumption DEF DriversAssumption
      <4>3. acc.kind = "uart store"
        BY <3>2, ZenonT(30)
      <4>4. uart' \in UartType /\ (T!Irq(uart) <=> T!Irq(uart'))
        <5>1. uart \in UartType
          BY Zenon DEF IsrInv
        <5>2. PICK v : v = uart' /\ v = T!DoStore(uart, Word(4), [tx_fifo |-> ch])
          BY <4>1, Zenon
        <5>3. v \in UartType /\ (T!Irq(uart) <=> T!Irq(v))
          BY <4>2, <5>1, <5>2, SendIrq
        <5> QED
          BY <5>2, <5>3 DEF T!Irq
      <4> QED
        BY <4>1, <4>3, <4>4, TickBooted, Zenon
    <3> QED
      BY <1>3, <3>1, <3>2, ZenonT(30) DEF Idle
  <2>2. isr = "idle" /\ isr' \in {"idle", "claim"} /\ (isr' = "claim" => Line(plic, SContext))
    BY <1>3, ZenonT(30) DEF Idle, Delivered
  <2> QED
    BY <1>0, <1>2, <2>1, <2>2, Zenon DEF IsrInv
<1>4. CASE Claim
  <2>1. PICK acc : /\ acc = [kind |-> "plic load", reg |-> ClaimReg]
                   /\ plic' = PlicAfter(acc) /\ uart' = uart
    BY <1>4, Zenon DEF Claim, Tick, UartAfter
  <2>2. plic' \in PlicType /\ Booted(plic')
    BY <2>1, TickBooted, ZenonT(30)
  <2>3. Scan(plic, 1) = 1
    BY <1>0, <1>4, LineMeans, ZenonT(30) DEF Claim, IsrInv
  <2>4. id' = Scan(plic, 1)
    <3>1. id' = LoadValue(Arbitrated, ClaimReg)
      BY <1>4, Zenon DEF Claim
    <3>2. Exists(ClaimReg) /\ ClaimReg.reg = "claim" /\ ClaimReg.at = 1
      BY BootFacts DEF Exists, ClaimReg
    <3>3. LoadValue(Arbitrated, ClaimReg) = Arbitrated.ctx[1].claim
      BY <3>2 DEF LoadValue
    <3> QED
      BY <3>1, <3>3, ArbitratedPlic, BootFacts DEF IsrInv
  <2>5. isr' = "status"
    <3>1. isr' = IF id' = 0 THEN "idle" ELSE "status"
      BY <1>4, ZenonT(30) DEF Claim
    <3> QED
      BY <2>3, <2>4, <3>1
  <2> QED
    BY <1>0, <2>1, <2>2, <2>3, <2>4, <2>5, ZenonT(30) DEF IsrInv
<1>5. ASSUME CheckStatus \/ ReadChar
      PROVE  IsrInv' /\ isr \in {"status", "read"}
  <2>1. PICK acc : acc.kind = "uart load" /\ plic' = PlicAfter(acc) /\ uart' = T!DoLoad(uart, acc.at)
    BY <1>5, Zenon DEF CheckStatus, ReadChar, Tick, UartAfter
  <2>2. plic' \in PlicType /\ Booted(plic')
    BY <2>1, TickBooted, ZenonT(30)
  <2>3. uart' \in UartType
    BY <2>1, LoadUart, ZenonT(30) DEF UartType, IsrInv
  <2>4. /\ isr \in {"status", "read"} /\ isr' \in {"status", "read", "complete"}
        /\ id' = id
    BY <1>5, ZenonT(30) DEF CheckStatus, ReadChar
  <2> QED
    BY <1>0, <2>2, <2>3, <2>4 DEF IsrInv
<1>6. CASE Complete
  <2>1. PICK acc : /\ acc = [kind |-> "plic store", reg |-> ClaimReg, val |-> [claim |-> id]]
                   /\ plic' = PlicAfter(acc) /\ uart' = uart
    BY <1>6, ZenonT(30) DEF Complete, Tick, UartAfter
  <2>2. acc.kind = "plic store" /\ acc.reg = ClaimReg /\ acc.val["claim"] = id /\ id = 1
    BY <1>6, <2>1, Zenon DEF Complete, IsrInv
  <2>3. plic' \in PlicType /\ Booted(plic') /\ Claimed(plic', 1) = Claimed(plic, 1) \ {1}
    BY <2>1, <2>2, TickBooted, ZenonT(30)
  <2>4. isr = "complete" /\ isr' = "idle" /\ id' = id
    BY <1>6, ZenonT(30) DEF Complete
  <2> QED
    BY <1>0, <2>1, <2>3, <2>4, ZenonT(30) DEF IsrInv
\* The timer's handler leaves both alone.
<1>7. CASE ReadMtime \/ SetLow \/ SetHigh \/ Mret
  <2>1. PICK acc : /\ Tick(acc)
                   /\ acc.kind \notin {"plic load", "plic store", "uart load", "uart store"}
    <3>1. ASSUME NEW at, NEW acc, Tick(acc), acc = [kind |-> "clint load", at |-> at]
          PROVE  acc.kind \notin {"plic load", "plic store", "uart load", "uart store"}
      BY <3>1, Zenon
    <3>2. ASSUME NEW at, NEW val, NEW acc, Tick(acc),
                 acc = [kind |-> "clint store", at |-> at, val |-> val]
          PROVE  acc.kind \notin {"plic load", "plic store", "uart load", "uart store"}
      BY <3>2, Zenon
    <3>3. NoAccess.kind \notin {"plic load", "plic store", "uart load", "uart store"}
      BY DEF NoAccess
    <3> QED
      BY <1>7, <3>1, <3>2, <3>3, Zenon DEF ReadMtime, SetLow, SetHigh, SetHalf, Mret
  <2>2. /\ plic' \in PlicType /\ Booted(plic') /\ Claimed(plic', 1) = Claimed(plic, 1)
        /\ uart' = uart
    BY <1>1, <2>1, ZenonT(30)
  <2>3. id' = id /\ \/ isr' = isr
                    \/ isr = "idle" /\ isr' = "claim" /\ Line(plic, SContext)
    BY <1>7, Zenon DEF ReadMtime, SetLow, SetHigh, Mret, Delivered
  <2> QED
    BY <1>0, <1>2, <2>2, <2>3 DEF IsrInv
<1>8. Idle \/ Claim \/ CheckStatus \/ ReadChar \/ Complete
      \/ ReadMtime \/ SetLow \/ SetHigh \/ Mret
  BY DEF Guest, SerialDriver
<1> QED
  BY <1>3, <1>4, <1>5, <1>6, <1>7, <1>8, Zenon

\* The steps of the loop and of the host while the driver waits.
LEMMA HostIsr ==
  ASSUME IsrInv, Loop \/ Host, UNCHANGED driver
  PROVE  IsrInv'
<1>0. isr' = isr /\ id' = id
  BY Zenon DEF driver
<1>1. CASE Poll
  <2>1. PICK fired, q : /\ fired \in BOOLEAN /\ fired = T!Irq(uart)
                        /\ q = DoUpdateExt(plic, 1, fired)
    BY Zenon DEF T!Irq, IsrInv, UartType, UartOf
  <2>2. plic' = q /\ uart' = uart /\ main' = "tick"
    BY <1>1, <2>1, BootFacts DEF Poll
  <2>3. q \in PlicType /\ q.ctx = plic.ctx
    BY <2>1, UpdateExtPlic, BootFacts DEF IsrInv
  <2>4. q.priority = plic.priority /\ (1 \in q.pending <=> fired)
    BY <2>1, BootFacts DEF DoUpdateExt, IsrInv, PlicType
  <2> QED
    BY <1>0, <2>1, <2>2, <2>3, <2>4, Zenon DEF IsrInv, Booted, Claimed
<1>2. CASE Drain
  <2>1. /\ uart' \in UartType /\ (T!Irq(uart) => T!Irq(uart'))
        /\ plic' = plic /\ main = "drain" /\ main' = main
    BY <1>2, GetcIrq, Zenon DEF Drain, T!TxBufferNotEmpty, IsrInv
  <2> QED
    BY <1>0, <2>1 DEF IsrInv
<1>3. ASSUME NEW ch \in Chars, uart' = T!DoPutc(uart, ch), plic' = plic, main' \in {main, "clear"}
      PROVE  IsrInv'
  <2>1. uart' \in UartType /\ T!Irq(uart')
    BY <1>3, PutcIrq DEF IsrInv
  <2> QED
    BY <1>0, <1>3, <2>1, Zenon DEF IsrInv
<1>4. CASE PutCtrlC
  BY <1>3, <1>4, EmulatorAssumption, Zenon DEF PutCtrlC, EmulatorAssumption
<1>5. ASSUME NEW key \in Keys, UartInput(key)
      PROVE  IsrInv'
  BY <1>3, <1>5, EmulatorAssumption, ZenonT(30) DEF UartInput, EmulatorAssumption
<1>6. CASE Drained \/ TestCtrlC \/ ClearCtrlC \/ SigintHangler \/ SecondPasses \/ TimePasses
  <2>1. uart' = uart /\ plic' = plic /\ (main' = main \/ main' \in {"ctrlc", "putc", "poll"})
    BY <1>6 DEF Drained, TestCtrlC, ClearCtrlC, SigintHangler, SecondPasses, TimePasses
  <2> QED
    BY <1>0, <2>1 DEF IsrInv
<1> QED
  BY <1>1, <1>2, <1>4, <1>5, <1>6 DEF Loop, Host

\* A handler that was entered finds its interrupt, for every number of keys,
\* signals and characters sent, and wherever the timer's handler runs: main.cc
\* carries the line of the serial port to Plic::UpdateExt before each tick, the
\* line does not drop before the handler reads, and no other load claims.
THEOREM FindsItsInterrupt == DSpec => NoSpuriousClaim
<1>1. IsrInv /\ [DNext]_dvars
        => IsrInv' /\ [isr = "claim" /\ isr' # "claim" => isr' = "status"]_dvars
  <2> SUFFICES ASSUME IsrInv, [DNext]_dvars
               PROVE  IsrInv' /\ (isr = "claim" /\ isr' # "claim" => isr' = "status")
    OBVIOUS
  <2>1. CASE Guest
    BY <2>1, DriverStep
  <2>2. CASE (Loop \/ Host) /\ UNCHANGED driver
    BY <2>2, HostIsr, Zenon DEF driver
  <2>3. CASE UNCHANGED dvars
    BY <2>3 DEF dvars, vars, driver, IsrInv
  <2> QED
    BY <2>1, <2>2, <2>3 DEF DNext, MainThread, Exited, dvars
<1> QED
  BY <1>1, InitIsr, PTL DEF DSpec, NoSpuriousClaim
=============================================================================
