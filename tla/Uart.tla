-------------------------------- MODULE Uart --------------------------------
(***************************************************************************)
(* The serial port (src/device/uart.cc).  Only the low byte of each of the *)
(* four words of reg_ matters: a character in rx_fifo and tx_fifo, the set *)
(* of the bits that are 1 in status and control.  The queues are sequences *)
(* of characters.  Every operation that touches a queue holds its lock for *)
(* as long as it does, so each operation is one atomic step.               *)
(***************************************************************************)
EXTENDS Integers, Sequences

\* UartReg: the words and their offsets.
UartReg == [rx_fifo |-> 0, tx_fifo |-> 4, status |-> 8, control |-> 12]
Words == DOMAIN UartReg

\* Bits of status and control.
StatusBits == {"TxFifoEmpty", "RxFifoValidData"}
ControlBits == {"RstTx", "RstRx"}

\* An access [addr, bytes] copies the low byte of these words.
Covers(a) == {w \in Words : a.addr <= UartReg[w] /\ UartReg[w] < a.addr + a.bytes}

\* The test by which Load and Store recognise a register: the upper bound is
\* inclusive, so an access that ends just below a word also counts.
Touches(a, w) == a.addr <= UartReg[w] /\ UartReg[w] <= a.addr + a.bytes

InRange(a) == a.addr + a.bytes <= 16

\* Uart::Uart.
NewUart ==
  [ reg |-> [rx_fifo |-> 0, tx_fifo |-> 0, status |-> {"TxFifoEmpty"}, control |-> {}],
    rx |-> <<>>, tx |-> <<>>, wait_ack |-> FALSE ]

\* Uart::Reset: the fifo words and control keep their contents.
DoReset(u) ==
  [u EXCEPT !.reg.status = {"TxFifoEmpty"}, !.wait_ack = FALSE,
            !.rx = <<>>, !.tx = <<>>]

-----------------------------------------------------------------------------
(* The guest's side.                                                       *)

\* The registers as Load first brings them up to date.
Refresh(u) ==
  IF u.rx # <<>>
  THEN [u.reg EXCEPT !.status = @ \cup {"RxFifoValidData"},
                     !.rx_fifo = Head(u.rx)]
  ELSE [u.reg EXCEPT !.status = @ \ {"RxFifoValidData"}]

\* Mutant: the character is popped whatever register is read.
DoLoad_PopAlways(u, a) ==
  IF ~ InRange(a) THEN u
  ELSE [u EXCEPT !.reg = Refresh(u),
                 !.wait_ack = FALSE,
                 !.rx = IF @ # <<>> THEN Tail(@) ELSE @]

\* Mutant: a load does not acknowledge the end of a transmission.
DoLoad_NoAck(u, a) ==
  IF ~ InRange(a) THEN u
  ELSE [u EXCEPT !.reg = Refresh(u),
                 !.rx = IF Touches(a, "rx_fifo") /\ @ # <<>> THEN Tail(@) ELSE @]

\* Uart::Load, and what it returns: a byte for each word it covers.
DoLoad(u, a) ==
  IF ~ InRange(a) THEN u
  ELSE [u EXCEPT !.reg = Refresh(u),
                 !.wait_ack = FALSE,
                 !.rx = IF Touches(a, "rx_fifo") /\ @ # <<>> THEN Tail(@) ELSE @]

LoadValue(u, a) == [w \in Covers(a) |-> Refresh(u)[w]]

\* Uart::Store.  val gives a byte for each word the access covers.  A store
\* that touches tx_fifo pushes the byte held there, new or old; one that
\* touches control obeys the bits held there, new or old.
DoStore(u, a, val) ==
  IF ~ InRange(a) THEN u
  ELSE LET reg == [w \in Words |-> IF w \in Covers(a) THEN val[w] ELSE u.reg[w]]
           tx == IF Touches(a, "tx_fifo") THEN Append(u.tx, reg.tx_fifo) ELSE u.tx
           cmd == IF Touches(a, "control") THEN reg.control ELSE {}
       IN  [u EXCEPT !.reg = reg,
                     !.tx = IF "RstTx" \in cmd THEN <<>> ELSE tx,
                     !.rx = IF "RstRx" \in cmd THEN <<>> ELSE @]

-----------------------------------------------------------------------------
(* The host's side.                                                        *)

DoPutc(u, ch) == [u EXCEPT !.rx = Append(@, ch)]

TxBufferNotEmpty(u) == u.tx # <<>>

\* Uart::Getc on a nonempty buffer; main tests that before each call.
DoGetc(u) ==
  [u EXCEPT !.tx = Tail(@), !.wait_ack = @ \/ Len(u.tx) = 1]

\* Mutant: received characters do not raise the line.
Irq_AckOnly(u) == u.wait_ack

Irq(u) == u.rx # <<>> \/ u.wait_ack
=============================================================================
