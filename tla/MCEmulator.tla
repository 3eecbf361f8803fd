----------------------------- MODULE MCEmulator -----------------------------
(* Guests for Emulator: sets of device accesses.                            *)
EXTENDS Emulator

None == [kind |-> "none"]
UartLoad(addr, bytes) ==
  [kind |-> "uart load", at |-> [addr |-> addr, bytes |-> bytes]]
UartStore(addr, bytes, val) ==
  [kind |-> "uart store", at |-> [addr |-> addr, bytes |-> bytes],
   val |-> [w \in T!Covers([addr |-> addr, bytes |-> bytes]) |-> val]]
PlicLoad(reg, at) == [kind |-> "plic load", reg |-> [reg |-> reg, at |-> at]]
PlicStore(reg, at, val) ==
  [kind |-> "plic store", reg |-> [reg |-> reg, at |-> at],
   val |-> [r \in {reg} |-> val]]

ClintLoad(addr, bytes) ==
  [kind |-> "clint load", at |-> [addr |-> addr, bytes |-> bytes]]
ClintStore(addr, bytes, val) ==
  [kind |-> "clint store", at |-> [addr |-> addr, bytes |-> bytes], val |-> val]

\* A guest that transmits: through tx_fifo, alone or together with status, and
\* through the accesses that end just below it and so push its old value;
\* resets of the tx buffer, new and repeated by a store to status.
Transmitter ==
  { None, UartStore(4, 1, CR), UartStore(4, 4, LF),
    [kind |-> "uart store", at |-> [addr |-> 4, bytes |-> 8],
     val |-> [tx_fifo |-> 65, status |-> {}]],
    UartStore(3, 1, 0), UartStore(12, 4, {"RstTx"}),
    UartStore(12, 4, {}), UartStore(8, 4, {}), UartLoad(8, 4) }

\* A guest that receives: by word, byte and doubleword, with status reads
\* between and resets of the rx buffer.
Receiver ==
  { None, UartLoad(0, 4), UartLoad(0, 1), UartLoad(0, 8), UartLoad(8, 4),
    UartLoad(12, 8), UartStore(12, 4, {"RstRx"}),
    UartStore(12, 4, {}), UartStore(8, 4, {}) }

\* A guest that drives the interrupt controller from both of its contexts.
Claimer ==
  { None, UartLoad(0, 4), PlicStore("priority", 1, 1),
    PlicStore("priority", 2, 2), PlicStore("pending", 0, {1, 2, 3}) }
  \cup { PlicStore("enable", c, e) : c \in Contexts, e \in {{1}, {0, 1, 2, 3}} }
  \cup { PlicStore("threshold", c, 2) : c \in Contexts }
  \cup { PlicLoad("claim", c) : c \in Contexts }
  \cup { PlicStore("claim", c, i) : c \in Contexts, i \in 1 .. 3 }

\* A guest that reads the time in both ways and stores to the clock: all of
\* mtime, its upper half and the lowest byte of the deadline, msip, and an
\* access that reaches beyond mtime.
TimeKeeper ==
  { None, [kind |-> "rdtime"], ClintLoad(C!kMtimeBase, 8),
    ClintStore(C!kMtimeBase, 8, 0), ClintStore(C!kMtimeBase + 4, 4, 3),
    ClintStore(C!kMtimeBase + 4, 8, 0), ClintStore(C!kMtimeCmpBase, 1, 1),
    ClintStore(C!kMsipBase, 4, 15), ClintStore(C!kMsipBase, 1, 0) }

\* Output: four characters, in any order with resets and loads.  Input: two
\* keys and a SIGINT; one key and three SIGINTs.  Interrupts: one key, both
\* contexts.  Time: the clock passes the end of its low half.
MCSessions ==
  { [accesses |-> Transmitter, keys |-> 0, signals |-> 0, sent |-> 4,
     start |-> 0, horizon |-> 0],
    [accesses |-> Receiver, keys |-> 2, signals |-> 1, sent |-> 0,
     start |-> 0, horizon |-> 0],
    [accesses |-> {None, UartLoad(0, 4), UartStore(12, 4, {"RstRx"})},
     keys |-> 1, signals |-> 3, sent |-> 0, start |-> 0, horizon |-> 0],
    [accesses |-> Claimer, keys |-> 1, signals |-> 0, sent |-> 0,
     start |-> 0, horizon |-> 0],
    [accesses |-> TimeKeeper, keys |-> 0, signals |-> 0, sent |-> 0,
     start |-> 13, horizon |-> 18] }
=============================================================================
