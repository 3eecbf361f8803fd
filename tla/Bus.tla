-------------------------------- MODULE Bus --------------------------------
(***************************************************************************)
(* The bus (src/device/bus.cc) with the memory (src/device/dram.cc) and    *)
(* the other devices of main mounted on it.  Guest accesses come in by     *)
(* physical address, from Sv39::Load and Store; main, which keeps pointers *)
(* to the devices, calls them directly as well.                            *)
(***************************************************************************)
EXTENDS Bytes, Plic, Serial, Sequences

CONSTANTS
  Harts,         \* of the clock
  DramSize,      \* size_ of the memory
  Order,         \* the devices in the order in which they are mounted
  Layout,        \* where each is mounted: [base, size]
  Sessions       \* [mounted, accesses, times, calls, queue]: how many devices
                 \* are mounted at the start, the accesses the guest may
                 \* make, times the host's clock may show, the devices that
                 \* main calls, and a bound on the queues of the serial port.
                 \* An access is [op, addr, bytes, buf]

VARIABLES
  session,       \* the one of Sessions that this is
  dev_cnt_,      \* device_ holds the first dev_cnt_ of Order
  dram,          \* memory_
  clint, uart,   \* see Clint and Uart; plic is declared in Plic
  reply          \* the last access and its result

devices == <<dram, clint, plic, uart>>
vars == <<session, dev_cnt_, dram, clint, plic, uart, reply>>

C == INSTANCE Clint

Accesses == UNION {s.accesses : s \in Sessions}

InNode(d, addr) ==
  Layout[d].base <= addr /\ addr < Layout[d].base + Layout[d].size

\* Four bytes make a word.
ASSUME WordAssumption == Base^4 = 2^kWordBits

\* The devices stand side by side, each with room for its registers.  Accesses
\* to the interrupt controller have the width of its registers, which hold
\* every number of four bytes.
ASSUME BusAssumption ==
  /\ Order \in Seq({"clint", "plic", "uart", "dram"})
  /\ \A i, j \in DOMAIN Order : Order[i] = Order[j] => i = j
  /\ Len(Order) <= 16                                 \* kMaxMmioDevicesNum
  /\ Harts \in Nat /\ DramSize \in Nat
  /\ Base \in Nat \ {0, 1} /\ PowersOfBase
  /\ Base^4 - 1 <= MaxPriority
  /\ \A i \in DOMAIN Order : /\ Layout[Order[i]].base \in Nat
                             /\ Layout[Order[i]].size \in Nat
  /\ \A i, j \in DOMAIN Order :
       i # j => \/ Layout[Order[i]].base + Layout[Order[i]].size <= Layout[Order[j]].base
                \/ Layout[Order[j]].base + Layout[Order[j]].size <= Layout[Order[i]].base
  /\ \A i \in DOMAIN Order :
       /\ Order[i] = "dram" => DramSize <= Layout["dram"].size
       /\ Order[i] = "clint" => C!kMtimeBase + 8 <= Layout["clint"].size
  /\ Harts <= 4095
  /\ \A acc \in Accesses :
       /\ acc.op \in {"load", "store"} /\ acc.addr \in Nat /\ acc.bytes \in {1, 2, 4, 8}
       /\ acc.op = "store" => acc.buf \in [0 .. acc.bytes - 1 -> Byte]
       /\ InNode("plic", acc.addr) => acc.bytes = 4
  /\ \A s \in Sessions : s.mounted \in 0 .. Len(Order) /\ s.times \subseteq Nat

Init ==
  /\ session \in Sessions
  /\ dev_cnt_ = session.mounted
  /\ dram = [i \in 0 .. DramSize - 1 |-> 0]
  /\ clint \in {C!NewClint(now) : now \in session.times}
  /\ plic = ResetPlic
  /\ uart = T!NewUart
  /\ reply = [acc |-> [op |-> "none"]]

-----------------------------------------------------------------------------

MountDevice ==
  /\ dev_cnt_ < Len(Order)
  /\ dev_cnt_' = dev_cnt_ + 1
  /\ UNCHANGED <<session, devices, reply>>

Mounted(d) == \E i \in 1 .. dev_cnt_ : Order[i] = d

\* Mutant: an address just above a device still counts as the device's.
GetDeviceByRange_Inclusive(addr) ==
  LET found == {i \in 1 .. dev_cnt_ : /\ Layout[Order[i]].base <= addr
                                      /\ addr <= Layout[Order[i]].base + Layout[Order[i]].size}
  IN  IF found = {} THEN -1 ELSE CHOOSE i \in found : \A j \in found : i <= j

\* The first device whose range holds the first byte of the access.
GetDeviceByRange(addr) ==
  LET found == {i \in 1 .. dev_cnt_ : InNode(Order[i], addr)}
  IN  IF found = {} THEN -1 ELSE CHOOSE i \in found : \A j \in found : i <= j

Answer(acc, ok, data) ==
  reply' = [acc |-> acc, ok |-> ok, data |-> IF ok THEN data ELSE <<>>]

-----------------------------------------------------------------------------
(* Load and Store of each device: d is the device, at the offset in it.    *)

\* The bits that are 1 in a word of the interrupt controller.
BitsOf(x) == {i \in Bits : (x \div 2^i) % 2 = 1}

\* What the word x means in register r, and the bytes for what r holds.
FromWord(r, x) == IF r.reg \in {"pending", "enable"} THEN BitsOf(x) ELSE x

ToWord(r, val) ==
  IF r.reg \in {"pending", "enable"}
  THEN CHOOSE x \in 0 .. 2^kWordBits - 1 : BitsOf(x) = val
  ELSE val

\* The bits of status (kTxFifoEmpty, kRxFifoValidData) and of control.
UartBits ==
  [ status  |-> [TxFifoEmpty |-> 4, RxFifoValidData |-> 1],
    control |-> [RstTx |-> 1, RstRx |-> 2] ]

UartValue(w, b) ==
  IF w \in DOMAIN UartBits
  THEN {bit \in DOMAIN UartBits[w] : (b \div UartBits[w][bit]) % 2 = 1}
  ELSE b

UartLoadFrom(at, acc) ==
  LET a == [addr |-> at, bytes |-> acc.bytes]
  IN  /\ uart' = T!DoLoad(uart, a)
      /\ Answer(acc, T!InRange(a), T!LoadValue(uart, a))

UartStoreTo(at, acc) ==
  LET a   == [addr |-> at, bytes |-> acc.bytes]
      val == [w \in T!Covers(a) |-> UartValue(w, acc.buf[T!UartReg[w] - at])]
  IN  /\ uart' = T!DoStore(uart, a, val)
      /\ Answer(acc, T!InRange(a), <<>>)

LoadFrom(d, at, acc) ==
  \/ /\ d = "dram"
     /\ Answer(acc, at + acc.bytes <= DramSize, Slice(dram, at, acc.bytes))
     /\ UNCHANGED devices
  \/ /\ d = "clint"
     /\ Answer(acc, C!Mapped(at, acc.bytes), C!LoadValue(clint, at, acc.bytes))
     /\ UNCHANGED devices
  \/ /\ d = "plic"
     /\ LET r == RegisterAt(at)
        IN  /\ plic' = DoLoad(plic, r)
            /\ Answer(acc, Exists(r), ToBytes(ToWord(r, LoadValue(plic, r)), 4))
     /\ UNCHANGED <<dram, clint, uart>>
  \/ /\ d = "uart"
     /\ UartLoadFrom(at, acc)
     /\ UNCHANGED <<dram, clint, plic>>

StoreTo(d, at, acc) ==
  \/ /\ d = "dram"
     /\ dram' = IF at + acc.bytes <= DramSize THEN Patch(dram, at, acc.buf) ELSE dram
     /\ Answer(acc, at + acc.bytes <= DramSize, <<>>)
     /\ UNCHANGED <<clint, plic, uart>>
  \/ /\ d = "clint"
     /\ clint' = IF C!Mapped(at, acc.bytes)
                 THEN C!DoStore(clint, at, acc.buf, acc.bytes) ELSE clint
     /\ Answer(acc, C!Mapped(at, acc.bytes), <<>>)
     /\ UNCHANGED <<dram, plic, uart>>
  \/ /\ d = "plic"
     /\ LET r   == RegisterAt(at)
            val == FromWord(r, FromBytes(acc.buf, 4))
        IN  /\ plic' = DoStore(plic, r, val)
            /\ Answer(acc, Accepts(r, val), <<>>)
     /\ UNCHANGED <<dram, clint, uart>>
  \/ /\ d = "uart"
     /\ UartStoreTo(at, acc)
     /\ UNCHANGED <<dram, clint, plic>>

-----------------------------------------------------------------------------
(* The bus                                                                 *)

NoDevice(acc) ==
  /\ GetDeviceByRange(acc.addr) = -1
  /\ Answer(acc, FALSE, <<>>)
  /\ UNCHANGED devices

Load(acc) ==
  /\ acc.op = "load"
  /\ \/ NoDevice(acc)
     \/ \E i \in {GetDeviceByRange(acc.addr)} \ {-1} :
          LoadFrom(Order[i], acc.addr - Layout[Order[i]].base, acc)
  /\ UNCHANGED <<session, dev_cnt_>>

Store(acc) ==
  /\ acc.op = "store"
  /\ \/ NoDevice(acc)
     \/ \E i \in {GetDeviceByRange(acc.addr)} \ {-1} :
          StoreTo(Order[i], acc.addr - Layout[Order[i]].base, acc)
  /\ Len(uart'.tx) <= session.queue
  /\ UNCHANGED <<session, dev_cnt_>>

\* Each mounted device is reset; Clint::Reset reads the host's clock.
Reset(now) ==
  /\ dram' = IF Mounted("dram") THEN [i \in 0 .. DramSize - 1 |-> 0] ELSE dram
  /\ clint' = IF Mounted("clint") THEN C!NewClint(now) ELSE clint
  /\ plic' = IF Mounted("plic") THEN ResetPlic ELSE plic
  /\ uart' = IF Mounted("uart") THEN T!DoReset(uart) ELSE uart
  /\ UNCHANGED <<session, dev_cnt_, reply>>

-----------------------------------------------------------------------------
(* The calls that do not go through the bus                                *)

\* UpdateMtime, and Tick from one of the times of the session.
CallClint(now) ==
  /\ "clint" \in session.calls
  /\ \/ clint' = C!DoUpdateMtime(clint, now)
     \/ clint.mtime = ToBytes(now, 8) /\ clint' = C!DoTick(clint)
  /\ UNCHANGED <<session, dev_cnt_, dram, plic, uart, reply>>

CallPlic ==
  /\ "plic" \in session.calls
  /\ \/ \E src \in Sources \ {0}, fired \in BOOLEAN : plic' = DoUpdateExt(plic, src, fired)
     \/ \E c \in Contexts : plic' = DoGetInterrupt(plic, c)
  /\ UNCHANGED <<session, dev_cnt_, dram, clint, uart, reply>>

\* A key, and a character that main prints.
CallUart ==
  /\ "uart" \in session.calls
  /\ \/ Len(uart.rx) < session.queue /\ uart' = T!DoPutc(uart, 1)
     \/ T!TxBufferNotEmpty(uart) /\ uart' = T!DoGetc(uart)
  /\ UNCHANGED <<session, dev_cnt_, dram, clint, plic, reply>>

Next ==
  \/ MountDevice
  \/ \E acc \in session.accesses : Load(acc) \/ Store(acc)
  \/ \E now \in session.times : Reset(now) \/ CallClint(now)
  \/ CallPlic
  \/ CallUart

Spec == Init /\ [][Next]_vars

-----------------------------------------------------------------------------
(* The bus as a memory                                                     *)

\* The regions of a device, and where they are when it is mounted.
RegionsOf(d) ==
  CASE d = "dram"  -> {"dram"}
    [] d = "clint" -> DOMAIN C!Files
    [] OTHER       -> {}

Regions ==
  [r \in {"dram"} \cup DOMAIN C!Files |->
     IF r = "dram"
     THEN [base |-> Layout["dram"].base, size |-> DramSize]
     ELSE [base |-> Layout["clint"].base + C!Files[r].base, size |-> C!Files[r].size]]

Contents ==
  [r \in UNION {RegionsOf(Order[i]) : i \in 1 .. dev_cnt_} |->
     IF r = "dram" THEN dram ELSE clint[r]]

\* The accesses that are not to memory.
Others == {acc \in Accesses : InNode("plic", acc.addr) \/ InNode("uart", acc.addr)}

Memory == INSTANCE ByteMemory
  WITH mem       <- Contents,
       Elsewhere <- Others,
       Volatile  <- {"mtime"},
       Flags     <- {"msip"}

-----------------------------------------------------------------------------
(* Properties                                                              *)

\* Every device holds values of its types, whatever is stored where: each
\* word of msip is 0 or 1 after a store of any width at any offset.
BusTypeOK ==
  /\ dev_cnt_ \in 0 .. Len(Order)
  /\ dram \in [0 .. DramSize - 1 -> Byte]
  /\ C!IsClint(clint)
  /\ PlicTypeOK
  /\ uart \in [ reg : [rx_fifo : Byte, tx_fifo : Byte,
                       status : SUBSET T!StatusBits, control : SUBSET T!ControlBits],
                rx : Seq(Byte), tx : Seq(Byte), wait_ack : BOOLEAN ]

\* To the guest the memory and the clock are bytes at addresses, although the
\* bus looks only at the first byte of an access: one that runs over the end
\* of a device, of its storage or of a register is refused and changes
\* nothing, and none reaches the bytes of a neighbour.
ImplementsByteMemory == Memory!Spec
=============================================================================
