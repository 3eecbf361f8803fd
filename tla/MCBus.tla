------------------------------- MODULE MCBus -------------------------------
(* The devices of main in its order, side by side; accesses at the ends of  *)
(* devices, of their storage and of their registers.                        *)
EXTENDS Bus

MCOrder == <<"clint", "plic", "uart", "dram">>

\* mtime is followed by the memory, the end of its storage by a hole, then
\* the controller and the serial port.
MCLayout ==
  [ clint |-> [base |-> 8, size |-> 49152],
    dram  |-> [base |-> 49160, size |-> 16],
    plic  |-> [base |-> 49176, size |-> 67108864],
    uart  |-> [base |-> 67158040, size |-> 4096] ]

Ld(d, at, n) == [op |-> "load", addr |-> Layout[d].base + at, bytes |-> n]
Wr(d, at, n, buf) ==
  [op |-> "store", addr |-> Layout[d].base + at, bytes |-> n, buf |-> buf]
Same(n, b) == [i \in 0 .. n - 1 |-> b]
Word(x) == ToBytes(x, 4)

\* The memory, its neighbours, and the hole after its storage.
DramAccesses ==
  { Ld("dram", 0, 2), Ld("dram", 8, 4), Ld("dram", 10, 4), Ld("dram", 12, 1),
    Ld("dram", 15, 2), Ld("clint", 49148, 4), Ld("clint", -1, 1) }
  \cup { Wr("dram", 8, 4, Same(4, b)) : b \in {1, 2} }
  \cup { Wr("dram", 0, 1, Same(1, 3)), Wr("dram", 11, 1, Same(1, 2)),
         Wr("dram", 10, 4, Same(4, 1)), Wr("dram", 4, 8, [i \in 0 .. 7 |-> i]),
         Wr("dram", 15, 2, Same(2, 1)), Wr("clint", 49151, 2, Same(2, 1)) }

\* The clock: accesses to both harts' registers at once, and over the ends of
\* the three register files.
ClintAccesses ==
  { Ld("clint", 0, 8), Ld("clint", 2, 8), Ld("clint", 16384, 8),
    Ld("clint", 49144, 8), Ld("clint", 49148, 8),
    Wr("clint", 0, 8, Same(8, 7)), Wr("clint", 3, 2, Same(2, 7)),
    Wr("clint", 0, 1, Same(1, 2)), Wr("clint", 7, 2, Same(2, 1)),
    Wr("clint", 16382, 4, Same(4, 1)), Wr("clint", 16390, 4, Same(4, 1)),
    Wr("clint", 16398, 4, Same(4, 3)),
    Wr("clint", 49148, 4, Same(4, 1)), Wr("clint", 49148, 8, Same(8, 1)) }

\* The interrupt controller: its registers and the gaps between them.
PlicAccesses ==
  { Wr("plic", 4, 4, Word(1)), Wr("plic", 8, 4, Word(1)), Wr("plic", 8, 4, Word(2)),
    Wr("plic", 12, 4, Word(1)), Wr("plic", 4096, 4, Word(15)), Wr("plic", 4100, 4, Word(7)),
    Wr("plic", 8192, 4, Word(15)), Wr("plic", 8320, 4, Word(6)),
    Wr("plic", 2097152, 4, Word(2)), Wr("plic", 2097160, 4, Word(1)),
    Wr("plic", 2097156, 4, Word(2)), Wr("plic", 2097156, 4, Word(3)),
    Ld("plic", 2097156, 4), Ld("plic", 4096, 4), Ld("plic", 8192, 4), Ld("plic", 7, 4) }

UartAccesses ==
  { Ld("uart", 0, 4), Ld("uart", 4, 8), Ld("uart", 14, 4), Ld("uart", 4094, 4),
    Wr("uart", 4, 1, Same(1, 6)), Wr("uart", 3, 1, Same(1, 6)),
    Wr("uart", 12, 4, Word(1)), Wr("uart", 12, 4, Word(2)), Wr("uart", 8, 4, Word(5)),
    Wr("uart", 12, 8, Same(8, 1)) }

MCSessions ==
  { [mounted |-> 0, accesses |-> DramAccesses, times |-> {9}, calls |-> {}, queue |-> 0],
    [mounted |-> 4, accesses |-> ClintAccesses, times |-> {63}, calls |-> {"clint"},
     queue |-> 0],
    [mounted |-> 4, accesses |-> PlicAccesses, times |-> {0}, calls |-> {"plic"}, queue |-> 0],
    [mounted |-> 4, accesses |-> UartAccesses, times |-> {0}, calls |-> {"uart"}, queue |-> 2] }
=============================================================================
