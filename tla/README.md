# Verification of rv64_emulator

TLA+ models of the RISC-V system emulator in this repository, the TLC
configurations that check them on small instances, and proofs checked by TLAPS.
Paths such as `src/cpu/cpu.cc` are those of the repository.

## The system and its inventory

The program runs one hart. `main` (`src/rv64_emulator.cc`) loops for ever: it
updates the clock (CLINT), copies the interrupt line of the serial port (UART)
to the interrupt controller (PLIC), calls `CPU::Tick` with the four interrupt
lines, prints what the guest transmitted, and passes on a Ctrl-C. A second
thread reads the keyboard and pushes characters into the UART; a signal handler
asks for a Ctrl-C at a SIGINT, and exits at a second one within a second. A
tick samples the lines into `mip`, fetches through the MMU, decodes, executes,
takes the exception if any, then at most one interrupt. Loads and stores go
through the MMU and the bus to a device.

| Part | Source | State | Operations | Concurrency, persistence, time | Module |
| --- | --- | --- | --- | --- | --- |
| Hart | `src/cpu/cpu.cc`, `trap.cc`, `libs/utils.cc` | mode, pc, CSRs, wfi flag | Tick, TickOperate, HandleTrap, HandleInterrupt, Reset | main thread only; one tick is atomic | `Hart` |
| CSR file | `src/cpu/csr.cc` | 4096 registers, some of them views | Read, Write, Reset | none | `Csr` |
| Decoder | `src/cpu/decode.cc`, `include/cpu/decode.h` | none | token, fields, immediates | pure | `Decode` |
| Executor | `src/cpu/executor.cc` | registers, reservation | one function per instruction type | none | `Hart`, `Arithmetic`, `Executor`, `Amo` |
| MMU | `src/cpu/mmu.cc` | TLB of two entries, round-robin index | Fetch, Load, Store, FlushTlb, Reset | none; the TLB caches memory | `Sv39`, `Mmu`, `VirtualMemory` |
| Bus, DRAM | `src/device/bus.cc`, `dram.cc` | devices, bytes | MountDevice, Load, Store, Reset | none | `Bus`, `ByteMemory` |
| CLINT | `src/device/clint.cc` | mtime, mtimecmp, msip | Load, Store, UpdateMtime, Tick, Reset | host clock | `Clint` |
| PLIC | `src/device/plic.cc` | priorities, pending, per-context claim state | UpdateExt, GetInterrupt, Load, Store, Reset | main thread only | `Plic` |
| UART | `src/device/uart.cc` | registers, two queues, `wait_ack_` | Load, Store, Putc, Getc, Irq, Reset | two threads, a lock per queue | `Uart` |
| Main program | `src/rv64_emulator.cc` | `delay_cr`, `send_ctrl_c` | loop, input thread, signal handler | all three interleave | `Emulator`, `Drivers` |
| Arithmetic | `src/libs/arithmetic.cc`, `include/libs/arithmetic.h` | none | high products | pure | `Arithmetic`, `Alu` |
| JIT emitter | `src/jit/jit.cc` | code buffer, instruction count | EmitProlog, Emit, EmitEpilog | only its test uses it | `Jit`, `A64` |
| LRU cache | `include/libs/lru.hpp` | list, map, size | Get, Set, Reset | none; only its test uses it | `Lru` |
| ELF loading | `src/libs/utils.cc` | none | LoadElf, CheckSectionExist | file I/O | no |

Nothing is persisted. The hazards, with the line where each bites and the
properties that watch it, are listed in `PROJECT.json`.

## The modules

State is a record or a few variables named as in the code; a register made of
flags is the set of the flags that are 1. A handler that is called by others is
an operator from state to state with the handler's name (`HandleTrap`,
`DoLoad`); an action is a whole handler. Names of the form `Op_Change`, placed
before `Op`, are plausible errors; a property that none of them breaks would
say nothing about the code. Modules whose instances are several have a variable
(`session`, `program`, `group`) that is fixed at the start and says which one a
behaviour belongs to.

**Csr, Hart.** `Csr` has the registers that traps, interrupts and modes depend
on, `Read`, and `Write` with the masks and views of `State::Write`. `Hart` adds
the tick. Which instruction stands at `pc` is left open: each tick may run any
member of `Instructions` ("retire" stands for every instruction that changes
nothing modelled here, "fault" for every access that raises an exception).
`xcause` and `xtval` are written and never read by the emulator, and are left
out. `UnitTest` selects the build: with `-DUNIT_TEST` the access check of CSRs
and the alignment check of jumps are compiled in; without it only the list of
known CSRs is checked. `last` is a history variable.

**Sv39, VirtualMemory, Mmu.** `Sv39` is the walk and the permission checks as
functions of memory. `VirtualMemory` is the promise: it has no TLB, and keeps
for each address space and page the set of walk results (`may`) that held since
the last fence covering them; an access uses a current result or one of these.
`Mmu` is the code with its TLB, and implements it; `may` and `outcome` are
shared, and updated by the same operators. Page offsets are left out, so an
access that crosses a page is outside the model.

**Bytes, Clint, Plic, Uart.** Operators on one record each. `Bytes` has
little-endian numbers and memcpy; a byte takes `Base` values instead of 256, so
that numbers of eight bytes stay small while accesses keep their widths. `Uart`
keeps the tests of `Load` and `Store` that recognise a register by an inclusive
range. Each UART operation holds the lock of the queue it touches, and `reg_`
and `wait_ack_` belong to the main thread, so each operation is one step.
`Serial` gives the operators of `Uart` their prefix for the modules that have a
serial port.

**Bus, ByteMemory.** `Bus` has the devices mounted in order, the choice of the
device by the first byte, the `Load` and `Store` of each device, `Reset`, and the
calls that `main` makes past the bus. `ByteMemory` is the promise: bytes at
addresses in disjoint regions; an access lies wholly in one region or is refused
and changes nothing; mtime may change by itself, and only bit 0 of a word of
msip is kept. The mapping takes `mem` to the storage of DRAM and the three
register files of the CLINT; PLIC and UART, whose loads have side effects, are
elsewhere. A word of pending or enable is the set of its bits that are 1, bits of
no source included: they are stored and read back, and the arbitration does not
look at them.

**Emulator** composes UART, PLIC and CLINT with the main loop, the input thread
(`UartInput`), the signal handler (`SigintHangler`) and the host's clock. The
main thread is cut wherever another thread or a signal can be seen: the poll,
the tick, each drained character, the three steps of the Ctrl-C branch. The
guest is a set of device accesses its instructions may make. `send_ctrl_c` is a
plain `bool`; the loop calls functions the compiler cannot see through, so it
is read again in every iteration, and the model does so. `seen` is history.

**Drivers** replaces the free guest by an interrupt-driven serial driver in
S-mode and a timer in M-mode that interrupts it. They are external to the
repository and use the devices as `test/uart_test.cc`, `test/plic_test.cc` and
`test/clint_test.cc` do.

**Amo** has LR, SC and the AMOs with the reservation, and a guest (external): a
thread and the handler that interrupts it, both incrementing counters. The
handler executes an SC before it returns, as the Linux kernel does, because the
reservation survives traps, stores and AMOs of the same hart.

**Arithmetic, Alu.** `Arithmetic` has the arithmetic, the comparisons and the
branch conditions on registers of `Bits` bits and words of half as many; `Alu`
runs it on all operands. Signed overflow wraps and shift counts are taken modulo
the width: that is what the instructions do that compilers emit here, while C++
leaves both undefined. The bitwise operators are defined by the sets of bits
that are 1. A compiler that reasons from the undefinedness (for the
product compared with 0 in MULH) is not modelled.

**Decode, Executor, A64, Jit, Assembler.** `Decode` is the decoder: the table in
its order, and `DecodeInfo` with what its constructor leaves unwritten as an
arbitrary value. `Executor` has jumps, upper immediates, loads and stores. `Jit`
is the code emitter: an operator per kind of guest instruction gives the host
code that it appends. `A64` is the host that runs it (external: asmjit and the
processor), with registers of `Bits` bits, a stack of doublewords and a call that
overwrites every register a call may. `Assembler` (external) makes the
words of all instructions in the decoder's table, and knows which words are none.

**Lru** has list nodes with identities, because iterators survive splicing.

`MCHart`, `MCTrap`, `MCBus`, `MCEmulator`, `MCDrivers`, `MCMmu`, `MCAmo`, `MCAlu`
and `MCJit` hold the sets that the `.cfg` files give to constants.

## What the runs check

| Run | Properties | What they say |
| --- | --- | --- |
| `hart_irq` | NoDeliverableLeft, SoftwarePendingKept, StallUntilPending | between ticks a pending, enabled and unmasked interrupt waits only behind one of higher rank that the tick took, or behind a masked one (see below); no software-set pending bit is lost; a hart stalled in WFI wakes for an enabled interrupt, masked or not, and for nothing else |
| `hart_trap` | TypeOK, TrapThenReturnRestores, ExceptionContextSurvives, RisesOnlyThroughVector, LowerModesKeepMachineState | entry and return are inverse; exception and interrupt in one tick nest; the mode rises only at a vector; (UNIT_TEST build) lower modes cannot change machine-level state, pending bits included, through any view |
| `bus` | BusTypeOK, ScanIsBest, ImplementsByteMemory | memory and clock are bytes at addresses, whatever ends an access crosses; registers keep their types; the arbitration loop of the PLIC finds the first source of highest priority among those pending, enabled, unclaimed and not below the threshold |
| `emulator` | RxInOrder, TerminalCooked, CtrlCOncePerSignal, NoDoubleClaim, TimeMonotone | characters arrive once and in order, and the terminal shows what the guest sent, CR LF cooked, except after a store that stops short of a register (see below); at most one Ctrl-C per SIGINT; no interrupt is handed out again before its completion; mtime and the CSR time never show time going backwards |
| `drivers` | EveryKeyArrives, CtrlCFollows, AckReturns, NoSpuriousClaim, NeverEarly, DeadlineRings | the driver gets every key and Ctrl-C and finds its interrupt, and the transmit interrupt ends, although the timer interrupts it; a deadline set in two halves rings, and never early |
| `mmu` | TypeOK, TlbSound, ImplementsVirtualMemory | the TLB holds nothing older than the fence that covers it; the MMU implements `VirtualMemory` |
| `amo` | NoLostUpdate, ScPairs, IncrementsEnd | no increment is lost; an SC succeeds only after the LR it pairs with; increments end |
| `alu` | PortableIsHigh, MulhIsHigh, DivisionsAgree, WordsAreNarrowed, ImmediatesAgree, BranchesAgree, AmoWordsAgree | arithmetic against reference definitions for all operands |
| `jit` | TranslationCorrect, HostRestored, DecodesBack | a translated block does what the interpreter does, for operands that are apart; it gives stack and registers back, also when an access fails; every assembled word decodes to its instruction, but FENCE.TSO and PAUSE to FENCE |
| `lru` | GetReturnsLastSet, SetIsReadable | the cache never returns another key's value or an old one |

Two runs show where the code and what the repository says of it disagree:

- `alu_mulhsu`: MULHSU of a negative operand lacks the correction MULH has, and
  is one too small when the low half of the product is 0.
- `lru_size`: `Set` of a key that a full cache holds evicts another key.

The properties above hold of the code as it is, and name its peculiarities where
they have to:

- Below M-mode `HandleInterrupt` looks at the interrupt of highest rank only
  (`cpu.cc:161`). If that one is delegated and `sie` masks it, an undelegated
  supervisor interrupt of lower rank waits behind it, although the privileged
  architecture would take it. `NoDeliverableLeft` allows this case
  (`Shadowed`), the one in which a tick has already taken an interrupt of higher
  rank, and no other; both occur in `hart_irq`.
- `Uart::Store` takes a store that ends just below a register for a store to it
  (`uart.cc:57`, `61`): one to rx_fifo of four bytes sends the character
  that tx_fifo held, and one to status obeys the reset bits that control held.
  The history `seen.stray` names the buffer that such a store disturbed, until
  the guest resets it; `RxInOrder` and the second half of `TerminalCooked` speak
  of a buffer that is not disturbed. What the guest itself discards is counted
  by what it stores in control, not by what the port does with it.
- The PLIC lets a priority equal to the threshold through (`plic.cc:36`); the
  PLIC specification masks it. `ScanIsBest` states what the code does.
- The entry of FENCE stands before those of FENCE.TSO and PAUSE in the decoder's
  table and matches their words, so that these two entries are never found
  (`decode.h:403`). `DecodesBack` says so. The executor does nothing for any of
  the three.

Other disagreements need no run:

- A comment on `mstatus.tw` in `csr.cc` says "not supported but wfi impl as nop",
  while the executor stalls the hart when `tw` is set (`executor.cc:600`);
  `WfiExec` follows the executor.
- The code emitter translates some operands wrongly. `TranslationCorrect` leaves
  these out by its condition `Apart`, which so describes them: an immediate
  instruction or JALR with rd = rs1 (the immediate goes through rd,
  `jit.cc:336`), a remainder or MULHSU whose rd is also a source that is read
  later, gp or tp beside a1 or a2 (whose registers they borrow), a store with
  base a0, JAL and JALR with rd = x0 (0 is stored in pc), and an AUIPC whose sum
  does not fit 32 bits (`jit.cc:660`). `test/jit_test.cc` uses operands that are
  apart.
- A failing access does not leave its block: `epilog_tag_` is never given a label
  by the assembler, which refuses the branch (`jit.cc:1056`, `1159`).
  `TranslationCorrect` therefore speaks of blocks in which only the last
  instruction may trap, `HostRestored` of all. pc is written by jumps only, and
  an instruction that `Emit` refuses for want of an emitter is counted in
  instret, so pc and instret are compared where they are meant to be right.

## Bounds

- Hart: 4 or 8 addresses (the values of pc matter only modulo 4 and as what a
  trap saves); each run has the CSR writes of some groups of registers, so that
  their values combine freely; every disjunct of the executor occurs in some run.
- Bus: the devices of `main` in its order, with neighbours side by side and a
  hole after the memory's 12 bytes; two harts, so that one access covers the msip
  of both; accesses at and across each end. One session mounts the devices one
  after the other. Two PLIC sources and the unused source 0, as in `main`, and
  stores of pending and enable that set a bit of no source; three priorities
  give below, equal and above for a threshold.
- Emulator: five sessions. One transmits four characters (every pair and triple
  of CR, LF and another), by stores to tx_fifo and beside it; two receive keys among SIGINTs, up to three, so that
  one meets the window between push and clear with another pending; one drives
  the interrupt controller while a key holds the line up; in one the clock passes
  the end of its lower half while the guest reads and overwrites it.
- Drivers: two keys, two SIGINTs and two transmitted characters; and a key
  beside a timer whose deadlines pass the end of the clock's lower half, so that
  the mixture of an old and a new half matters.
- MMU: vpn fields of one bit, two TLB entries as in the code, and two
  programs: one address space with pages of 4 KiB and 2 MiB and a misaligned
  gigapage; two address spaces with gigapages and global mappings, one of which
  maps its own table.
- Amo: two counters, words, doublewords and a misaligned address, three
  increments and three traps: enough for a handler between LR and SC that
  itself uses LR and SC at the same or another counter.
- Alu: 4-bit registers and 2-bit words; all 4096 contents of two registers and a
  memory cell are reached.
- Jit: registers of 8 bits, so that accesses of 1 to 8 "bytes" exist. Every token
  on 49 pairs of values (signs, 0, overflow); three operands in every combination
  of places (zero, gp, tp, a0 to a2, a register that a call keeps and one it does
  not); blocks of two instructions with accesses that succeed and fail; every
  token of the decoder's table as a word, with immediates at the ends of their
  ranges and pieces.
- Lru: capacity 3, four keys, two values.

Deadlock is checked in every run; a program that has exited, and a block that
has returned, stutter by a step of their own.

## Fairness

`drivers` assumes weak fairness of the main thread, which the operating system
schedules; nothing is assumed of the keyboard, of signals or of the clock. `amo`
assumes that the hart keeps running and that a trap ends.

## Proofs

Each theorem holds for every value of the constants that the named assumptions
of its module allow; TLC evaluates these on every run. The prover knows nothing
of powers, so the equations of `Base^n` and `2^n` that a proof needs are among
the assumptions (`PowersOfBase`, `PowersOf2`), where TLC evaluates them too.

**HartProofs** (`HartAssumption`: some address space, either
build, any sets of lines, faults, jump targets and CSR accesses).

- `TypeCorrect`: `Spec => []TypeOK`. `TypeOK` is inductive; it carries the facts
  about delegation (no machine interrupt and no EcallM is delegated) that the
  other proofs use. One lemma per instruction, one for `Write`, one for each
  half of `HandleTrap`.
- `InterruptsDelivered`: `Spec => []NoDeliverableLeft`. It is not a consequence
  of the state before the tick: `HandleInterrupt` establishes it from every
  well-typed hart. If it takes nothing, all that is pending and enabled is masked, or
  the one of highest rank is and the others stand behind it
  (`FinalInterruptRank`); if it takes one, what is left has a lower rank, or the
  entry masks it, or it stands behind another that is masked.
- `ExceptionContext`: `Spec => ExceptionContextSurvives`. If the interrupt goes to
  the mode the exception went to, that mode's enable was just cleared, so it
  cannot be taken; if it goes to another, it writes other registers.
- `VectorOnly`, `PendingKept`, `MachineStateKept`, `StallEnds`: the action
  properties. `StepParts` cuts a tick into what the instruction did, the
  exception and the interrupt; a "tame" instruction raises no mode, keeps
  pending bits and, below M-mode, machine-level state and the machine's pending
  bits; `HandleTrap` has one lemma for each.
- `ReturnsRestore`: `Spec => []TrapThenReturnRestores`, by computing entry and
  return for either mode.

**MmuProofs** (`Sv39Assumption`, `MmuAssumption`; `PhysicalMemoryFits`: page tables point below the
range in which `ppn_2` is truncated).

- `MmuTypes`, `TlbAlwaysSound`, `MmuImplements`: types, `TlbSound`, and the
  refinement of `VirtualMemory`, for any memory, TLB size and program. The
  invariant `IInv` adds to the types and `TlbSound` that the entries in memory
  fit (`Fits`) and that the leaves of the current tables are in `may`
  (`Current`). A hit then uses a member of `may` by `TlbSound`; a miss uses a
  fresh walk, which `Current` puts there, and so keeps `TlbSound`.

**AmoProofs** (`AmoAssumption`).

- `NoneLost`, `ScIsPaired`, and the types (`AmoTypes`). The invariant `AInv` says that whoever
  runs and is about to execute an SC that would succeed read the counter's
  present value, with the last LR that was executed (`Fresh`). For the thread
  this is said only while it runs: the handler may break it, and restores it by
  the SC before its return, after which nothing is reserved.

**DeviceProofs** (`PlicAssumption`): what the operations of PLIC and UART keep,
cited by the two modules that follow.

- `ScanFindsBest`: `PlicTypeOK => ScanIsBest`, for any number of sources. The loop
  is a recursive function, so its invariant is proved by the least
  counterexample instead of induction.

**EmulatorProofs** (`EmulatorAssumption`: accesses have the widths of the
instruction set, values stored are those of the registers, the clock stays
below `Base^8`; `DriversAssumption`: so do the deadlines, and the S-mode context
exists).

- `OnceCtrlC`, `InOrder`, `ClaimedOnce`, for any keys, signals, accesses and
  clock. `InOrder` rests on what a store does to the queues (`StoreQueues`,
  `StoreAsAsked`): without a store that stops short of a register, it does what
  the guest asked for and nothing else. The invariant adds types, that the flag is up at the push, and that a
  source handed out to a context and not completed is in the context's
  `claimed_`, from where `Scan` cannot choose it (`HeldIsClaimed`): without it,
  `NoDoubleClaim` says nothing of the cached `claim`.
- `OutputCooked`: `Spec => []TerminalCooked`, for streams of any length. What is
  shown of a stream is a recursive function of it; one more character adds what
  the drain loop prints for it, and the invariant says that `delay_cr` is up
  exactly if the last character drained was a CR. That the drained stream is the
  one sent is `SentInOrder`, proved like `InOrder`.
- `TimeForward`: `Spec => TimeMonotone`. The invariant: the latest time read is not
  ahead of the host's clock, and in a tick mtime lies between the two, because
  the loop stores the clock in mtime first; a store of the guest to mtime is
  overwritten before the next load.
- `RingsInTime`: `DSpec => NeverEarly`. The deadline is in mtimecmp except while the
  handler sets its halves, when the timer's interrupt is masked; the bytes of a
  number give the number back.
- `FindsItsInterrupt`: `DSpec => NoSpuriousClaim`. While the handler waits to claim,
  the port holds its line up (a character is in the queue, or `wait_ack_` is
  set, and nothing but the handler's loads clears these), the loop carries the
  line to the controller before the tick, the source is enabled, has a priority
  above the threshold and is not claimed, and no other source is enabled.

**BusProofs** (`BusAssumption`: devices do not overlap, each range has room for
the device's storage, at most 4095 harts, priorities of up to 12 bits, widths
are 1, 2, 4 or 8, and 4 at the PLIC).

- `BusImplements`: `Spec => ImplementsByteMemory`, for any layout, size, number of
  harts and set of accesses. The invariant is the range of `dev_cnt_` and the
  types of the storage, words of msip masked. The argument: the device found is
  the only mounted one whose range holds the first byte, its regions lie in its
  range, so an access lies in a region of `ByteMemory` exactly if the device
  accepts it.
- `DevicesTyped`: `Spec => []BusTypeOK`, and from it, with `ScanFindsBest`,
  `BusScanIsBest`: `Spec => []ScanIsBest`.

**LruProofs** (`LruAssumption`: the capacity is not 0).

- `GetIsRight`: `Spec => []GetReturnsLastSet`; `SetIsSeen`: `Spec => SetIsReadable`;
  for any keys, values and capacity. The invariant says that the list is as long
  as the size counter says, that its nodes have different identities, and that
  the iterator of each key in the map is a node of the list with that key and
  the value last set. The converse does not hold: a key may have several nodes
  (see `lru_size`), of which the map has one, and the node that is reused may
  belong to the key that is being set. So the proof follows the map, and takes
  each kind of Set (a cached key, a new one, a reused node) by a lemma.

**AluProofs** (`AluAssumption`: registers of 4, 8, 16, 32 or 64 bits, immediates
that fit).

- `PortableRight`, `MulhRight`, `DivisionsRight`, `WordsNarrow`, `ImmediatesExtend`,
  `BranchesDecide`, `AmoWordsRight`: the seven properties of `alu`, for the widths
  of the program and all operands; TLC has 4-bit registers. The invariant is
  that registers and memory hold numbers of their width; each property follows
  from it. Most arguments are congruences: a register, the word in it and the
  signed numbers they stand for are equal modulo `2^Bits` or `2^Half`, and each
  conversion gives the only congruent number of its range. The two products are
  columns of digits to base `2^Half`, and the negation of a number of two digits.

Only model-checked:

- liveness (`EveryKeyArrives`, `CtrlCFollows`, `AckReturns`, `DeadlineRings`,
  `IncrementsEnd`), which is outside what the prover handles;
- the decoder and the code emitter (`TranslationCorrect`, `HostRestored`,
  `DecodesBack`): the host that runs the emitted code is a recursive operator.

## Not modelled

File loading (ELF, and the image that DRAM reads, which has to fit it: I/O);
`MountDevice` beyond the 16 devices its array has room for (`main` mounts four); `rv_analyzer` and the
unit tests; the hit, miss and instruction counters of the hart; accesses that
cross a page; accesses to the PLIC that are not words; CSRs that only hold a
value; `EmitMov` of the code emitter, which nothing calls; more than one hart
(`main` makes one). The hart is not composed with the devices: `Hart` takes its
lines as free inputs, `Emulator` and `Drivers` take the device access of each
tick, and the two meet in the lines of `CPU::Tick`.
