------------------------------ MODULE MCTrap -------------------------------
(***************************************************************************)
(* The hart, its traps and its modes, for TLC: the sum of two instances of *)
(* Hart.  group, fixed at the start, says which instructions the hart runs *)
(* and with which lines a tick finds the devices (no lines: CPU::Tick() is *)
(* called, as by the unit tests).  Each group concentrates on some of the  *)
(* registers, so that their values combine freely.                         *)
(***************************************************************************)
EXTENDS MCHart

VARIABLE group

\* Delegation, vectors and the previous-mode fields.
TrapAccesses ==
  { Rs("mstatus", {"MIE", "MPP0"}), Rs("mstatus", {"MPP1"}),
    Rs("sstatus", {"SIE"}), Rw("medeleg", {"EcallU", "EcallS", "EcallM"}),
    Rw("mideleg", {"SEI"}), Rw("mie", Interrupts), Rw("stvec", 5) }

\* The checks that depend on the mode, and what lower modes may write.
ModeAccesses ==
  { Rs("mstatus", {"MPP0", "TVM"}), Rs("mstatus", {"MPP1", "TSR"}),
    Rw("sstatus", MstatusDesc), Rw("mstatus", {"MPRV"}),
    Rw("medeleg", Exceptions), Rw("sie", Interrupts), Rw("sip", Interrupts),
    Rw("mepc", 4), Rw("satp", {}), Rw("mhartid", {}), Rw("unlisted", {}),
    [csr |-> "mhartid", op |-> "read", val |-> {}] }

Groups ==
  [ trap |-> [ticks |-> SUBSET {"SEI"}, accesses |-> TrapAccesses,
              ops |-> {"ecall", "mret", "sret", "csr"}],
    mode |-> [ticks |-> {}, accesses |-> ModeAccesses,
              ops |-> {"illegal", "ebreak", "mret", "sret", "sfence", "fault", "jump", "csr"}] ]

AllAccesses == TrapAccesses \cup ModeAccesses

GroupInstructions ==
  [g \in DOMAIN Groups |->
     {i \in Instructions : /\ i.op \in Groups[g].ops
                           /\ i.op = "csr" => i.acc \in Groups[g].accesses}]

GroupInit == Init /\ group \in DOMAIN Groups

GroupTick ==
  \E i \in GroupInstructions[group] :
    \/ \E lines \in Groups[group].ticks : Tick(lines, i)
    \/ Groups[group].ticks = {} /\ TickNoUpdate(i)

GroupNext == (GroupTick \/ Reset) /\ UNCHANGED group

\* A hart of Hart whose instructions and lines are those of its group.
GroupSpec == GroupInit /\ [][GroupNext]_<<vars, group>>
=============================================================================
