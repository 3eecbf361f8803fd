-------------------------------- MODULE Csr --------------------------------
(***************************************************************************)
(* The control and status registers that steer traps (src/cpu/csr.cc,      *)
(* include/cpu/csr.h, include/cpu/trap.h).  A register of flags is the set *)
(* of the names of its bits that are 1, so that the masks of State::Read   *)
(* and State::Write are intersections.  Registers that the emulator only   *)
(* stores for the guest (xcause, xtval, xscratch, minstret, ...) carry no  *)
(* control and are left out; satp appears only through the access check.   *)
(* The operators act on a hart record h, declared in module Hart.          *)
(***************************************************************************)
EXTENDS Integers

\* PrivilegeMode
U == 0
S == 1
Reserved == 2
M == 3

\* TrapType, without kNone; user-level interrupts are never generated.
SupervisorIrqs == {"SSI", "STI", "SEI"}
MachineIrqs == {"MSI", "MTI", "MEI"}
Interrupts == SupervisorIrqs \cup MachineIrqs

Exceptions ==
  { "InstructionAddressMisaligned", "InstructionAccessFault",
    "IllegalInstruction", "Breakpoint",
    "LoadAddressMisaligned", "LoadAccessFault",
    "StoreAddressMisaligned", "StoreAccessFault",
    "EcallU", "EcallS", "EcallM",
    "InstructionPageFault", "LoadPageFault", "StorePageFault" }

None == "None"

kTrapToCauseTable ==
  [ InstructionAddressMisaligned |-> 0, InstructionAccessFault |-> 1,
    IllegalInstruction |-> 2, Breakpoint |-> 3,
    LoadAddressMisaligned |-> 4, LoadAccessFault |-> 5,
    StoreAddressMisaligned |-> 6, StoreAccessFault |-> 7,
    EcallU |-> 8, EcallS |-> 9, EcallM |-> 11,
    InstructionPageFault |-> 12, LoadPageFault |-> 13, StorePageFault |-> 15,
    SSI |-> 1, MSI |-> 3, STI |-> 5, MTI |-> 7, SEI |-> 9, MEI |-> 11 ]

\* The writable fields of mstatus; mpp has two bits.  The remaining fields
\* (ube, vs, fs, xs, uxl, sxl, sd) are constant.
MstatusDesc ==
  { "SIE", "MIE", "SPIE", "MPIE", "SPP", "MPP0", "MPP1", "MPRV",
    "SUM", "MXR", "TVM", "TW", "TSR" }
SstatusDesc == {"SIE", "SPIE", "SPP", "SUM", "MXR"}

kCsrMInterruptMask == Interrupts
kCsrSInterruptMask == SupervisorIrqs

\* Mutant: 0xffff, so that the machine's own ecall can be delegated.
kCsrSExceptionMask_All == Exceptions

kCsrSExceptionMask == Exceptions \ {"EcallM"}

\* Assignment to a one-bit field of a status register.
SetBit(reg, bit, on) == IF on THEN reg \cup {bit} ELSE reg \ {bit}

\* The two-bit field mpp, as a number.
Mpp(ms) == (IF "MPP0" \in ms THEN 1 ELSE 0) + (IF "MPP1" \in ms THEN 2 ELSE 0)
SetMpp(ms, mode) == SetBit(SetBit(ms, "MPP0", mode % 2 = 1), "MPP1", mode >= 2)

-----------------------------------------------------------------------------

\* The registers that the model keeps, and the mode encoded in bits 9:8 of
\* each one's address.  "mhartid" stands for the read-only machine registers
\* (bits 11:10 set), "unlisted" for a machine CSR outside kAllowedCsrs.
FlagCsrs == { "mstatus", "sstatus", "mie", "sie", "mip", "sip",
              "mideleg", "medeleg" }
AddressCsrs == {"mepc", "sepc", "mtvec", "stvec"}
CsrNames == FlagCsrs \cup AddressCsrs \cup {"satp", "mhartid", "unlisted"}
ReadOnlyCsrs == {"mhartid"}

CsrMode(csr) ==
  IF csr \in {"sstatus", "sie", "sip", "sepc", "stvec", "satp"} THEN S
  ELSE M

\* State::Read.
Read(h, csr) ==
  CASE csr = "mstatus" -> h.ms
    [] csr = "sstatus" -> h.ms \cap SstatusDesc
    [] csr = "mie"     -> h.mie
    [] csr = "mip"     -> h.mip
    [] csr = "sie"     -> h.mie \cap kCsrSInterruptMask
    [] csr = "sip"     -> h.mip \cap kCsrSInterruptMask
    [] csr = "mideleg" -> h.mideleg
    [] csr = "medeleg" -> h.medeleg
    [] OTHER           -> {}

\* Mutant: the old value keeps its bits, the new one is not masked.
Merge_Unmasked(old, new, mask) == (old \ mask) \cup new

\* A write through a view: only the bits of the mask change.
Merge(old, new, mask) == (old \ mask) \cup (new \cap mask)

\* State::Write.  Other registers have no field of h.
Write(h, csr, val) ==
  CASE csr = "mstatus" -> [h EXCEPT !.ms = val \cap MstatusDesc]
    [] csr = "sstatus" -> [h EXCEPT !.ms = Merge(@, val, SstatusDesc)]
    [] csr = "mie"     -> [h EXCEPT !.mie = val \cap kCsrMInterruptMask]
    [] csr = "mip"     -> [h EXCEPT !.mip = val \cap kCsrMInterruptMask]
    [] csr = "sie"     -> [h EXCEPT !.mie = Merge(@, val, kCsrSInterruptMask)]
    [] csr = "sip"     -> [h EXCEPT !.mip = Merge(@, val, kCsrSInterruptMask)]
    [] csr = "mideleg" -> [h EXCEPT !.mideleg = val \cap kCsrSInterruptMask]
    [] csr = "medeleg" -> [h EXCEPT !.medeleg = val \cap kCsrSExceptionMask]
    [] csr = "mepc"    -> [h EXCEPT !.mepc = val]
    [] csr = "sepc"    -> [h EXCEPT !.sepc = val]
    [] csr = "mtvec"   -> [h EXCEPT !.mtvec = val]
    [] csr = "stvec"   -> [h EXCEPT !.stvec = val]
    [] OTHER           -> h
=============================================================================
