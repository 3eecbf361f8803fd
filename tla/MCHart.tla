------------------------------ MODULE MCHart -------------------------------
(***************************************************************************)
(* The hart and its interrupts, for TLC.                                   *)
(***************************************************************************)
EXTENDS Hart

Rw(csr, val) == [csr |-> csr, op |-> "rw", val |-> val]
Rs(csr, val) == [csr |-> csr, op |-> "rs", val |-> val]
Rc(csr, val) == [csr |-> csr, op |-> "rc", val |-> val]

\* Enabling, delegating and raising interrupts; the return to S and U.
IrqAccesses ==
  { Rs("mstatus", {"MIE", "TW"}), Rs("mstatus", {"MPP0"}),
    Rs("sstatus", {"SIE"}), Rw("mie", Interrupts),
    Rw("mideleg", {"SEI", "SSI"}),
    Rs("mip", {"STI"}), Rs("sip", {"SSI"}), Rc("sip", {"SSI"}) }
=============================================================================
