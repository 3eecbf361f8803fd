------------------------------- MODULE Serial -------------------------------
(***************************************************************************)
(* The serial port under the name that the modules with the other devices  *)
(* give it, whose operations have the same names.                          *)
(***************************************************************************)

T == INSTANCE Uart
=============================================================================
