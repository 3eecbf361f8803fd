------------------------------- MODULE MCAlu -------------------------------
(* Alu for TLC: immediates of both signs that give every shift count.      *)
EXTENDS Alu

MCImms == {-3, -1, 0, 2}
=============================================================================
