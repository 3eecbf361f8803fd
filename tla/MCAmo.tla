-------------------------------- MODULE MCAmo --------------------------------
(* Attempts for Amo: words, a doubleword, and one that is misaligned.      *)
EXTENDS Amo

Mixed == {<<0, 4>>, <<0, 8>>, <<8, 4>>, <<4, 8>>}
=============================================================================
