------------------------- MODULE MCUnknownRecovery -------------------------
(* The schedule's first offsets and the claim lifetime of the code, with a  *)
(* horizon that drops the last slot.                                        *)
EXTENDS UnknownRecovery

FirstOffsets == <<1, 2, 4, 8>>
=============================================================================
