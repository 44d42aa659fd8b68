--------------------------- MODULE MCCriticalAlert ---------------------------
(* Two workers on one incident.                                             *)
EXTENDS CriticalAlert

CONSTANTS w1, w2
=============================================================================
