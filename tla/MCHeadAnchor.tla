---------------------------- MODULE MCHeadAnchor ----------------------------
(* Two processes, each a supervisor's worker or an operator.                *)
EXTENDS HeadAnchor

CONSTANTS p1, p2

TwoProcesses == {p1, p2}
=============================================================================
