------------------------ MODULE MCStrategyInvocation ------------------------
(* One invocation, two callers that may hold the account in turn.           *)
EXTENDS StrategyInvocation

CONSTANTS s1, s2, i1

TwoSupervisors == {s1, s2}
OneInvocation == {i1}
=============================================================================
