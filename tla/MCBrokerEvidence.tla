-------------------------- MODULE MCBrokerEvidence --------------------------
(* Two workers recover one attempt; the clock of the second is ahead.       *)
EXTENDS BrokerEvidence

CONSTANTS w1, w2, a1

TwoWorkers == {w1, w2}
SameAttempt == [w \in TwoWorkers |-> a1]
SecondAhead == [w \in TwoWorkers |-> IF w = w1 THEN 0 ELSE 1]
=============================================================================
