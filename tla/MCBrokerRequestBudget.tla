----------------------- MODULE MCBrokerRequestBudget -----------------------
(***************************************************************************)
(* What lets a request out to a broker: the permits of the request budget  *)
(* (BrokerRequestBudget) and the signing authority of the E*TRADE session  *)
(* (EtradeSession).  The two share no state; a behaviour is a behaviour of *)
(* the one that "part" names.                                              *)
(*                                                                         *)
(* The budget is checked for two policies that may replace one another,    *)
(* the second with a shorter window and larger tiers, a third for another  *)
(* venue, and demands of three tiers, one of them made late; the session   *)
(* for two processes.                                                      *)
(***************************************************************************)
EXTENDS BrokerRequestBudget, TLC

CONSTANTS
    Slow, Quick, Live, k1, k2, k3, k4,
    p1, p2, c1, c2,
    Inactivity, Life, MaxFingerprints, MaxClock, MaxEvents, MaxShared

VARIABLES part, now, journal, stage, proposal, capability, sent

sessionVars == <<now, journal, stage, proposal, capability, sent>>

Symmetry == Permutations({k1, k2, k3}) \union Permutations({p1, p2}) \union Permutations({c1, c2})

Policies == (Slow  :> [window |-> 2, ttl |-> 1, venue |-> "paper", submission |-> 1, recovery |-> 2, total |-> 3])
         @@ (Quick :> [window |-> 1, ttl |-> 1, venue |-> "paper", submission |-> 1, recovery |-> 2, total |-> 4])
         @@ (Live  :> [window |-> 1, ttl |-> 1, venue |-> "live",  submission |-> 1, recovery |-> 2, total |-> 3])
Demands == [key : {k1, k2, k3}, purpose : {"submission", "unknown_lookup", "cancel"}, requested : {0}]
           \union {[key |-> k4, purpose |-> "reconciliation", requested |-> 3]}

Session == INSTANCE EtradeSession
           WITH Process <- {p1, p2}, Nonce <- {c1, c2}, MaxTime <- MaxClock

-----------------------------------------------------------------------------
MCInit ==
    /\ part \in {"budget", "session"}
    /\ Init
    /\ Session!Init

BudgetStep ==
    /\ part = "budget"
    /\ Next
    /\ UNCHANGED <<part, sessionVars>>

SessionStep ==
    /\ part = "session"
    /\ Session!Next
    /\ UNCHANGED <<part, vars>>

MCNext == BudgetStep \/ SessionStep

MCSpec == MCInit /\ [][MCNext]_<<part, vars, sessionVars>>

-----------------------------------------------------------------------------
(* EtradeSession: every event is the authentic successor of the event       *)
(* before it and carries the fingerprint of its own intent, so the journal  *)
(* the coordinator wrote replays; along it a generation keeps its consumer  *)
(* reference and a token seen expired or revoked is never active again.     *)
JournalAuthenticates ==
    part = "session" =>
        /\ Session!TypeOK
        /\ Session!JournalAuthenticates
        /\ Session!EvidenceIsConsumed
        /\ Session!TokenKeepsConsumer
        /\ Session!DeadStaysDead

(* EtradeSession: no signing fingerprint is let out twice, and each was     *)
(* durable before its request was let out.                                  *)
SignedOnce == part = "session" => Session!SignedOnce
=============================================================================
