-------------------------- MODULE FencedOwnership --------------------------
(***************************************************************************)
(* What the account coordinator promises its callers, without leases,      *)
(* clocks or tables: at most one owner at a time, every ownership under a  *)
(* fresh generation, effects that run alone under the current generation,  *)
(* and an ownership that lapsed is never given to anyone again.            *)
(***************************************************************************)
EXTENDS Integers

CONSTANTS Owner, NoOwner

VARIABLES
    generation,  \* generations granted so far
    owner,       \* owner of the current generation, or NoOwner
    lapsed,      \* the current ownership has lapsed
    running      \* generations with a running effect

absVars == <<generation, owner, lapsed, running>>

Init ==
    /\ generation = 0
    /\ owner = NoOwner
    /\ lapsed = FALSE
    /\ running = {}

Grant(o) ==
    /\ owner = NoOwner
    /\ running = {}
    /\ generation' = generation + 1
    /\ owner' = o
    /\ UNCHANGED <<lapsed, running>>

Surrender ==
    /\ owner # NoOwner
    /\ ~lapsed
    /\ running = {}
    /\ owner' = NoOwner
    /\ UNCHANGED <<generation, lapsed, running>>

Lapse ==
    /\ owner # NoOwner
    /\ running = {}
    /\ lapsed' = TRUE
    /\ UNCHANGED <<generation, owner, running>>

Begin ==
    /\ owner # NoOwner
    /\ ~lapsed
    /\ running = {}
    /\ running' = {generation}
    /\ UNCHANGED <<generation, owner, lapsed>>

End ==
    /\ running # {}
    /\ running' = {}
    /\ UNCHANGED <<generation, owner, lapsed>>

Next ==
    \/ \E o \in Owner : Grant(o)
    \/ Surrender
    \/ Lapse
    \/ Begin
    \/ End

Spec == Init /\ [][Next]_absVars
=============================================================================
