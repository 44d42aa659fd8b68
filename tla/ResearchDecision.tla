--------------------------- MODULE ResearchDecision ---------------------------
(***************************************************************************)
(* What a durable research job promises to its owner (docs/proposals/      *)
(* wave3-jobs.md, "Cancellation, recovery and publication ordering"): one  *)
(* terminal decision, which never changes, and which is "cancelled" once   *)
(* the owner's cancellation was recorded first.  Attempts, leases, workers *)
(* and their crashes are not visible here.                                 *)
(***************************************************************************)
CONSTANT Job

VARIABLE decision

Init == decision = [j \in Job |-> "absent"]

Accept(j) ==
    /\ decision[j] = "absent"
    /\ decision' = [decision EXCEPT ![j] = "open"]

(* The owner cancels: at once while nothing runs, as an intent otherwise.   *)
Cancel(j) ==
    /\ decision[j] = "open"
    /\ decision' \in {[decision EXCEPT ![j] = "cancelling"], [decision EXCEPT ![j] = "cancelled"]}

Close(j) ==
    /\ decision[j] = "cancelling"
    /\ decision' = [decision EXCEPT ![j] = "cancelled"]

(* One transaction of a worker may close several exhausted jobs.            *)
Decide ==
    \E js \in SUBSET Job :
        decision' = [j \in Job |-> IF j \notin js THEN decision[j]
                                   ELSE IF decision[j] = "open" THEN "failed"
                                   ELSE IF decision[j] = "cancelling" THEN "cancelled"
                                   ELSE decision[j]]

Publish(j) ==
    /\ decision[j] = "open"
    /\ \E outcome \in {"completed", "incomplete"} : decision' = [decision EXCEPT ![j] = outcome]

Next == Decide \/ \E j \in Job : Accept(j) \/ Cancel(j) \/ Close(j) \/ Publish(j)

Spec == Init /\ [][Next]_decision
=============================================================================
