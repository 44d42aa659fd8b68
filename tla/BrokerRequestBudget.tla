------------------------ MODULE BrokerRequestBudget ------------------------
(***************************************************************************)
(* The request budget of one broker account: immutable permits issued from *)
(* a conservative rolling window                                           *)
(* (packages/persistence/broker_request_budget.py,                         *)
(* packages/domain/broker_request_budget.py).                              *)
(*                                                                         *)
(* Allocation is one transaction under the account lock, so an issue is    *)
(* one action.  It samples the trusted clock itself; the reading is        *)
(* arbitrary here, since a clock that steps back is one of the cases the   *)
(* code refuses.  A permit is never refunded and may be used at any fresh  *)
(* instant, by as many processes as learnt of it.  An exact retry of       *)
(* issue() returns the stored permit and, like issue_new() and changed     *)
(* content under one key, writes nothing.                                  *)
(***************************************************************************)
EXTENDS Integers, Sequences, FiniteSets, SequencesExt

CONSTANTS
    PolicyId,   \* digests of the policies callers may present
    Policy,     \* their content
    Demand,     \* demands callers may present: key, purpose, requested_at
    MaxTime     \* bound: clock readings

Purpose == {"submission", "unknown_lookup", "cancel", "reconciliation"}
PolicyContent == [window : Nat \ {0}, ttl : Nat \ {0}, venue : {"paper", "live"},
                  submission : Nat \ {0}, recovery : Nat \ {0}, total : Nat \ {0}]

(* BrokerRequestBudgetPolicy.__post_init__                                  *)
ASSUME PolicyAssumption ==
    /\ MaxTime \in Nat
    /\ Policy \in [PolicyId -> PolicyContent]
    /\ \A p \in PolicyId : /\ Policy[p].ttl <= Policy[p].window
                           /\ Policy[p].submission < Policy[p].recovery
                           /\ Policy[p].recovery < Policy[p].total
ASSUME DemandAssumption == \A d \in Demand : d.purpose \in Purpose /\ d.requested \in Nat

VARIABLES
    permits,   \* permit rows of the account, by sequence number
    head       \* head row: the last sequence number and its issue time

vars == <<permits, head>>

Instant == 0..MaxTime
Permit == [demand : Demand, policy : PolicyId, issued : Instant, expires : Nat, count : Nat \ {0}]
NoHead == [sequence |-> 0, issued |-> 0]

-----------------------------------------------------------------------------
(* capacity_for: the ceiling on all active permits that a purpose respects. *)
CapacityFor(p, purpose) ==
    CASE purpose = "submission" -> Policy[p].submission
      [] purpose = "unknown_lookup" -> Policy[p].recovery
      [] OTHER -> Policy[p].total

Fresh(permit, t) == permit.issued <= t /\ t < permit.expires

(* Mutation: the old window is taken to drain when its last permit expires. *)
DrainedAtExpiry(permit, t) == t > permit.expires

(* A policy may only be replaced after the old one's horizon.               *)
Drained(permit, t) == t > permit.expires + Policy[permit.policy].window

(* Mutation: the boundary instant no longer counts.                         *)
CountedStrictly(h, p, t) ==
    {i \in DOMAIN h : h[i].policy = p /\ h[i].issued > t - (Policy[p].window + Policy[p].ttl)}

(* _active_policy_records: the permits a new one of policy p counts.        *)
Counted(h, p, t) ==
    {i \in DOMAIN h : h[i].policy = p /\ h[i].issued >= t - (Policy[p].window + Policy[p].ttl)}

Active(h, p, t) ==
    IF h = << >> \/ Last(h).policy # p THEN {} ELSE Counted(h, p, t)

(* _validate_chain: what the domain demands of the history it is given.     *)
ChainValid(h, p, t) ==
    LET active == Active(h, p, t)
    IN  /\ \A i \in active : h[i].expires >= t - Policy[p].window /\ h[i].issued <= t
        /\ \A i \in active, j \in DOMAIN h : i <= j => j \in active
        /\ h # << >> =>
              IF Last(h).policy # p
              THEN Drained(Last(h), t) /\ Policy[Last(h).policy].venue = Policy[p].venue
              ELSE active = {} => Last(h).expires < t - Policy[p].window

-----------------------------------------------------------------------------
(* One pass over the chain: front[j] is where the window the pass keeps     *)
(* begins when it has dropped what permit j no longer counts.               *)
Passes(h, front, j) ==
    LET r == h[j]
        rotated == j > 1 /\ h[j - 1].policy # r.policy
        from == IF j = 1 \/ rotated THEN j ELSE front[j - 1]
        lower == r.issued - Policy[r.policy].window
    IN  /\ j > 1 => r.issued >= h[j - 1].issued
        /\ r.demand.requested <= r.issued
        /\ rotated => /\ Policy[r.policy].venue = Policy[h[j - 1].policy].venue
                      /\ Drained(h[j - 1], r.issued)
        /\ front[j] \in from..j
        /\ \A i \in from..(front[j] - 1) : h[i].expires < lower
        /\ front[j] < j => h[front[j]].expires >= lower
        /\ r.count = (j - front[j]) + 1
        /\ r.count <= CapacityFor(r.policy, r.demand.purpose)

(* _validate_account_record_stream: the whole chain passes.                 *)
Stream(h) == \E front \in [DOMAIN h -> DOMAIN h] : \A j \in DOMAIN h : Passes(h, front, j)

HeadOf(h) == IF h = << >> THEN NoHead ELSE [sequence |-> Len(h), issued |-> Last(h).issued]

(* _verified_history_records, and the start-up verification.                *)
Verifies == Stream(permits) /\ head = HeadOf(permits)

-----------------------------------------------------------------------------
Init == permits = << >> /\ head = NoHead

(* issue_broker_request_permit, immutable_broker_request_permit_values      *)
NewPermit(d, p, t) ==
    [demand |-> d, policy |-> p, issued |-> t, expires |-> t + Policy[p].ttl,
     count |-> Cardinality(Active(permits, p, t)) + 1]

(* _issue, for a demand whose key has no permit yet.                        *)
Issue(d, p, t) ==
    /\ \A i \in DOMAIN permits : permits[i].demand.key # d.key
    /\ t >= d.requested
    /\ permits # << >> =>
          /\ t >= Last(permits).issued
          /\ Last(permits).policy # p => Drained(Last(permits), t)
    /\ Cardinality(Active(permits, p, t)) <= Policy[p].total
    /\ Cardinality(Active(permits, p, t)) < CapacityFor(p, d.purpose)
    /\ ChainValid(permits, p, t)
    /\ Verifies
    /\ permits' = Append(permits, NewPermit(d, p, t))
    /\ head' = [sequence |-> Len(permits) + 1, issued |-> t]

Next == \E d \in Demand, p \in PolicyId, t \in Instant : Issue(d, p, t)
Spec == Init /\ [][Next]_vars

-----------------------------------------------------------------------------
(* Every permit, with the counts it recorded, has its type.                 *)
TypeOK ==
    /\ permits \in Seq(Permit)
    /\ head \in [sequence : Nat, issued : Instant]

(* What issue() writes always passes the authentication every later issue,  *)
(* load, freshness check and start-up runs first, although the count was    *)
(* taken by an SQL range and is compared with a window kept by the replay,  *)
(* also when policies alternate.                                            *)
HistoryVerifies == Verifies

(* The permits that can be used at some instant of [s, s + w].              *)
UsableWithin(s, w) ==
    {i \in DOMAIN permits : \E t \in s..(s + w) : Fresh(permits[i], t)}

(* The provider never sees more than the total of a policy in any window of *)
(* its length that begins while a permit of that policy can be used, however*)
(* late within their lifetimes permits are used, and whatever policy        *)
(* replaces it meanwhile (ADR 0041, decisions 4 and 8).                     *)
BudgetHolds ==
    \A i \in DOMAIN permits : \A s \in permits[i].issued..(permits[i].expires - 1) :
        Cardinality(UsableWithin(s, Policy[permits[i].policy].window))
            <= Policy[permits[i].policy].total

(* Lower tiers never eat into the reserve of the higher ones: of the        *)
(* permits that count at any later instant, submissions stay within their   *)
(* capacity, and submissions and lookups together within the recovery one.  *)
ReserveIsProtected ==
    \A p \in PolicyId, t \in head.issued..MaxTime :
        LET of(purposes) == {i \in Active(permits, p, t) : permits[i].demand.purpose \in purposes}
        IN  /\ Cardinality(of({"submission"})) <= Policy[p].submission
            /\ Cardinality(of({"submission", "unknown_lookup"})) <= Policy[p].recovery

(* Both limits of a policy hold: its total, and what it reserves.           *)
LimitsHold == BudgetHolds /\ ReserveIsProtected

(* The history the repository selects is always the complete suffix the     *)
(* domain demands, so while the policy stays and the clock does not step    *)
(* back, only an exhausted capacity can refuse a demand.                    *)
SelectionIsComplete ==
    permits # << >> =>
        \A t \in Last(permits).issued..MaxTime :
            /\ ChainValid(permits, Last(permits).policy, t)
            /\ Cardinality(Active(permits, Last(permits).policy, t))
                   <= Policy[Last(permits).policy].total

(* A demand is never refused for what issue() itself has written: the chain *)
(* authenticates and the selected history is complete.                      *)
OnlyCapacityRefuses == HistoryVerifies /\ SelectionIsComplete
=============================================================================
