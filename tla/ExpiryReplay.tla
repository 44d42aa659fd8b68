---------------------------- MODULE ExpiryReplay ----------------------------
(***************************************************************************)
(* An order of an approved batch expires unsent and its capacity is        *)
(* released.  The release fact binds the digest of the attempt histories   *)
(* it was written from, not their position; every later transaction on the *)
(* reservation has to find those histories again among the prefixes that   *)
(* were causally possible (packages/persistence/reservation_lifecycle.py,  *)
(* _verify_approval_expired_unsent_release).  Events and releases carry    *)
(* the account observation watermark current when they were written, and   *)
(* events with the watermark of the release may lie before or after it.    *)
(*                                                                         *)
(* The digest of a snapshot is modelled by the snapshot itself, here by    *)
(* the length of the prefix of each attempt.                               *)
(***************************************************************************)
EXTENDS Integers, Sequences

CONSTANTS
    Order,         \* orders of the batch
    Target,        \* the order that may expire unsent
    MaxAttempts,   \* bound: attempts per order
    MaxWatermark   \* bound: batch decisions observed on the account

VARIABLES
    watermark,  \* account_observation_watermark
    events,     \* durable events of each attempt, each with its watermark
    release     \* the expiry release of Target

vars == <<watermark, events, release>>

Number == 1 .. MaxAttempts
Slot == Order \X Number
Event == [state : {"pending", "in_flight", "abandoned", "confirmed", "unknown"},
          marker : 1 .. MaxWatermark]
NoRelease == [marker |-> 0, snapshot |-> [s \in Slot |-> 0]]

(* reduce_submission_attempt: the state of the last event.                  *)
State(s) == IF events[s] = << >> THEN "none" ELSE events[s][Len(events[s])].state

(* An UNKNOWN attempt freezes the batch.                                    *)
UnknownExists == \E s \in Slot : State(s) = "unknown"

Init ==
    /\ watermark = 1
    /\ events = [s \in Slot |-> << >>]
    /\ release = NoRelease

(* Another batch decision is recorded on the account.                       *)
Decide ==
    /\ watermark < MaxWatermark
    /\ watermark' = watermark + 1
    /\ UNCHANGED <<events, release>>

(* Every event is written with the current watermark.                       *)
_append(s, state) ==
    /\ events' = [events EXCEPT ![s] = Append(@, [state |-> state, marker |-> watermark])]
    /\ UNCHANGED <<watermark, release>>

prepare(a, n) ==
    /\ ~UnknownExists
    /\ a = Target => release = NoRelease
    /\ State(<<a, n>>) = "none"
    /\ n > 1 => State(<<a, n - 1>>) = "abandoned"
    /\ _append(<<a, n>>, "pending")

mark_in_flight(s) ==
    /\ ~UnknownExists
    /\ State(s) = "pending"
    /\ _append(s, "in_flight")

recover_stale_pending(s) ==
    /\ State(s) = "pending"
    /\ _append(s, "abandoned")

(* confirm, mark_unknown and recover_stale_in_flight.                       *)
Outcome(s, state) ==
    /\ State(s) = "in_flight"
    /\ state \in {"confirmed", "unknown"}
    /\ _append(s, state)

(* expire_unsent: every attempt of the order is abandoned, no attempt of    *)
(* the batch is UNKNOWN.                                                    *)
expire_unsent ==
    /\ release = NoRelease
    /\ ~UnknownExists
    /\ \A n \in Number : State(<<Target, n>>) \in {"none", "abandoned"}
    /\ release' = [marker |-> watermark, snapshot |-> [s \in Slot |-> Len(events[s])]]
    /\ UNCHANGED <<watermark, events>>

Next ==
    \/ Decide
    \/ \E a \in Order, n \in Number : prepare(a, n)
    \/ \E s \in Slot : mark_in_flight(s)
    \/ \E s \in Slot : recover_stale_pending(s)
    \/ \E s \in Slot, state \in {"confirmed", "unknown"} : Outcome(s, state)
    \/ expire_unsent

Spec == Init /\ [][Next]_vars

-----------------------------------------------------------------------------
(* Mutation: an event with the watermark of the release lies after it.      *)
RelationStrict(marker) ==
    IF marker < release.marker THEN 0 ELSE 2

(* _event_visibility_relation: before (0), at (1) or after (2) the release. *)
_event_visibility_relation(marker) ==
    IF marker < release.marker THEN 0 ELSE IF marker > release.marker THEN 2 ELSE 1

Relation(s, i) == _event_visibility_relation(events[s][i].marker)

(* Events before the release precede those at it, and these those after it. *)
CausalPrefix(s) == \A i, j \in DOMAIN events[s] : i < j => Relation(s, i) <= Relation(s, j)

(* _causal_attempt_prefixes: how many events of an attempt the release may  *)
(* have seen; all that are before it and none that is after it.             *)
_causal_attempt_prefixes(s) ==
    {k \in 0 .. Len(events[s]) :
        /\ \A i \in 1 .. k : Relation(s, i) # 2
        /\ \A i \in k + 1 .. Len(events[s]) : Relation(s, i) # 0}

(* _verify_approval_expired_unsent_release: the snapshot is looked for      *)
(* among the candidates.  Two candidates never share a digest, so it is     *)
(* found exactly once or not at all; the expiry rule is replayed on it.     *)
SnapshotMatches ==
    /\ \A s \in Slot : CausalPrefix(s) /\ release.snapshot[s] \in _causal_attempt_prefixes(s)
    /\ \A n \in Number :
          LET k == release.snapshot[<<Target, n>>]
          IN  k > 0 => events[<<Target, n>>][k].state = "abandoned"

-----------------------------------------------------------------------------
(* Events, watermarks and the release have their types.                     *)
TypeOK ==
    /\ watermark \in 1 .. MaxWatermark
    /\ events \in [Slot -> Seq(Event)]
    /\ release \in [marker : 0 .. watermark, snapshot : [Slot -> 0 .. 3]]
    /\ \A s \in Slot : release.snapshot[s] <= Len(events[s]) /\ Len(events[s]) <= 3

(* The attempt histories an expiry release was written from are found      *)
(* again, in every later state, among the causally possible prefixes,       *)
(* whatever attempts of the other orders are prepared, sent, retried or     *)
(* settled and whatever decisions are taken on the account.                 *)
SnapshotIsFound == release # NoRelease => SnapshotMatches
=============================================================================
