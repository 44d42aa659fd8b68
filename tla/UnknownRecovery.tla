--------------------------- MODULE UnknownRecovery ---------------------------
(***************************************************************************)
(* Investigating one submission whose outcome is UNKNOWN: the durable      *)
(* lookup schedule (packages/persistence/unknown_submission_recovery.py,   *)
(* packages/domain/unknown_submission_recovery.py) and the restartable     *)
(* pipeline that drives it                                                 *)
(* (packages/application/alpaca_paper_unknown_recovery_pipeline.py).       *)
(*                                                                         *)
(* A slot is dispatched before the broker is asked; the broker's answer is *)
(* made durable (a lookup receipt) before it is attached to the dispatch   *)
(* as an observation.  A worker may stop anywhere, another may run beside  *)
(* it, and the account's lease may be renewed or handed over meanwhile.    *)
(* Time is in seconds from the IN_FLIGHT event.  Lease expiry is left to   *)
(* module AccountCoordinator.                                              *)
(***************************************************************************)
EXTENDS Naturals, Sequences, FiniteSets, FiniteSetsExt, SequencesExt

CONSTANTS
    Worker,       \* processes running the pipeline
    Offsets,      \* UNKNOWN_SUBMISSION_RECOVERY_OFFSETS_SECONDS
    Horizon,      \* UNKNOWN_SUBMISSION_RECOVERY_HORIZON
    TTL,          \* of a claim, and of a request permit
    Delays,       \* when the UNKNOWN event may have been recorded
    MaxTime,      \* bound: clock
    MaxTroubles   \* bound: stopped workers, renewals and handovers of the lease

ASSUME ScheduleAssumption ==
    /\ Offsets \in Seq(Nat)
    /\ {Horizon, TTL, MaxTime, MaxTroubles} \union Delays \subseteq Nat
    /\ TTL > 0

VARIABLES
    now,       \* trusted clock
    recorded,  \* recorded_at of the UNKNOWN event
    lease,     \* the account's lease: generation and revision
    troubles,    \* troubles so far
    events,    \* schedule events: dispatches, observations, exhaustion
    head,      \* head row of the schedule
    lookups,   \* durable lookup receipts, by slot
    sent,      \* how often each slot's request was handed to the transport
    fence,     \* generation each worker holds
    pc,        \* where each worker is
    todo,      \* dispatches a worker has yet to repair
    job        \* the dispatch, and the request, a worker is executing

schedule == <<events, head>>
worker == <<fence, pc, todo, job>>
vars == <<now, recorded, lease, troubles, schedule, lookups, sent, worker>>

Outcome == {"not_visible", "matched", "mismatch"}
NoReceipt == [requested |-> 0, generation |-> 0, pre |-> 0, post |-> 0, outcome |-> "none"]
NoJob == [dispatch |-> 0, requested |-> 0, generation |-> 0, pre |-> 0]

-----------------------------------------------------------------------------
Scheduled(k) == recorded + Offsets[k]

(* The plan: slots at or after the deadline are dropped.                    *)
Slots == {k \in DOMAIN Offsets : Scheduled(k) < Horizon}
Due(t) == {k \in Slots : Scheduled(k) <= t}

(* Mutation: the oldest due slot that was missed is caught up with first.   *)
EvaluationOldest(t, consumed) ==
    LET missed == Due(t) \ consumed
    IN  [outcome |-> IF t >= Horizon THEN "exhausted" ELSE IF missed = {} THEN "waiting" ELSE "due",
         slot |-> IF t >= Horizon \/ missed = {} THEN 0 ELSE Min(missed),
         coalesced |-> IF t >= Horizon THEN Slots \ consumed ELSE {}]

(* evaluate_unknown_submission_recovery                                     *)
Evaluation(t, consumed) ==
    LET due == Due(t)
        expired == t >= Horizon
        selected == ~expired /\ due # {} /\ Max(due) \notin consumed
    IN  [outcome |-> IF expired THEN "exhausted" ELSE IF selected THEN "due" ELSE "waiting",
         slot |-> IF selected THEN Max(due) ELSE 0,
         coalesced |-> IF expired THEN Slots \ consumed
                       ELSE {k \in due : k < Max(due)} \ consumed]

-----------------------------------------------------------------------------
(* The schedule's history.                                                  *)
Dispatches(h) == {i \in DOMAIN h : h[i].kind = "dispatch"}
Observations(h) == {i \in DOMAIN h : h[i].kind = "observation"}
Observed(h) == {h[i].source : i \in Observations(h)}
Consumed(h) == IF h = << >> THEN {} ELSE Last(h).consumed

(* Mutation: an answer after the deadline reopens the schedule.             *)
AfterLateObservation(status, outcome) ==
    IF outcome = "mismatch" THEN "blocked_mismatch"
    ELSE IF outcome = "matched" /\ status # "blocked_mismatch" THEN "reconciliation_required"
    ELSE status

(* _issuance_status_after_observation                                       *)
AfterObservation(status, outcome) ==
    IF status = "exhausted" THEN status
    ELSE IF outcome = "mismatch" THEN "blocked_mismatch"
    ELSE IF outcome = "matched" /\ status # "blocked_mismatch" THEN "reconciliation_required"
    ELSE status

StatusAfter(status, e) ==
    IF e.kind = "dispatch" THEN status
    ELSE IF e.kind = "exhausted" THEN "exhausted" ELSE AfterObservation(status, e.outcome)
Status(h) == FoldLeft(StatusAfter, "active", h)

ActiveAt(e, t) == e.at <= t /\ t < e.until

(* active_claim_at                                                          *)
ActiveClaims(h, t) == {i \in Dispatches(h) \ Observed(h) : ActiveAt(h[i], t)}

(* _authenticate_observation                                                *)
Authenticates(e, receipt) ==
    /\ ActiveAt(e, receipt.requested)
    /\ receipt.generation = e.generation
    /\ receipt.pre = e.revision
    /\ receipt.post = e.revision

(* _history: every event reproduces the decision it records.                *)
Reproduces(h, i) ==
    LET e == h[i]
        prior == SubSeq(h, 1, i - 1)
        evaluation == Evaluation(e.at, Consumed(prior))
    IN  /\ prior # << >> => e.at >= Last(prior).at
        /\ e.kind = "dispatch" =>
              /\ Status(prior) = "active"
              /\ evaluation.outcome = "due"
              /\ e.slot = evaluation.slot
              /\ e.coalesced = evaluation.coalesced
              /\ e.consumed = Consumed(prior) \union e.coalesced \union {e.slot}
              /\ e.until = Min({e.at + TTL, Horizon})
              /\ \A j \in Dispatches(prior) \ Observed(prior) : ~ActiveAt(h[j], e.at)
        /\ e.kind = "exhausted" =>
              /\ Status(prior) = "active"
              /\ evaluation.outcome = "exhausted"
              /\ e.coalesced = evaluation.coalesced
              /\ e.consumed = Consumed(prior) \union e.coalesced
        /\ e.kind = "observation" =>
              /\ e.consumed = Consumed(prior) /\ e.coalesced = {}
              /\ e.source \in Dispatches(prior) \ Observed(prior)
              /\ lookups[h[e.source].slot].outcome = e.outcome
              /\ Authenticates(h[e.source], lookups[h[e.source].slot])

HeadOf(h) == [count |-> Len(h), consumed |-> Consumed(h), status |-> Status(h)]
Verifies == (\A i \in DOMAIN events : Reproduces(events, i)) /\ head = HeadOf(events)

-----------------------------------------------------------------------------
Init ==
    /\ recorded \in Delays
    /\ now = recorded
    /\ lease = [generation |-> 1, revision |-> 1]
    /\ troubles = 0
    /\ events = << >>
    /\ head = HeadOf(<< >>)
    /\ lookups = [k \in DOMAIN Offsets |-> NoReceipt]
    /\ sent = [k \in DOMAIN Offsets |-> 0]
    /\ fence = [w \in Worker |-> 1]
    /\ pc = [w \in Worker |-> "idle"]
    /\ todo = [w \in Worker |-> {}]
    /\ job = [w \in Worker |-> NoJob]

Tick ==
    /\ now < MaxTime
    /\ now' = now + 1
    /\ UNCHANGED <<recorded, lease, troubles, schedule, lookups, sent, worker>>

(* The owner's heartbeat.                                                   *)
Renew ==
    /\ troubles < MaxTroubles
    /\ troubles' = troubles + 1
    /\ lease' = [lease EXCEPT !.revision = @ + 1]
    /\ UNCHANGED <<now, recorded, schedule, lookups, sent, worker>>

(* The lease is released and acquired again; a worker in the middle of a    *)
(* run is left with the old fence.                                          *)
Handover ==
    /\ troubles < MaxTroubles
    /\ troubles' = troubles + 1
    /\ lease' = [generation |-> lease.generation + 1, revision |-> 1]
    /\ UNCHANGED <<now, recorded, schedule, lookups, sent, worker>>

(* Worker w stops; its successor starts another run.                        *)
Crash(w) ==
    /\ troubles < MaxTroubles
    /\ pc[w] # "idle"
    /\ troubles' = troubles + 1
    /\ pc' = [pc EXCEPT ![w] = "idle"]
    /\ todo' = [todo EXCEPT ![w] = {}]
    /\ job' = [job EXCEPT ![w] = NoJob]
    /\ UNCHANGED <<now, recorded, lease, schedule, lookups, sent, fence>>

-----------------------------------------------------------------------------
Fenced(w) == fence[w] = lease.generation

Goto(w, label) == pc' = [pc EXCEPT ![w] = label]
Raise(w) ==
    /\ Goto(w, "idle")
    /\ todo' = [todo EXCEPT ![w] = {}]
    /\ job' = [job EXCEPT ![w] = NoJob]

(* Mutation: the head keeps the status it had.                              *)
AppendKeepingStatus(e) ==
    /\ events' = Append(events, e)
    /\ head' = [HeadOf(events') EXCEPT !.status = head.status]

(* _append_event                                                            *)
_append_event(e) ==
    /\ events' = Append(events, e)
    /\ head' = HeadOf(events')

(* load_progress, at the start of a run and after its schedule step.  A run *)
(* keeps the fence it was started with.                                     *)
load_progress(w) ==
    /\ pc[w] \in {"idle", "stepped"}
    /\ Verifies
    /\ Goto(w, IF pc[w] = "idle" THEN "prefix" ELSE "final")
    /\ todo' = [todo EXCEPT ![w] = Dispatches(events) \ Observed(events)]
    /\ fence' = [fence EXCEPT ![w] = IF pc[w] = "idle" THEN lease.generation ELSE @]
    /\ UNCHANGED <<now, recorded, lease, troubles, schedule, lookups, sent, job>>

(* record_observation: a second recording of the same receipt changes       *)
(* nothing; whether it raises, and what it appends.                         *)
Recordable(w, i) ==
    /\ Fenced(w)
    /\ Verifies
    /\ i \in Observed(events) \/ Authenticates(events[i], lookups[events[i].slot])

record_observation(i) ==
    IF i \in Observed(events)
    THEN UNCHANGED schedule
    ELSE _append_event([kind |-> "observation", at |-> now, consumed |-> Consumed(events),
                        coalesced |-> {}, source |-> i,
                        outcome |-> lookups[events[i].slot].outcome])

(* _recover_unacknowledged_lookup_receipts: the next dispatch that had no   *)
(* observation; its receipt, if there is one by now, is attached.           *)
Matches(i) == ActiveAt(events[i], lookups[events[i].slot].requested)

Repair(w) ==
    LET i == Min(todo[w])
    IN  /\ pc[w] \in {"prefix", "final"} /\ todo[w] # {}
        /\ IF lookups[events[i].slot] = NoReceipt
           THEN /\ todo' = [todo EXCEPT ![w] = @ \ {i}]
                /\ UNCHANGED <<schedule, pc, job>>
           ELSE IF Matches(i) /\ Recordable(w, i)
           THEN /\ todo' = [todo EXCEPT ![w] = @ \ {i}]
                /\ record_observation(i)
                /\ UNCHANGED <<pc, job>>
           ELSE Raise(w) /\ UNCHANGED schedule
        /\ UNCHANGED <<now, recorded, lease, troubles, lookups, sent, fence>>

Finish(w) ==
    /\ pc[w] = "final" /\ todo[w] = {}
    /\ Goto(w, "idle")
    /\ UNCHANGED <<now, recorded, lease, troubles, schedule, lookups, sent, fence, todo, job>>

-----------------------------------------------------------------------------
(* evaluate: one transaction, which may consume slots and issue a claim.    *)
Dispatch(w, evaluation) ==
    /\ _append_event([kind |-> "dispatch", at |-> now, slot |-> evaluation.slot,
                      coalesced |-> evaluation.coalesced,
                      consumed |-> Consumed(events) \union evaluation.coalesced
                                       \union {evaluation.slot},
                      until |-> Min({now + TTL, Horizon}),
                      generation |-> lease.generation, revision |-> lease.revision])
    /\ job' = [job EXCEPT ![w] = [NoJob EXCEPT !.dispatch = Len(events')]]
    /\ Goto(w, "request")

Exhaust(w, evaluation) ==
    /\ _append_event([kind |-> "exhausted", at |-> now, coalesced |-> evaluation.coalesced,
                      consumed |-> Consumed(events) \union evaluation.coalesced])
    /\ Goto(w, "stepped")
    /\ UNCHANGED job

Report(w) == Goto(w, "stepped") /\ UNCHANGED <<schedule, job>>

evaluate(w) ==
    LET evaluation == Evaluation(now, Consumed(events))
        issuing == head.status = "active" /\ ActiveClaims(events, now) = {}
    IN  /\ pc[w] = "prefix" /\ todo[w] = {}
        /\ IF ~(Fenced(w) /\ Verifies) THEN Raise(w) /\ UNCHANGED schedule
           ELSE /\ IF issuing /\ evaluation.outcome = "due" THEN Dispatch(w, evaluation)
                   ELSE IF issuing /\ evaluation.outcome = "exhausted" THEN Exhaust(w, evaluation)
                   ELSE Report(w)
                /\ UNCHANGED todo
        /\ UNCHANGED <<now, recorded, lease, troubles, lookups, sent, fence>>

-----------------------------------------------------------------------------
(* The lookup.  requested_at, a permit no request had before, the fence.    *)
Request(w) ==
    LET slot == events[job[w].dispatch].slot
    IN  /\ pc[w] = "request"
        /\ IF Fenced(w) /\ sent[slot] = 0
           THEN /\ job' = [job EXCEPT ![w].requested = now, ![w].generation = lease.generation,
                                      ![w].pre = lease.revision]
                /\ sent' = [sent EXCEPT ![slot] = @ + 1]
                /\ Goto(w, "lookup")
                /\ UNCHANGED todo
           ELSE Raise(w) /\ UNCHANGED sent
        /\ UNCHANGED <<now, recorded, lease, troubles, schedule, lookups, fence>>

(* The answer is received, and recorded with the fence still current.       *)
Respond(w, outcome) ==
    LET slot == events[job[w].dispatch].slot
    IN  /\ pc[w] = "lookup"
        /\ Fenced(w)
        /\ lookups' = [lookups EXCEPT ![slot] =
                          [requested |-> job[w].requested, generation |-> job[w].generation,
                           pre |-> job[w].pre, post |-> lease.revision, outcome |-> outcome]]
        /\ Goto(w, "attach")
        /\ UNCHANGED <<now, recorded, lease, troubles, schedule, sent, fence, todo, job>>

(* No answer, or one that cannot be recorded: the slot is spent.            *)
LookupFails(w) ==
    /\ pc[w] = "lookup"
    /\ Raise(w)
    /\ UNCHANGED <<now, recorded, lease, troubles, schedule, lookups, sent, fence>>

(* run_alpaca_paper_unknown_recovery_once, after the lookup.                *)
Attach(w) ==
    LET i == job[w].dispatch
    IN  /\ pc[w] = "attach"
        /\ IF Matches(i) /\ Recordable(w, i)
           THEN /\ record_observation(i)
                /\ Goto(w, "stepped")
                /\ job' = [job EXCEPT ![w] = NoJob]
                /\ UNCHANGED todo
           ELSE Raise(w) /\ UNCHANGED schedule
        /\ UNCHANGED <<now, recorded, lease, troubles, lookups, sent, fence>>

-----------------------------------------------------------------------------
Step(w) ==
    \/ load_progress(w)
    \/ Repair(w)
    \/ evaluate(w)
    \/ Request(w)
    \/ \E outcome \in Outcome : Respond(w, outcome)
    \/ LookupFails(w)
    \/ Attach(w)
    \/ Finish(w)

Next ==
    \/ Tick
    \/ Renew
    \/ Handover
    \/ \E w \in Worker : Crash(w) \/ Step(w)

Spec == Init /\ [][Next]_vars

(* The clock advances, and some worker or other is polled and runs on.      *)
FairSpec == Spec /\ WF_vars(Tick) /\ WF_vars(\E w \in Worker : Step(w))

-----------------------------------------------------------------------------
(* Every dispatch a worker refers to exists, the slots consumed lie before  *)
(* the deadline, and no slot's request is made twice.                       *)
TypeOK ==
    /\ \A w \in Worker :
          /\ todo[w] \subseteq Dispatches(events)
          /\ pc[w] \in {"request", "lookup", "attach"} <=> job[w] # NoJob
          /\ job[w] # NoJob => job[w].dispatch \in Dispatches(events)
          /\ fence[w] \in 1 .. lease.generation
    /\ \A k \in head.consumed : Scheduled(k) < Horizon
    /\ sent \in [DOMAIN Offsets -> 0 .. 1]
    /\ \A k \in DOMAIN Offsets : lookups[k] # NoReceipt => sent[k] = 1

(* Whatever the transactions committed passes the authentication (_history) *)
(* every later read and write of the schedule starts with.                  *)
HistoryVerifies == TypeOK /\ Verifies

(* evaluate_unknown_submission_recovery: "delayed polling cannot create a   *)
(* catch-up burst".  When a lookup is dispatched, no lookup dispatched      *)
(* later was due already.                                                   *)
NoCatchUpBurst ==
    \A i, j \in Dispatches(events) :
        i < j => Scheduled(events[j].slot) > events[i].at

(* A classification of the schedule is never taken back: a match may still  *)
(* turn into a mismatch, whichever order late answers are attached in, and  *)
(* nothing replaces a mismatch or exhaustion.                               *)
StatusOnlyEscalates ==
    [][head'.status # head.status =>
          \/ head.status = "active"
          \/ head.status = "reconciliation_required" /\ head'.status = "blocked_mismatch"]_vars

(* Dispatches whose receipt the repair pass finds and cannot attach: the    *)
(* lease was renewed between the dispatch and the lookup.                   *)
Unattachable == {i \in Dispatches(events) \ Observed(events) :
                    /\ lookups[events[i].slot] # NoReceipt
                    /\ ~Authenticates(events[i], lookups[events[i].slot])}

(* While workers are polled the investigation ends, with an answer or, at   *)
(* the deadline, exhausted, unless some receipt cannot be attached.         *)
RecoveryEnds == <>(head.status # "active" \/ Unattachable # {})

(* The investigation ends, and on a classification that only escalates.     *)
RecoveryIsDecided == StatusOnlyEscalates /\ RecoveryEnds
=============================================================================
