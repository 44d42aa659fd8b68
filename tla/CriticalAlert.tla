---------------------------- MODULE CriticalAlert ----------------------------
(***************************************************************************)
(* Delivery of critical alerts and the control of their total failure      *)
(* (packages/domain/critical_alert.py, packages/persistence/               *)
(* critical_alert.py and critical_alert_failure_control.py, packages/      *)
(* application/critical_alert_delivery.py, _supervisor.py,                 *)
(* _supervisor_failure_control.py and _atomic_worker.py).                  *)
(*                                                                         *)
(* Workers scan the incidents without an in-budget confirmation and take   *)
(* them one after the other.  A worker supervises an incident from its     *)
(* durable history and the clock: it sends on the primary route before the *)
(* primary deadline, on the escalation route after it, and when escalation *)
(* failed or was never resolved it pauses the account and binds a receipt, *)
(* in one transaction.  Each transaction and each call of the provider is  *)
(* a step.  An exception ends the worker's whole page.                     *)
(***************************************************************************)
EXTENDS Integers, Sequences, FiniteSets, FiniteSetsExt, SequencesExt

CONSTANTS
    Worker,        \* worker processes on one store
    Incident,      \* incidents of one account, ordered as their identities
    PrimaryBudget,     \* 15 seconds
    EscalationBudget,  \* 30 seconds
    MaxTime,       \* bound: the clock; no incident whose deadlines are beyond it
    MaxCrashes,    \* bound: crashes of workers
    MaxCommands    \* bound: control commands of others

ASSUME IncidentAssumption == Incident \subseteq Nat /\ IsFiniteSet(Incident)
ASSUME BudgetAssumption ==
    PrimaryBudget \in Nat /\ EscalationBudget \in Nat /\ PrimaryBudget < EscalationBudget

VARIABLES
    now,        \* the trusted clock
    recorded,   \* when each incident was recorded
    attempts,   \* claims of each incident, in order
    results,    \* terminal result of each claim
    receipts,   \* evidence of each total failure bound to control
    control,    \* the account's control head: its state and when it was decided
    commands,   \* control commands of others so far
    sends,      \* requests the provider received, by incident and route
    workers,    \* what each worker has read so far
    crashes     \* crashes so far

store == <<recorded, attempts, results, receipts, control>>
vars == <<now, store, commands, sends, workers, crashes>>

Route == {"primary", "escalation"}
Outcome == {"confirmed", "failed"}   \* timeout and error are both "failed"
Reason == {"unresolved", "failed"}
Instant == 0..MaxTime
Running == 0
Paused == 1
Halted == 4
None == [none |-> TRUE]
Unrecorded == -1
Idle == [stage |-> "idle"]

-----------------------------------------------------------------------------
Deadline(i, route) ==
    recorded[i] + (IF route = "primary" THEN PrimaryBudget ELSE EscalationBudget)
Claims(i, route) == {k \in DOMAIN attempts[i] : attempts[i][k].route = route}
Claimed(i, route) == Claims(i, route) # {}
Resolved(i, route) == results[i][route] # None

(* critical_alert_delivery_milestone_met, on any route.                     *)
Delivered(i) ==
    \E route \in Route : /\ Resolved(i, route)
                         /\ results[i][route].outcome = "confirmed"
                         /\ results[i][route].completed < Deadline(i, route)

(* _history_latest_time                                                     *)
Latest(i) ==
    Max({recorded[i]} \union {attempts[i][k].claimed : k \in DOMAIN attempts[i]}
          \union {results[i][route].completed : route \in {r \in Route : Resolved(i, r)}})

(* validate_critical_alert_delivery_history                                 *)
ChainValid(i) ==
    \A route \in Route :
        /\ Cardinality(Claims(i, route)) <= 1
        /\ Resolved(i, route) =>
             \E k \in Claims(i, route) : attempts[i][k].claimed <= results[i][route].completed

(* validate_critical_alert_route_plan_history                               *)
RoutePlanValid(i) ==
    /\ \A k \in DOMAIN attempts[i] :
         attempts[i][k].route = "primary" <=> attempts[i][k].requested < Deadline(i, "primary")
    /\ Len(attempts[i]) = 2 => attempts[i][1].route = "primary"

HistoryValid(i) == ChainValid(i) /\ RoutePlanValid(i)

(* authenticate_total_delivery_failure_evidence                             *)
Authentic(i, evidence) ==
    /\ HistoryValid(i)
    /\ evidence.observed >= Latest(i)
    /\ ~Delivered(i)
    /\ Claimed(i, "escalation")
    /\ IF evidence.reason = "unresolved"
       THEN evidence.observed >= Deadline(i, "escalation") /\ ~Resolved(i, "escalation")
       ELSE Resolved(i, "escalation")

-----------------------------------------------------------------------------
Init ==
    /\ now = 0
    /\ recorded = [i \in Incident |-> Unrecorded]
    /\ attempts = [i \in Incident |-> <<>>]
    /\ results = [i \in Incident |-> [route \in Route |-> None]]
    /\ receipts = [i \in Incident |-> None]
    /\ control = [state |-> Running, decided |-> 0]
    /\ commands = 0
    /\ sends = [i \in Incident |-> [route \in Route |-> 0]]
    /\ workers = [w \in Worker |-> Idle]
    /\ crashes = 0

Tick ==
    /\ now < MaxTime
    /\ now' = now + 1
    /\ UNCHANGED <<store, commands, sends, workers, crashes>>

RecordIncident(i) ==
    /\ recorded[i] = Unrecorded
    /\ now + EscalationBudget <= MaxTime
    /\ recorded' = [recorded EXCEPT ![i] = now]
    /\ UNCHANGED <<now, attempts, results, receipts, control, commands, sends, workers, crashes>>

(* Another command or a rearm of the account decides a new head.            *)
Control(state) ==
    /\ commands < MaxCommands
    /\ commands' = commands + 1
    /\ control' = [state |-> state, decided |-> now]
    /\ UNCHANGED <<now, recorded, attempts, results, receipts, sends, workers, crashes>>

-----------------------------------------------------------------------------
(* The worker goes on with the incidents left on its page.                  *)
Continue(page) == IF page = <<>> THEN Idle ELSE [stage |-> "supervise", page |-> page]
Done(w) == Continue(Tail(workers[w].page))
Becomes(w, next) == workers' = [workers EXCEPT ![w] = next]
OnlyWorkers == UNCHANGED <<now, store, commands, sends, crashes>>

Earlier(i, j) == recorded[i] < recorded[j] \/ (recorded[i] = recorded[j] /\ i < j)

(* scan_active_incidents, with a page that holds every incident.            *)
Scan(w) ==
    LET active == {i \in Incident : recorded[i] # Unrecorded /\ ~Delivered(i)}
    IN  /\ workers[w] = Idle
        /\ active # {}
        /\ Becomes(w, Continue(SetToSortSeq(active, Earlier)))
        /\ OnlyWorkers

(* What run_once selects from the history and the clock: nothing to do now, *)
(* a route to deliver on, or a total failure.                               *)
SelectionGivesUp(i) ==
    IF Delivered(i) THEN [do |-> "nothing"]
    ELSE IF now < Deadline(i, "primary") /\ ~Claimed(i, "primary")
         THEN [do |-> "deliver", route |-> "primary"]
    ELSE IF now >= Deadline(i, "primary") /\ ~Claimed(i, "escalation")
         THEN [do |-> "deliver", route |-> "escalation"]
    ELSE [do |-> "nothing"]

Selection(i) ==
    IF Delivered(i) THEN [do |-> "nothing"]
    ELSE IF now < Deadline(i, "primary")
         THEN IF Claimed(i, "primary") THEN [do |-> "nothing"]
              ELSE [do |-> "deliver", route |-> "primary"]
    ELSE IF ~Claimed(i, "escalation") THEN [do |-> "deliver", route |-> "escalation"]
    ELSE IF Resolved(i, "escalation") THEN [do |-> "fail", reason |-> "failed"]
    ELSE IF now >= Deadline(i, "escalation") THEN [do |-> "fail", reason |-> "unresolved"]
    ELSE [do |-> "nothing"]

(* run_once: the history is loaded, the clock read and a route selected.    *)
Supervise(w) ==
    LET page == workers[w].page
        selection == Selection(Head(page))
    IN  /\ workers[w].stage = "supervise"
        /\ Becomes(w, CASE selection.do = "nothing" -> Done(w)
                        [] selection.do = "deliver" ->
                             [stage |-> "check", page |-> page, route |-> selection.route,
                              requested |-> now]
                        [] selection.do = "fail" ->
                             [stage |-> "fail", page |-> page,
                              evidence |-> [reason |-> selection.reason, observed |-> now]])
        /\ OnlyWorkers

(* _from_delivery_run of an exact retry: the claim is another worker's.     *)
Retried(w, i) ==
    LET task == workers[w]
        failed(reason, observed) == [stage |-> "fail", page |-> task.page,
                                     evidence |-> [reason |-> reason, observed |-> observed]]
        claim == CHOOSE k \in Claims(i, task.route) : TRUE
        claimed == Max({task.requested, attempts[i][claim].claimed})
    IN  IF Delivered(i) \/ task.route = "primary" THEN Done(w)
        ELSE IF Resolved(i, task.route)
             THEN failed("failed", Max({task.requested, results[i][task.route].completed}))
        ELSE IF claimed >= Deadline(i, "escalation") THEN failed("unresolved", claimed)
        ELSE Done(w)

(* deliver_critical_alert before its claim.                                 *)
Check(w) ==
    LET i == Head(workers[w].page)
    IN  /\ workers[w].stage = "check"
        /\ Becomes(w, IF Claimed(i, workers[w].route) THEN Retried(w, i)
                      ELSE IF Delivered(i) THEN Idle
                      ELSE [workers[w] EXCEPT !.stage = "claim"])
        /\ OnlyWorkers

(* append_critical_alert_delivery_attempt                                   *)
InOrder(i, requested) ==
    attempts[i] # <<>> => /\ Last(attempts[i]).requested <= requested
                          /\ Last(attempts[i]).claimed <= now

ClaimAgain(w) ==
    LET task == workers[w]
        i == Head(task.page)
    IN  /\ task.stage = "claim"
        /\ Claimed(i, task.route) \/ InOrder(i, task.requested)
        /\ attempts' = [attempts EXCEPT ![i] = IF Claimed(i, task.route) THEN @ ELSE Append(@,
               [route |-> task.route, requested |-> task.requested, claimed |-> now])]
        /\ Becomes(w, [task EXCEPT !.stage = "send"])
        /\ UNCHANGED <<now, recorded, results, receipts, control, commands, sends, crashes>>

(* claim_delivery_attempt                                                   *)
Claim(w) ==
    LET task == workers[w]
        i == Head(task.page)
    IN  /\ task.stage = "claim"
        /\ IF ~Claimed(i, task.route) /\ InOrder(i, task.requested)
           THEN /\ attempts' = [attempts EXCEPT ![i] = Append(@,
                       [route |-> task.route, requested |-> task.requested, claimed |-> now])]
                /\ Becomes(w, [task EXCEPT !.stage = "send"])
           ELSE /\ Becomes(w, IF Claimed(i, task.route) THEN Retried(w, i) ELSE Idle)
                /\ UNCHANGED attempts
        /\ UNCHANGED <<now, recorded, results, receipts, control, commands, sends, crashes>>

Result(w, outcome, called) ==
    [stage |-> "record", page |-> workers[w].page, route |-> workers[w].route,
     requested |-> workers[w].requested, called |-> called,
     result |-> [outcome |-> outcome, completed |-> now]]

(* The deadline has passed: a timeout, without a call of the provider.      *)
Missed(w) ==
    /\ workers[w].stage = "send"
    /\ now >= Deadline(Head(workers[w].page), workers[w].route)
    /\ Becomes(w, Result(w, "failed", FALSE))
    /\ OnlyWorkers

(* The claim is retained unresolved: no adapter can be resolved.            *)
Unavailable(w) ==
    /\ workers[w].stage = "send"
    /\ now < Deadline(Head(workers[w].page), workers[w].route)
    /\ Becomes(w, Idle)
    /\ OnlyWorkers

Send(w) ==
    LET i == Head(workers[w].page)
    IN  /\ workers[w].stage = "send"
        /\ now < Deadline(i, workers[w].route)
        /\ sends' = [sends EXCEPT ![i][workers[w].route] = @ + 1]
        /\ Becomes(w, [workers[w] EXCEPT !.stage = "sent"])
        /\ UNCHANGED <<now, store, commands, crashes>>

(* The provider answers, or the call times out.                             *)
Respond(w, outcome) ==
    LET late == now >= Deadline(Head(workers[w].page), workers[w].route)
    IN  /\ workers[w].stage = "sent"
        /\ Becomes(w, Result(w, IF late THEN "failed" ELSE outcome, TRUE))
        /\ OnlyWorkers

(* record_delivery_result.  Only a failure of the escalation that needed no *)
(* call of the provider goes on to control in this run.                     *)
Record(w) ==
    LET task == workers[w]
        i == Head(task.page)
    IN  /\ task.stage = "record"
        /\ results' = [results EXCEPT ![i][task.route] = task.result]
        /\ Becomes(w, IF task.route = "escalation" /\ ~task.called
                      THEN [stage |-> "fail", page |-> task.page,
                            evidence |-> [reason |-> "failed", observed |-> task.result.completed]]
                      ELSE Done(w))
        /\ UNCHANGED <<now, recorded, attempts, receipts, control, commands, sends, crashes>>

(* _canonical_total_failure_evidence, of the history loaded again.          *)
Canonicalize(w) ==
    LET task == workers[w]
        i == Head(task.page)
        eligible == IF task.evidence.reason = "unresolved"
                    THEN Max({Deadline(i, "escalation"), Latest(i)}) ELSE Latest(i)
        canonical == [reason |-> task.evidence.reason, observed |-> eligible]
    IN  /\ task.stage = "fail"
        /\ Becomes(w, IF task.evidence.observed < eligible THEN Done(w)
                      ELSE IF ~Authentic(i, canonical) THEN Idle
                      ELSE [stage |-> "bind", page |-> task.page, evidence |-> canonical])
        /\ OnlyWorkers

(* A new binding is admissible: its evidence is authentic and its trip,     *)
(* requested when the failure became eligible, does not predate the head.   *)
BindableUnread(i, evidence) == control.decided <= evidence.observed

Bindable(i, evidence) == Authentic(i, evidence) /\ control.decided <= evidence.observed

(* bind: an exact retry returns the receipt, which is authenticated again.  *)
BindAgain(w) ==
    LET i == Head(workers[w].page)
    IN  /\ workers[w].stage = "bind"
        /\ receipts[i] # None
        /\ Becomes(w, IF Authentic(i, receipts[i]) /\ receipts[i] = workers[w].evidence
                      THEN Done(w) ELSE Idle)
        /\ OnlyWorkers

BindRefused(w) ==
    LET i == Head(workers[w].page)
    IN  /\ workers[w].stage = "bind"
        /\ receipts[i] = None
        /\ ~Bindable(i, workers[w].evidence)
        /\ Becomes(w, Idle)
        /\ OnlyWorkers

(* The control head after a trip to PAUSED.                                 *)
Tripped == [state |-> Max({control.state, Paused}), decided |-> now]

Bind(w) ==
    LET i == Head(workers[w].page)
    IN  /\ workers[w].stage = "bind"
        /\ receipts[i] = None
        /\ Bindable(i, workers[w].evidence)
        /\ receipts' = [receipts EXCEPT ![i] = workers[w].evidence]
        /\ control' = Tripped
        /\ Becomes(w, Done(w))
        /\ UNCHANGED <<now, recorded, attempts, results, commands, sends, crashes>>

(* A crash loses everything but the store and what was already sent.        *)
Crash(w) ==
    /\ crashes < MaxCrashes
    /\ workers[w] # Idle
    /\ crashes' = crashes + 1
    /\ Becomes(w, Idle)
    /\ UNCHANGED <<now, store, commands, sends>>

Step(w) ==
    \/ Scan(w) \/ Supervise(w) \/ Check(w) \/ Claim(w)
    \/ Missed(w) \/ Unavailable(w) \/ Send(w)
    \/ \E outcome \in Outcome : Respond(w, outcome)
    \/ Record(w) \/ Canonicalize(w) \/ BindAgain(w) \/ BindRefused(w) \/ Bind(w)

Next ==
    \/ Tick
    \/ \E i \in Incident : RecordIncident(i)
    \/ \E state \in {Running, Paused, Halted} : Control(state)
    \/ \E w \in Worker : Step(w) \/ Crash(w)

Spec == Init /\ [][Next]_vars

(* Time passes and a worker that can go on does: the provider's call has a  *)
(* timeout and the worker is run again and again.                           *)
FairSpec == Spec /\ WF_vars(Tick) /\ \A w \in Worker : WF_vars(Step(w))

-----------------------------------------------------------------------------
Evidence == [reason : Reason, observed : Instant]
Page == UNION {[1..n -> Incident] : n \in 1..Cardinality(Incident)}

(* The type invariant.                                                      *)
TypeOK ==
    /\ now \in Instant
    /\ recorded \in [Incident -> Instant \union {Unrecorded}]
    /\ \A i \in Incident :
         /\ \A k \in DOMAIN attempts[i] :
              attempts[i][k] \in [route : Route, requested : Instant, claimed : Instant]
         /\ results[i] \in [Route -> [outcome : Outcome, completed : Instant] \union {None}]
         /\ receipts[i] \in Evidence \union {None}
    /\ control \in [state : {Running, Paused, Halted}, decided : Instant]
    /\ \A w \in Worker : workers[w] = Idle \/ workers[w].page \in Page

(* _verify_critical_alert_integrity and the route-plan check accept every   *)
(* history that workers write, whatever the races between a claim of the    *)
(* primary route that stalled and the escalation of another worker.         *)
HistoryVerifies == \A i \in Incident : recorded[i] # Unrecorded => HistoryValid(i)

(* deliver_critical_alert: whatever crashes, retries and races happen, a    *)
(* route of an incident is sent at most once, and only under a claim that   *)
(* is already durable.                                                      *)
AtMostOneSend ==
    \A i \in Incident, route \in Route :
        sends[i][route] <= Cardinality(Claims(i, route)) /\ sends[i][route] <= 1

(* bind: an account is never paused for an alert whose in-budget            *)
(* confirmation was already recorded, though it was unresolved when the     *)
(* worker looked.                                                           *)
ConfirmedIsNoFailure ==
    [][\A i \in Incident : receipts'[i] # receipts[i] => ~Delivered(i)]_vars

(* A total failure is bound only when the escalation was tried and failed,  *)
(* or its deadline has passed, and the trip never lowers a stronger state.  *)
FailureIsExhausted ==
    [][\A i \in Incident : receipts'[i] # receipts[i] =>
         /\ control'.state >= Max({control.state, Paused})
         /\ Claimed(i, "escalation")
         /\ Resolved(i, "escalation") \/ now >= Deadline(i, "escalation")]_vars

(* The head was decided after the instant at which the incident's failure   *)
(* became eligible: operational control refuses the trip from then on.      *)
Overtaken(i) ==
    /\ Claimed(i, "escalation")
    /\ control.decided > IF Resolved(i, "escalation") THEN Latest(i)
                         ELSE Max({Deadline(i, "escalation"), Latest(i)})

(* Every recorded incident is eventually confirmed in its budget or bound   *)
(* to a pause of the account, unless another decision of the account's      *)
(* control overtakes it: an alert is not lost to a crash or a timeout.      *)
EveryAlertSettles ==
    \A i \in Incident :
        recorded[i] # Unrecorded ~> (Delivered(i) \/ receipts[i] # None \/ Overtaken(i))

(* What was sent and what was written agree: one send under each claim, and *)
(* claims and results that verify.                                          *)
SendsAreClaimed == TypeOK /\ HistoryVerifies /\ AtMostOneSend

(* An account is paused for an exhausted alert and for no confirmed one.    *)
FailureIsEarned == ConfirmedIsNoFailure /\ FailureIsExhausted
=============================================================================
