------------------------- MODULE OperationalControl -------------------------
(***************************************************************************)
(* The durable operational control of one account                          *)
(* (packages/domain/operational_control.py,                                *)
(* packages/persistence/operational_control.py,                            *)
(* packages/application/operational_rearm.py).                             *)
(*                                                                         *)
(* Operators and breakers append commands to a history whose last          *)
(* transition is the account's control state.  Every command but a rearm   *)
(* joins its target with the state.  A call reads the clock when it is     *)
(* requested, again when its transaction begins, and only then waits for   *)
(* the account lock: the three are separate steps here.  Everything under  *)
(* the lock is one step.  States are their severities.                     *)
(***************************************************************************)
EXTENDS Integers, Sequences, FiniteSets, FiniteSetsExt, SequencesExt

CONSTANTS
    Caller,       \* concurrent calls, of any process
    OperatorKey,  \* idempotency keys of the human operator
    BreakerKey,   \* idempotency keys of system and breaker actors
    MaxBlockers,  \* MAX_OPERATIONAL_CONTROL_BLOCKERS
    Offered,      \* bound: what operators ask for, besides a rearm
    MaxTime,      \* bound: the clock
    MaxHistory,   \* bound: transitions
    MaxShared     \* bound: transitions when calls overlap

ASSUME BlockersAssumption == MaxBlockers \in Nat \ {0}
ASSUME BoundAssumption == MaxTime \in Nat
ASSUME OfferedAssumption == Offered \subseteq {"pause", "drain", "flatten", "halt"}

VARIABLES
    now,          \* the trusted clock
    calls,        \* what each caller has read so far
    history,      \* transition rows, by sequence number
    completions   \* completion rows of drain and flatten attempts

vars == <<now, calls, history, completions>>

Running == 0
Paused == 1
Draining == 2
Flattening == 3
Halted == 4
State == Running..Halted
Key == OperatorKey \union BreakerKey
Instant == 0..MaxTime
Idle == [stage |-> "idle"]
NoEvidence == [head |-> 0]
NoOutcome == [attempt |-> 0]

(* _ACTION_TARGETS: what an operator may ask for, besides a rearm.          *)
OperatorTarget == [pause |-> Paused, drain |-> Draining, flatten |-> Flattening, halt |-> Halted]

-----------------------------------------------------------------------------
InOperation(state) == state \in {Draining, Flattening}
OperationOf(state) == IF state = Draining THEN "drain" ELSE "flatten"

(* The completion of the attempt a transition carries, if it has one.       *)
OutcomeOf(attempt) == {d \in completions : d.attempt = attempt}

(* _validate_operation_completion_for_retry                                 *)
Retryable(t, command, d) ==
    /\ d.attempt = t.active /\ d.epoch = t.epoch
    /\ d.observed <= command.requested
    /\ d.outcome = "incomplete"

(* _validate_rearm, the operation's outcome.                                *)
CompletesOperation(t, evidence) ==
    IF InOperation(t.effective)
    THEN /\ evidence.completion # NoOutcome
         /\ evidence.completion.attempt = t.active /\ evidence.completion.epoch = t.epoch
         /\ evidence.completion.outcome = "completed"
         /\ evidence.completion.observed <= evidence.checked
    ELSE evidence.completion = NoOutcome

(* _validate_rearm                                                          *)
ValidRearm(h, command, decided) ==
    LET t == Last(h) evidence == command.evidence
    IN  /\ t.effective > Running
        /\ evidence.head = Len(h)
        /\ evidence.checked <= command.requested /\ decided < evidence.expires
        /\ evidence.healthy
        /\ evidence.disposed = t.blockers
        /\ ~t.overflow
        /\ CompletesOperation(t, evidence)

(* Mutation: the order of decisions is left to the evidence of a rearm.     *)
AdmissibleEarlyRearm(h, command, decided, outcome) ==
    /\ command.requested <= decided
    /\ IF h = << >>
       THEN command.kind = "initialize"
       ELSE /\ command.kind # "initialize"
            /\ command.kind # "rearm" => command.requested >= Last(h).decided
            /\ command.kind = "rearm" => ValidRearm(h, command, decided)

(* apply_operational_control_command, its refusals.  outcome holds the      *)
(* completion of the active attempt, when the caller passes one.            *)
Admissible(h, command, decided, outcome) ==
    /\ command.requested <= decided
    /\ IF h = << >>
       THEN command.kind = "initialize"
       ELSE /\ command.kind # "initialize"
            /\ command.requested >= Last(h).decided
            /\ command.kind = "rearm" => ValidRearm(h, command, decided)
            /\ \A d \in outcome :
                  InOperation(Last(h).effective) /\ command.kind = OperationOf(Last(h).effective)
                      => Retryable(Last(h), command, d)

(* _state_join, and the target of a rearm.                                  *)
Joined(prior, command) ==
    IF command.kind # "rearm" /\ prior > command.target THEN prior ELSE command.target

(* Mutation: the overflow flag tells of this command only.                  *)
BlockersForgetful(prior, i, effective) ==
    LET pending == prior.blockers \union {i}
        over == Cardinality(pending) > MaxBlockers
    IN  IF effective = Running THEN [set |-> {}, overflow |-> FALSE]
        ELSE [set |-> IF over THEN pending \ {Min(pending)} ELSE pending, overflow |-> FALSE]

(* The projected blockers: at most MaxBlockers, the oldest dropped, with a  *)
(* sticky flag.                                                             *)
Blockers(prior, i, effective) ==
    LET pending == prior.blockers \union {i}
        over == Cardinality(pending) > MaxBlockers
    IN  IF effective = Running THEN [set |-> {}, overflow |-> FALSE]
        ELSE [set |-> IF over THEN pending \ {Min(pending)} ELSE pending,
              overflow |-> prior.overflow \/ over]

(* The attempt a transition carries: opened when the state changes and by a *)
(* retry of an attempt that ended, otherwise kept.                          *)
Attempt(prior, i, effective, command, outcome) ==
    IF ~InOperation(effective) THEN 0
    ELSE IF \/ effective # prior.effective
            \/ command.kind = OperationOf(effective) /\ outcome # {}
         THEN i
         ELSE prior.active

(* The transition before, or that there is none.                            *)
NoRow == [effective |-> -1, epoch |-> 0, blockers |-> {}, overflow |-> FALSE, active |-> 0]
Prior(h) == IF h = << >> THEN NoRow ELSE Last(h)

(* apply_operational_control_command, the transition it returns.            *)
Transition(h, command, decided, outcome) ==
    LET i == Len(h) + 1
        prior == Prior(h)
        effective == Joined(prior.effective, command)
        blocking == Blockers(prior, i, effective)
    IN  [command |-> command,
         effective |-> effective,
         epoch |-> IF effective # prior.effective THEN i ELSE prior.epoch,
         blockers |-> blocking.set,
         overflow |-> blocking.overflow,
         active |-> Attempt(prior, i, effective, command, outcome),
         decided |-> decided]

-----------------------------------------------------------------------------
(* _completion_from_row: a completion belongs to the attempt and the head   *)
(* it names.                                                                *)
CompletionBinds(d) ==
    /\ d.attempt \in DOMAIN history /\ d.head \in DOMAIN history
    /\ d.attempt <= d.head
    /\ history[d.attempt].active = d.attempt /\ history[d.head].active = d.attempt
    /\ d.epoch = history[d.attempt].epoch
    /\ d.observed >= history[d.head].decided

(* _verified_history_records, one row: replayed on the rows before it.  A   *)
(* completion is handed to the replay only where the row opened a retry.    *)
(* The evidence of a rearm is not judged again.                             *)
RowVerifies(i) ==
    LET before == SubSeq(history, 1, i - 1)
        row == history[i]
        retried == /\ i > 1 /\ InOperation(history[i - 1].effective)
                   /\ row.command.kind = OperationOf(history[i - 1].effective)
                   /\ row.active = i
        outcome == IF retried THEN OutcomeOf(history[i - 1].active) ELSE {}
    IN  IF row.command.kind = "rearm"
        THEN /\ i > 1 /\ history[i - 1].effective > Running
             /\ row.command.target = Running
             /\ row.command.requested >= history[i - 1].decided
             /\ row.command.requested <= row.decided
             /\ row = Transition(before, row.command, row.decided, {})
        ELSE /\ retried => outcome # {}
             /\ Admissible(before, row.command, row.decided, outcome)
             /\ row = Transition(before, row.command, row.decided, outcome)

(* _verified_history_records                                                *)
Verifies ==
    /\ \A d \in completions : CompletionBinds(d)
    /\ \A d, e \in completions : d.attempt = e.attempt => d = e
    /\ \A i \in DOMAIN history : RowVerifies(i)

-----------------------------------------------------------------------------
Init ==
    /\ now = 0
    /\ calls = [c \in Caller |-> Idle]
    /\ history = << >>
    /\ completions = {}

(* The trusted clock advances.                                              *)
Tick ==
    /\ now < MaxTime
    /\ now' = now + 1
    /\ UNCHANGED <<calls, history, completions>>

(* Bound: no request is made that could commit past MaxHistory, or past     *)
(* MaxShared while another is under way.                                    *)
Room ==
    LET pending == Cardinality({c \in Caller : calls[c] # Idle})
    IN  Len(history) + pending < IF pending = 0 THEN MaxHistory ELSE MaxShared

Recorded(k) == {i \in DOMAIN history : history[i].command.key = k}

Command(k, kind, target) ==
    [key |-> k, kind |-> kind, target |-> target, requested |-> now, evidence |-> NoEvidence]

(* execute: an operator's request, unless its key has a receipt already.    *)
Execute(c, k, kind) ==
    /\ Room /\ calls[c] = Idle /\ Recorded(k) = {}
    /\ calls' = [calls EXCEPT ![c] = [stage |-> "requested",
                                      command |-> Command(k, kind, OperatorTarget[kind])]]
    /\ UNCHANGED <<now, history, completions>>

(* execute, for a rearm: the clock is read before the head is.              *)
ExecuteRearm(c, k) ==
    /\ Room /\ calls[c] = Idle /\ Recorded(k) = {}
    /\ calls' = [calls EXCEPT ![c] = [stage |-> "verifying", command |-> Command(k, "rearm", Running)]]
    /\ UNCHANGED <<now, history, completions>>

(* What the verifier may find: that all is well, that a gate is not, or     *)
(* that some blocker is not disposed of.                                    *)
Outstanding == IF history = << >> THEN {} ELSE Last(history).blockers
Facts == {[healthy |-> TRUE, disposed |-> Outstanding], [healthy |-> FALSE, disposed |-> Outstanding],
          [healthy |-> TRUE, disposed |-> {}]}

(* _rearm: the verifier answers for the head just loaded, with whatever it  *)
(* finds; anything it does not bind to that head and check is refused.      *)
Verify(c, healthy, disposed, completion, expires) ==
    /\ calls[c].stage = "verifying"
    /\ history # << >> /\ Last(history).effective > Running
    /\ expires > calls[c].command.requested
    /\ calls' = [calls EXCEPT ![c] =
          [stage |-> "requested",
           command |-> [calls[c].command EXCEPT !.evidence =
              [head |-> Len(history), checked |-> calls[c].command.requested, expires |-> expires,
               healthy |-> healthy, disposed |-> disposed, completion |-> completion]]]]
    /\ UNCHANGED <<now, history, completions>>

(* _rearm, for want of a stopped account or of facts.                       *)
VerifyFails(c) ==
    /\ calls[c].stage = "verifying"
    /\ calls' = [calls EXCEPT ![c] = Idle]
    /\ UNCHANGED <<now, history, completions>>

(* A system actor initializes the account, or a breaker trips it.           *)
Trip(c, k, kind, target) ==
    /\ Room /\ calls[c] = Idle
    /\ kind = "initialize" => target = Halted
    /\ calls' = [calls EXCEPT ![c] = [stage |-> "requested", command |-> Command(k, kind, target)]]
    /\ UNCHANGED <<now, history, completions>>

(* apply, apply_authenticated_rearm: the transaction begins and reads the   *)
(* time of its decision.                                                    *)
Decide(c) ==
    /\ calls[c].stage = "requested"
    /\ calls' = [calls EXCEPT ![c] = [stage |-> "decided", command |-> calls[c].command, decided |-> now]]
    /\ UNCHANGED <<now, history, completions>>

(* The completion the evidence of a rearm quotes is durable.                *)
EvidenceIsDurable(command) ==
    command.kind = "rearm" /\ command.evidence.completion # NoOutcome
        => command.evidence.completion \in completions

ActiveOutcome(command) ==
    IF history = << >> \/ command.kind = "rearm" THEN {} ELSE OutcomeOf(Last(history).active)

(* apply_..._in_transaction, apply_authenticated_..._in_transaction: what   *)
(* lets a command append.  With a receipt for the key the call ends without *)
(* a change, as it does when anything is refused.                           *)
Appends(c) ==
    /\ Recorded(calls[c].command.key) = {}
    /\ EvidenceIsDurable(calls[c].command)
    /\ Admissible(history, calls[c].command, calls[c].decided, ActiveOutcome(calls[c].command))
    /\ Verifies

(* The account lock is held until commit.                                   *)
Commit(c) ==
    /\ calls[c].stage = "decided"
    /\ calls' = [calls EXCEPT ![c] = Idle]
    /\ Appends(c)
    /\ history' = Append(history, Transition(history, calls[c].command, calls[c].decided,
                                             ActiveOutcome(calls[c].command)))
    /\ UNCHANGED <<now, completions>>

(* A replayed receipt, a conflict, a refusal: nothing is written.           *)
Refuse(c) ==
    /\ calls[c].stage = "decided"
    /\ ~Appends(c)
    /\ calls' = [calls EXCEPT ![c] = Idle]
    /\ UNCHANGED <<now, history, completions>>

(* OperationalControlCompletion.__post_init__: an outcome and the residual  *)
(* facts it may be recorded with: settled orders and reconciliation, and no *)
(* position left.                                                           *)
OutcomeAllowed(operation, outcome, settled, flat) ==
    IF outcome = "completed" THEN settled /\ (operation = "flatten" => flat)
    ELSE ~(settled /\ flat)

(* record_completion: the clock is read under the lock.                     *)
RecordCompletion(outcome, settled, flat) ==
    /\ history # << >> /\ Last(history).active # 0
    /\ OutcomeOf(Last(history).active) = {}
    /\ now >= Last(history).decided
    /\ OutcomeAllowed(OperationOf(Last(history).effective), outcome, settled, flat)
    /\ Verifies
    /\ completions' = completions \union
          {[attempt |-> Last(history).active, epoch |-> Last(history).epoch, head |-> Len(history),
            outcome |-> outcome, settled |-> settled, flat |-> flat, observed |-> now]}
    /\ UNCHANGED <<now, calls, history>>

(* An exceeded deadline is an incomplete outcome: the two differ in one     *)
(* timestamp of the row.                                                    *)
OutcomeKind == {"completed", "incomplete"}

Next ==
    \/ Tick
    \/ \E c \in Caller :
          \/ \E k \in OperatorKey : \/ \E kind \in Offered : Execute(c, k, kind)
                                    \/ ExecuteRearm(c, k)
          \/ \E k \in BreakerKey : \/ Trip(c, k, "initialize", Halted)
                                   \/ \E target \in {Paused, Halted} : Trip(c, k, "trip", target)
          \/ \E facts \in Facts, completion \in completions \union {NoOutcome},
                expires \in Instant \union {MaxTime + 1} :
                Verify(c, facts.healthy, facts.disposed, completion, expires)
          \/ VerifyFails(c) \/ Decide(c) \/ Commit(c) \/ Refuse(c)
    \/ \E outcome \in OutcomeKind, settled, flat \in BOOLEAN : RecordCompletion(outcome, settled, flat)

Spec == Init /\ [][Next]_vars

-----------------------------------------------------------------------------
Completion == [attempt : Nat, epoch : Nat, head : Nat, outcome : OutcomeKind,
               settled : BOOLEAN, flat : BOOLEAN, observed : Instant]
Evidence == [head : Nat, checked : Instant, expires : Nat, healthy : BOOLEAN,
             disposed : SUBSET Nat, completion : {NoOutcome} \union Completion]
CommandType == [key : Key, target : State, requested : Instant,
                kind : DOMAIN OperatorTarget \union {"initialize", "trip", "rearm"},
                evidence : {NoEvidence} \union Evidence]
Call == {Idle} \union [stage : {"requested", "verifying"}, command : CommandType]
               \union [stage : {"decided"}, command : CommandType, decided : Instant]
Row == [command : CommandType, effective : State, epoch : Nat, blockers : SUBSET Nat,
        overflow : BOOLEAN, active : Nat, decided : Instant]

(* Every row and every pending call has its type, and what a row refers to  *)
(* is not ahead of it.                                                      *)
TypeOK ==
    /\ now \in Instant
    /\ calls \in [Caller -> Call]
    /\ history \in Seq(Row)
    /\ completions \subseteq Completion
    /\ \A i \in DOMAIN history :
          /\ history[i].epoch \in 1..i /\ history[i].active \in 0..i
          /\ history[i].blockers \subseteq 1..i
          /\ Cardinality(history[i].blockers) <= MaxBlockers

(* Rows written under one set of completions always replay under a later    *)
(* one: what apply and record_completion write passes the authentication    *)
(* that every load, append and start-up runs first.                         *)
HistoryVerifies == Verifies

(* Decisions are in the order of the history, although each transaction     *)
(* reads its clock before it waits for the account lock.                    *)
DecisionsAreOrdered ==
    \A i, j \in DOMAIN history : i <= j => history[i].decided <= history[j].decided

(* The transitions that stopped the account since it last ran, up to i.     *)
StoppedSince(i) ==
    {j \in 1..i : \A m \in j..i : history[m].effective > Running}

(* The state never becomes weaker except by a rearm, whose evidence was     *)
(* taken from the very transition it leaves and disposes of every           *)
(* transition that stopped the account since it last ran, those that the    *)
(* bounded projection has dropped included (ADR 0066, decisions 1, 5, 8).   *)
RearmDisposesAll ==
    \A i \in 2..Len(history) :
        history[i].effective < history[i - 1].effective =>
            LET evidence == history[i].command.evidence
            IN  /\ history[i].command.kind = "rearm" /\ evidence.healthy
                /\ evidence.head = i - 1
                /\ evidence.disposed = StoppedSince(i - 1)

(* An account leaves a drain or a flatten only on the completed outcome of  *)
(* its last attempt, with orders settled and, after a flatten, no position: *)
(* never on the outcome of an attempt that was retried.                     *)
RearmFollowsCompletion ==
    \A i \in 2..Len(history) :
        history[i].command.kind = "rearm" /\ InOperation(history[i - 1].effective) =>
            \E d \in completions :
                /\ d.attempt = history[i - 1].active /\ d.outcome = "completed" /\ d.settled
                /\ history[i - 1].effective = Flattening => d.flat
                /\ d.observed <= history[i].decided

(* Within one stay in a drain or a flatten an attempt is followed by        *)
(* another only after a recorded failure, and its own number is new, so a   *)
(* completed operation is never repeated.                                   *)
AttemptsFollowFailures ==
    \A i \in 2..Len(history) :
        LET a == history[i - 1].active b == history[i].active
        IN  a # 0 /\ history[i].epoch = history[i - 1].epoch /\
            (a # b \/ (history[i].command.kind = OperationOf(history[i].effective) /\
                       \E d \in OutcomeOf(a) : d.head < i)) =>
                /\ b = i
                /\ \E d \in OutcomeOf(a) : d.outcome # "completed" /\ d.observed <= history[i].decided

(* A key has at most one transition, also when two requests with it are in  *)
(* flight and neither found a receipt.                                      *)
OneTransitionPerKey == \A k \in Key : Cardinality(Recorded(k)) <= 1

(* What apply and record_completion wrote can always be appended to: it is  *)
(* well formed, replays, runs forward in time and has one transition per    *)
(* idempotency key.                                                         *)
HistoryIsSound == TypeOK /\ HistoryVerifies /\ DecisionsAreOrdered /\ OneTransitionPerKey

(* A rearm has been earned: every blocker disposed of, the last attempt of  *)
(* a drain or flatten completed, and no attempt repeated without a failure. *)
RearmIsEarned == RearmDisposesAll /\ RearmFollowsCompletion /\ AttemptsFollowFailures
=============================================================================
