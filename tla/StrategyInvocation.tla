------------------------- MODULE StrategyInvocation -------------------------
(***************************************************************************)
(* Supervised strategy runs and their durable claims                       *)
(* (packages/domain/strategy_invocation_lifecycle.py and                   *)
(* strategy_supervision_control.py, packages/persistence/                  *)
(* strategy_invocation_lifecycle.py and strategy_supervision.py,           *)
(* packages/application/durable_supervised_strategy.py and                 *)
(* supervised_strategy.py).                                                *)
(*                                                                         *)
(* A supervisor claims an invocation, turns the permit of a new claim into *)
(* a start authorization, checks the clock, spawns one child, and records  *)
(* its result.  A claim without a result is never run again: from its      *)
(* recovery instant on it is recorded as interrupted.  A failed result     *)
(* pauses the account in the same transaction.  Each transaction, the      *)
(* start check, the spawn and the end of the child are steps of their own, *)
(* and a supervisor may stop for any time, or for good, between two.       *)
(***************************************************************************)
EXTENDS Integers, FiniteSets

CONSTANTS
    Supervisor,      \* concurrent callers of one account, threads or processes
    Invocation,      \* strategy invocations of the account
    StartWindow,     \* 1 second
    DecisionWindow,  \* 5 seconds
    CleanupWindow,   \* 3 seconds
    LeaseTtl,        \* length of an account lease
    MaxTime,         \* bound: the clock; no claim is due beyond it
    MaxGeneration,   \* bound: lease generations; the last is not released
    MaxCrashes,      \* bound: crashes of supervisors
    MaxCommands      \* bound: control commands of others

ASSUME WindowAssumption ==
    /\ StartWindow \in Nat \ {0} /\ DecisionWindow \in Nat \ {0}
    /\ CleanupWindow \in Nat \ {0}
ASSUME BoundAssumption ==
    /\ LeaseTtl \in Nat /\ MaxTime \in Nat /\ MaxGeneration \in Nat
    /\ MaxCrashes \in Nat /\ MaxCommands \in Nat

VARIABLES
    now,       \* the trusted clock
    lease,     \* the account's lease head
    fences,    \* the generation each supervisor was granted
    control,   \* the account's control head, and when it was last rearmed
    claims,    \* claim of each invocation
    finals,    \* result and finalization of each invocation, one transaction
    starts,    \* children spawned for each invocation
    supers,    \* what each supervisor is doing
    crashes,   \* crashes so far
    commands   \* commands of others so far

store == <<lease, control, claims, finals>>
vars == <<now, store, fences, starts, supers, crashes, commands>>

Running == 0
Paused == 1
Halted == 4
None == [none |-> TRUE]
Idle == [stage |-> "idle"]
Instant == 0..MaxTime
Generation == 0..MaxGeneration

-----------------------------------------------------------------------------
(* A fence that revalidates now.                                            *)
Holds(g) == lease.active /\ lease.generation = g /\ now < lease.expires

Recoverable(claimed) == claimed + StartWindow + DecisionWindow + CleanupWindow

(* StrategyInvocationClaim and StrategyInvocationStartAuthorization: the    *)
(* lease outlives the whole window of the claim.                            *)
CoversWindow(claimed) == Recoverable(claimed) < lease.expires

StartDeadline(i) == claims[i].claimed + StartWindow
Due(i) == now >= Recoverable(claims[i].claimed)
Pending(i) == claims[i] # None /\ finals[i] = None

(* interrupted_strategy_supervision_result                                  *)
Interrupted(i) ==
    [outcome |-> "interrupted", started |-> claims[i].claimed,
     completed |-> Recoverable(claims[i].claimed)]

Failed(result) == result.outcome # "completed"

-----------------------------------------------------------------------------
Init ==
    /\ now = 0
    /\ lease = [generation |-> 0, active |-> FALSE, expires |-> 0]
    /\ fences = [s \in Supervisor |-> 0]
    /\ control = [state |-> Running, decided |-> 0, rearmed |-> 0]
    /\ claims = [i \in Invocation |-> None]
    /\ finals = [i \in Invocation |-> None]
    /\ starts = [i \in Invocation |-> 0]
    /\ supers = [s \in Supervisor |-> Idle]
    /\ crashes = 0
    /\ commands = 0

Tick ==
    /\ now < MaxTime
    /\ now' = now + 1
    /\ UNCHANGED <<store, fences, starts, supers, crashes, commands>>

(* The coordinator grants the next generation when no lease is active.      *)
Acquire(s) ==
    /\ ~lease.active
    /\ lease.generation < MaxGeneration
    /\ lease' = [generation |-> lease.generation + 1, active |-> TRUE,
                 expires |-> now + LeaseTtl]
    /\ fences' = [fences EXCEPT ![s] = lease.generation + 1]
    /\ UNCHANGED <<now, control, claims, finals, starts, supers, crashes, commands>>

(* Another caller of the lease's owner is given the same fence.             *)
Join(s) ==
    /\ lease.active /\ now < lease.expires
    /\ fences[s] # lease.generation
    /\ fences' = [fences EXCEPT ![s] = lease.generation]
    /\ UNCHANGED <<now, store, starts, supers, crashes, commands>>

(* A lease that outlives the clock's bound is not renewed.                  *)
Renew(s) ==
    /\ Holds(fences[s])
    /\ now + LeaseTtl > lease.expires /\ lease.expires <= MaxTime
    /\ lease' = [lease EXCEPT !.expires = now + LeaseTtl]
    /\ UNCHANGED <<now, fences, control, claims, finals, starts, supers, crashes, commands>>

Release(s) ==
    /\ Holds(fences[s])
    /\ lease.generation < MaxGeneration
    /\ lease' = [lease EXCEPT !.active = FALSE]
    /\ UNCHANGED <<now, fences, control, claims, finals, starts, supers, crashes, commands>>

(* An operator or another breaker decides a new head; Running is a rearm.   *)
Command(state) ==
    /\ commands < MaxCommands
    /\ commands' = commands + 1
    /\ IF state = Running
       THEN /\ control.state # Running
            /\ control' = [state |-> Running, decided |-> now, rearmed |-> now]
       ELSE control' = [control EXCEPT !.state = IF @ > state THEN @ ELSE state,
                                       !.decided = now]
    /\ UNCHANGED <<now, lease, claims, finals, fences, starts, supers, crashes>>

-----------------------------------------------------------------------------
Becomes(s, next) == supers' = [supers EXCEPT ![s] = next]
OnlySupers == UNCHANGED <<now, store, fences, starts, crashes, commands>>

(* apply_operational_control_command refuses a trip requested before the    *)
(* head was decided; the trip of a result is requested at its completion.   *)
Recordable(result) == Failed(result) => result.completed >= control.decided

Tripped == [control EXCEPT !.state = IF @ > Paused THEN @ ELSE Paused, !.decided = now]

(* record_strategy_supervision_in_transaction and _insert_finalization.     *)
Record(s, i, result) ==
    /\ Recordable(result)
    /\ finals' = [finals EXCEPT ![i] =
          [result |-> result, recorded |-> now, generation |-> supers[s].fence]]
    /\ control' = IF Failed(result) THEN Tripped ELSE control
    /\ UNCHANGED <<now, lease, claims, fences, starts, crashes, commands>>

(* claim of an unseen invocation.                                           *)
NewClaim(i, g) ==
    /\ claims[i] = None
    /\ control.state = Running
    /\ CoversWindow(now)

(* run_durable_supervised_strategy_once up to the commit of its claim.  The *)
(* permit exists only in the process that made the claim.  A final claim    *)
(* returns its result and a refusal raises: neither changes anything.       *)
Claim(s, i) ==
    LET g == fences[s]
    IN  /\ supers[s] = Idle
        /\ Holds(g)
        /\ NewClaim(i, g)
        /\ Recoverable(now) <= MaxTime
        /\ claims' = [claims EXCEPT ![i] = [claimed |-> now, generation |-> g]]
        /\ Becomes(s, [stage |-> "permit", i |-> i, fence |-> g])
        /\ UNCHANGED <<now, lease, control, finals, fences, starts, crashes, commands>>

(* Mutation: a retained claim gives its caller a permit again.              *)
RetainReissues(s, i) ==
    /\ supers[s] = Idle
    /\ Holds(fences[s])
    /\ Pending(i)
    /\ Becomes(s, [stage |-> "permit", i |-> i, fence |-> fences[s]])
    /\ OnlySupers

(* claim of a retained pending invocation, or a page of scan_due_claims.    *)
Retain(s, i) ==
    /\ supers[s] = Idle
    /\ Holds(fences[s])
    /\ Pending(i)
    /\ Becomes(s, [stage |-> "recover", i |-> i, fence |-> fences[s]])
    /\ OnlySupers

(* authorize_start that returns an authorization.                           *)
MayStart(i) ==
    /\ now < StartDeadline(i)
    /\ control.state = Running
    /\ CoversWindow(claims[i].claimed)

(* authorize_start: the permit is consumed whatever happens then.           *)
Authorize(s) ==
    LET c == supers[s] i == supers[s].i
    IN  /\ c.stage = "permit"
        /\ \/ /\ Holds(c.fence) /\ Pending(i) /\ MayStart(i)
              /\ Becomes(s, [stage |-> "authorized", i |-> i, fence |-> c.fence, at |-> now])
              /\ OnlySupers
           \/ /\ Holds(c.fence) /\ Pending(i) /\ Due(i) /\ Record(s, i, Interrupted(i))
              /\ Becomes(s, Idle)
           \/ /\ ~(Holds(c.fence) /\ Pending(i)
                     /\ (MayStart(i) \/ (Due(i) /\ Recordable(Interrupted(i)))))
              /\ Becomes(s, Idle)
              /\ OnlySupers

-----------------------------------------------------------------------------
Result(outcome, started) == [outcome |-> outcome, started |-> started, completed |-> now]

(* _validate_runner_result: a result outside the claim's window is dropped. *)
Returned(s, result) ==
    Becomes(s, IF result.completed < Recoverable(claims[supers[s].i].claimed)
               THEN [stage |-> "result", i |-> supers[s].i, fence |-> supers[s].fence,
                     result |-> result]
               ELSE Idle)

InStartWindow(c) == c.at <= now /\ now < StartDeadline(c.i)

(* run_supervised_strategy up to Popen: the authorization is consumed, the  *)
(* request encoded, the clocks read and the start window checked.           *)
Prepare(s) ==
    LET c == supers[s]
    IN  /\ c.stage = "authorized"
        /\ \/ /\ InStartWindow(c)
              /\ Becomes(s, [stage |-> "spawn", i |-> c.i, fence |-> c.fence, started |-> now])
           \/ InStartWindow(c) /\ Returned(s, Result("failed", now))
           \/ ~InStartWindow(c) /\ Becomes(s, Idle)
        /\ OnlySupers

(* Popen, or its failure.                                                   *)
Spawn(s) ==
    LET c == supers[s]
    IN  /\ c.stage = "spawn"
        /\ \/ /\ starts' = [starts EXCEPT ![c.i] = @ + 1]
              /\ Becomes(s, [c EXCEPT !.stage = "running"])
           \/ /\ UNCHANGED starts
              /\ Returned(s, Result("failed", c.started))
        /\ UNCHANGED <<now, store, fences, crashes, commands>>

(* What the runner may report when it has reaped the child; past the        *)
(* absolute cleanup deadline it only raises.                                *)
Outcomes(elapsed) ==
    IF elapsed < DecisionWindow THEN {"completed", "failed"}
    ELSE IF elapsed < DecisionWindow + CleanupWindow THEN {"failed"} ELSE {}

(* The child answered, failed or was killed, and is reaped; or its pipes or *)
(* its cleanup failed and the runner raises.                                *)
Reap(s) ==
    LET c == supers[s] outcomes == Outcomes(now - supers[s].started)
    IN  /\ c.stage = "running"
        /\ \/ \E outcome \in outcomes : Returned(s, Result(outcome, c.started))
           \/ Becomes(s, Idle)
        /\ OnlySupers

-----------------------------------------------------------------------------
(* finalize: a retained result answers or raises, a late one raises.        *)
Finalizable(c) == Holds(c.fence) /\ Pending(c.i) /\ ~Due(c.i)

Finalize(s) ==
    LET c == supers[s]
    IN  /\ c.stage = "result"
        /\ \/ Finalizable(c) /\ Record(s, c.i, c.result)
           \/ ~(Finalizable(c) /\ Recordable(c.result)) /\ OnlySupers
        /\ Becomes(s, Idle)

(* Mutation: a claim that is due is recovered although it has its result.   *)
RecoverableNowAgain(c) == Holds(c.fence) /\ claims[c.i] # None /\ Due(c.i)

(* Mutation: recovery too requires RUNNING control.                         *)
RecoverableNowRunning(c) ==
    Holds(c.fence) /\ Pending(c.i) /\ Due(c.i) /\ control.state = Running

(* recover: before the recovery instant the claim stays pending.            *)
RecoverableNow(c) == Holds(c.fence) /\ Pending(c.i) /\ Due(c.i)

Recover(s) ==
    LET c == supers[s]
    IN  /\ c.stage = "recover"
        /\ \/ RecoverableNow(c) /\ Record(s, c.i, Interrupted(c.i))
           \/ ~(RecoverableNow(c) /\ Recordable(Interrupted(c.i))) /\ OnlySupers
        /\ Becomes(s, Idle)

(* The process dies, or the answer of its transaction is lost and the call  *)
(* raises.  A child it has spawned goes on without it.                      *)
Crash(s) ==
    /\ crashes < MaxCrashes
    /\ supers[s] # Idle
    /\ crashes' = crashes + 1
    /\ Becomes(s, Idle)
    /\ UNCHANGED <<now, store, fences, starts, commands>>

Step(s) == Authorize(s) \/ Prepare(s) \/ Spawn(s) \/ Reap(s) \/ Finalize(s) \/ Recover(s)

Next ==
    \/ Tick
    \/ \E state \in {Running, Paused, Halted} : Command(state)
    \/ \E s \in Supervisor :
         \/ Acquire(s) \/ Join(s) \/ Renew(s) \/ Release(s) \/ Crash(s) \/ Step(s)
         \/ \E i \in Invocation : Claim(s, i) \/ Retain(s, i)

Spec == Init /\ [][Next]_vars

(* The clock runs, a started call ends, and a supervisor holds the account  *)
(* and goes on asking for each unfinished invocation.                       *)
FairSpec ==
    /\ Spec
    /\ WF_vars(Tick)
    /\ WF_vars(\E s \in Supervisor : Acquire(s))
    /\ \A s \in Supervisor :
         /\ WF_vars(Step(s))
         /\ \A i \in Invocation : SF_vars(Retain(s, i) /\ Due(i))

-----------------------------------------------------------------------------
ResultRecord == [outcome : {"completed", "failed", "interrupted"}, started : Instant,
                 completed : Instant]
Call ==
    {Idle}
      \union [stage : {"permit", "recover"}, i : Invocation, fence : Generation]
      \union [stage : {"authorized"}, i : Invocation, fence : Generation, at : Instant]
      \union [stage : {"spawn", "running"}, i : Invocation, fence : Generation, started : Instant]
      \union [stage : {"result"}, i : Invocation, fence : Generation, result : ResultRecord]

LeaseRow == [generation : Generation, active : BOOLEAN, expires : Nat]
ControlRow == [state : Running..Halted, decided : Instant, rearmed : Instant]
ClaimRow == [claimed : Instant, generation : Generation]
FinalRow == [result : ResultRecord, recorded : Instant, generation : Generation]

(* Types of the rows and of what a supervisor holds; a result recorded for  *)
(* a claim completes no later than the clock's last instant.                *)
TypeOK ==
    /\ now \in Instant
    /\ lease \in LeaseRow
    /\ fences \in [Supervisor -> Generation]
    /\ control \in ControlRow
    /\ claims \in [Invocation -> {None} \union ClaimRow]
    /\ finals \in [Invocation -> {None} \union FinalRow]
    /\ starts \in [Invocation -> Nat]
    /\ supers \in [Supervisor -> Call]
    /\ crashes \in 0..MaxCrashes /\ commands \in 0..MaxCommands

(* However callers, retries, lost answers, handovers of the account and     *)
(* crashes interleave, an invocation spawns at most one child.              *)
AtMostOneChild == \A i \in Invocation : starts[i] <= 1

(* _verify_strategy_invocation_lifecycle_integrity accepts what claim,      *)
(* authorize_start, finalize and recover have written: every result has its *)
(* claim, lies in the claim's window, was recorded after it completed, and  *)
(* only the interruption completes at the recovery instant.                 *)
HistoryVerifies ==
    \A i \in Invocation : finals[i] # None =>
        LET result == finals[i].result
        IN  /\ claims[i] # None
            /\ claims[i].claimed <= result.started
            /\ result.completed <= Recoverable(claims[i].claimed)
            /\ result.completed = Recoverable(claims[i].claimed) => result = Interrupted(i)
            /\ result.completed <= finals[i].recorded

(* A completed result is that of the one child of the invocation, and was   *)
(* recorded before any recovery could have called it interrupted; an        *)
(* interruption was recorded when no timely result could follow.            *)
WindowDecides ==
    \A i \in Invocation : finals[i] # None =>
        IF finals[i].result.outcome = "interrupted"
        THEN finals[i].recorded >= Recoverable(claims[i].claimed)
        ELSE /\ finals[i].recorded < Recoverable(claims[i].claimed)
             /\ finals[i].result.outcome = "completed" =>
                  /\ starts[i] = 1
                  /\ finals[i].result.completed - finals[i].result.started < DecisionWindow

(* While a supervised child runs inside its claim's window, the lease of    *)
(* the claim's generation has not run out: only a release hands the account *)
(* over under a running strategy.                                           *)
LeaseCoversChild ==
    \A s \in Supervisor :
        LET c == supers[s]
        IN  (c.stage = "running" /\ now < Recoverable(claims[c.i].claimed)
               /\ lease.generation = c.fence) => now < lease.expires

(* A failed or interrupted result recorded since the last rearm keeps the   *)
(* account out of RUNNING.                                                  *)
FailureHolds ==
    \A i \in Invocation :
        (finals[i] # None /\ Failed(finals[i].result) /\ finals[i].recorded > control.rearmed)
            => control.state # Running

(* A recorded result is never replaced: a late finalize, a second recovery  *)
(* and a late authorize_start find it and leave it.                         *)
ResultIsForever ==
    [][\A i \in Invocation : finals[i] # None => finals'[i] = finals[i]]_vars

(* Every claim gets its result, unless a later decision of the account's    *)
(* control overtakes its recovery instant before it is recovered, or the    *)
(* account's lease runs out.                                                *)
EveryClaimEndsUnlessOvertaken ==
    \A i \in Invocation :
        claims[i] # None ~>
            \/ finals[i] # None
            \/ lease.active /\ now >= lease.expires
            \/ claims[i] # None /\ control.decided > Recoverable(claims[i].claimed)

(* The results that were recorded verify, were decided by their windows and *)
(* hold the account where they failed; no child outlives its lease.         *)
ResultsAreSound ==
    TypeOK /\ HistoryVerifies /\ WindowDecides /\ FailureHolds /\ LeaseCoversChild

(* Results are sound when they are recorded and stay as they are.           *)
ResultsStand == []ResultsAreSound /\ ResultIsForever
=============================================================================
