------------------------------ MODULE ResearchJob ------------------------------
(***************************************************************************)
(* Durable research jobs and their workers (packages/domain/               *)
(* research_job_v2.py, packages/persistence/research_workflow_v2.py,       *)
(* packages/application/research_worker_v2.py, apps/worker/                *)
(* research_jobs.py and research_runner.py).                               *)
(*                                                                         *)
(* A job is an append-only chain of events with a head; the record here is *)
(* what reduce_research_job computes from the chain.  A worker process per *)
(* host claims a job under a lease, renews it from the supervisor loop     *)
(* while a child computes, and publishes or closes the attempt.  Every     *)
(* command is one write transaction, whose answer may be lost.  Database   *)
(* time is kept relative to each job: `left` is what remains of its lease, *)
(* `lag` how far its last event lies ahead of the clock.                   *)
(***************************************************************************)
EXTENDS Integers, Sequences, FiniteSets

CONSTANTS
    Job,           \* accepted requests
    Host,          \* hosts, each with one process guard
    Key,           \* idempotency keys of cancellations
    Lease,         \* LEASE_SECONDS
    MaxAttempts,   \* MAX_ATTEMPTS
    MaxEvents,     \* MAX_JOB_EVENTS
    MaxRenewals,   \* bound: renewals while a child runs (its wall limit over the heartbeat)
    MaxTroubles    \* bound: crashes, SIGTERMs, database calls that fail or whose
                   \* answer is lost, and backward steps of the database clock

ASSUME LeaseAssumption == Lease \in Nat \ {0} /\ MaxAttempts \in Nat \ {0} /\ MaxEvents \in Nat \ {0}
ASSUME BoundAssumption == IsFiniteSet(Job) /\ MaxRenewals \in Nat /\ MaxTroubles \in Nat

VARIABLES
    queue,      \* accepted jobs, in the order of (requested_at, job_id)
    jobs,       \* the state of each job
    workers,    \* the worker process of each host
    children,   \* computing children on each host
    troubles    \* how many so far

vars == <<queue, jobs, workers, children, troubles>>

None == [none |-> TRUE]
Terminal == {"completed", "incomplete", "failed", "cancelled"}
Absent == [status |-> "absent", attempts |-> <<>>, claim |-> None, left |-> 0, lag |-> 0,
           cancel |-> FALSE, commands |-> {}, length |-> 0]
Down == [phase |-> "down"]
Idle == [phase |-> "idle", shut |-> FALSE]

Accepted(j) == jobs[j].status # "absent"

-----------------------------------------------------------------------------
(* The domain's transitions.                                                *)

(* _append: the chain takes one more event at the clock.                    *)
Appended(s) == [s EXCEPT !.length = @ + 1, !.lag = 0]

(* The chain may grow from s to t: bounded, and time may not regress.       *)
CanAppend(s, t) == t.length <= MaxEvents /\ s.lag <= 0

(* require_claim: exact claim, half-open lease, no regressed clock.         *)
RequireClaim(s, claim) == s.claim = claim /\ s.status = "running" /\ s.left > 0 /\ s.lag <= 0

(* An abandoned attempt leaves the job to the next worker.                  *)
ClosedStatus(outcome) == IF outcome = "abandoned" THEN "queued" ELSE outcome

(* _apply of the event that closes an attempt.                              *)
Closed(s, outcome) ==
    Appended([s EXCEPT !.status = ClosedStatus(outcome), !.claim = None, !.left = 0,
                       !.attempts[Len(s.attempts)] = outcome])

ClaimedSameFence(s) ==
    Appended([s EXCEPT !.status = "running", !.claim = [fence |-> 1, revision |-> 0],
                       !.left = Lease, !.attempts = Append(@, "running")])

(* claim_research_job                                                       *)
Claimed(s) ==
    Appended([s EXCEPT !.status = "running",
                       !.claim = [fence |-> Len(s.attempts) + 1, revision |-> 0],
                       !.left = Lease, !.attempts = Append(@, "running")])

(* renew_research_claim                                                     *)
Renewed(s) == Appended([s EXCEPT !.claim.revision = @ + 1, !.left = Lease])

(* cancel_research_job: at once in the queue, an intent while it runs.      *)
CancelRequested(s, key) ==
    IF key \in s.commands \/ s.status \notin {"queued", "running"}
    THEN s
    ELSE Appended([s EXCEPT !.status = IF @ = "queued" THEN "cancelled" ELSE @,
                            !.cancel = TRUE, !.commands = @ \union {key}])

(* recover_research_job, of a job whose lease has expired or that is queued *)
Recovered(s) ==
    LET closed == IF s.claim = None THEN s
                  ELSE Closed(s, IF s.cancel THEN "cancelled" ELSE "abandoned")
    IN  IF closed.status = "queued" /\ Len(closed.attempts) = MaxAttempts
        THEN Appended([closed EXCEPT !.status = "failed"])
        ELSE closed

-----------------------------------------------------------------------------
Init ==
    /\ queue = <<>>
    /\ jobs = [j \in Job |-> Absent]
    /\ workers = [w \in Host |-> Down]
    /\ children = [w \in Host |-> 0]
    /\ troubles = 0

(* launch_in_transaction; the same request again returns the accepted job.  *)
Launch(j) ==
    /\ ~Accepted(j)
    /\ jobs' = [jobs EXCEPT ![j] = Appended([@ EXCEPT !.status = "queued"])]
    /\ queue' = Append(queue, j)
    /\ UNCHANGED <<workers, children, troubles>>

(* request_cancel                                                           *)
RequestCancel(j, key) ==
    LET after == CancelRequested(jobs[j], key)
    IN  /\ Accepted(j)
        /\ after # jobs[j]
        /\ CanAppend(jobs[j], after)
        /\ jobs' = [jobs EXCEPT ![j] = after]
        /\ UNCHANGED <<queue, workers, children, troubles>>

Atleast(n, low) == IF n < low THEN low ELSE n
Shifted(s, d) ==
    [s EXCEPT !.left = IF s.claim = None THEN 0 ELSE Atleast(@ + d, -MaxTroubles),
              !.lag = IF s.status \in Terminal \union {"absent"} THEN 0 ELSE Atleast(@ + d, -MaxTroubles)]

(* The database clock advances.                                             *)
Tick ==
    /\ jobs' = [j \in Job |-> Shifted(jobs[j], -1)]
    /\ UNCHANGED <<queue, workers, children, troubles>>

(* The database clock is set back.                                          *)
SetBack ==
    /\ troubles < MaxTroubles
    /\ troubles' = troubles + 1
    /\ jobs' = [j \in Job |-> Shifted(jobs[j], 1)]
    /\ UNCHANGED <<queue, workers, children>>

-----------------------------------------------------------------------------
(* A worker process.                                                        *)

Become(w, state) == workers' = [workers EXCEPT ![w] = state]
Finishing(w, stopped) == [workers[w] EXCEPT !.phase = "finishing", !.stopped = stopped]
At(w, phase) == workers[w].phase = phase

(* process_one_research_job returns; --once and --max-jobs end the process. *)
Return(w) ==
    \/ Become(w, [Idle EXCEPT !.shut = workers[w].shut])
    \/ Become(w, Down)

(* A write transaction whose effect is `after`: it answers, it fails, or it *)
(* commits and the answer is lost.                                          *)
Call(after, answered, failed) ==
    \/ jobs' = after /\ answered /\ UNCHANGED troubles
    \/ /\ troubles < MaxTroubles
       /\ troubles' = troubles + 1
       /\ jobs' \in {jobs, after}
       /\ failed

(* _work: the process guard is taken before any job is claimed, and a child *)
(* that outlived its parent still holds it.                                 *)
Start(w) ==
    /\ At(w, "down")
    /\ children[w] = 0
    /\ Become(w, Idle)
    /\ UNCHANGED <<queue, jobs, children, troubles>>

(* SIGTERM or SIGINT                                                        *)
Signal(w) ==
    /\ troubles < MaxTroubles
    /\ ~At(w, "down") /\ ~workers[w].shut
    /\ troubles' = troubles + 1
    /\ workers' = [workers EXCEPT ![w].shut = TRUE]
    /\ UNCHANGED <<queue, jobs, children>>

(* The loop of _work sees the signal.                                       *)
Stop(w) ==
    /\ At(w, "idle") /\ workers[w].shut
    /\ Become(w, Down)
    /\ UNCHANGED <<queue, jobs, children, troubles>>

Crash(w) ==
    /\ troubles < MaxTroubles
    /\ ~At(w, "down")
    /\ troubles' = troubles + 1
    /\ Become(w, Down)
    /\ UNCHANGED <<queue, jobs, children>>

(* A child notices that its parent is gone.                                 *)
OrphanExits(w) ==
    /\ At(w, "down") /\ children[w] > 0
    /\ children' = [children EXCEPT ![w] = @ - 1]
    /\ UNCHANGED <<queue, jobs, workers, troubles>>

-----------------------------------------------------------------------------
(* claim_next                                                               *)

ClaimableQueued(j) == jobs[j].status = "queued"

Claimable(j) == jobs[j].status = "queued" \/ (jobs[j].status = "running" /\ jobs[j].left <= 0)
Candidates == {k \in DOMAIN queue : Claimable(queue[k])}
Hits == {k \in Candidates : Recovered(jobs[queue[k]]).status = "queued"}
(* The jobs the loop visits: to the first that is queued once recovered.    *)
Visited == {queue[k] : k \in {c \in Candidates : \A hit \in Hits : c <= hit}}
Granted == {queue[k] : k \in {c \in Hits : \A hit \in Hits : c <= hit}}
Swept == [j \in Job |-> IF j \in Granted THEN Claimed(Recovered(jobs[j]))
                        ELSE IF j \in Visited THEN Recovered(jobs[j]) ELSE jobs[j]]

ClaimNext(w) ==
    /\ At(w, "idle") /\ ~workers[w].shut
    /\ IF \A j \in Visited : CanAppend(jobs[j], Swept[j])
       THEN Call(Swept,
                 IF Granted = {} THEN Return(w)
                 ELSE \E j \in Granted :
                        Become(w, [phase |-> "loading", shut |-> FALSE, stopped |-> "no",
                                   job |-> j, claim |-> Swept[j].claim, result |-> "none"]),
                 Become(w, Down))
       ELSE Become(w, Down) /\ UNCHANGED <<jobs, troubles>>
    /\ UNCHANGED <<queue, children>>

-----------------------------------------------------------------------------
(* control: a stop that was asked for, else a heartbeat, which tells of a   *)
(* cancellation and, when it fails in any way, of a lost lease.             *)
Control(w, next) ==
    LET s == jobs[workers[w].job]
        t == Renewed(s)
    IN  IF workers[w].shut
        THEN Become(w, Finishing(w, "shutdown")) /\ UNCHANGED <<jobs, troubles>>
        ELSE IF RequireClaim(s, workers[w].claim) /\ CanAppend(s, t)
        THEN Call([jobs EXCEPT ![workers[w].job] = t],
                  Become(w, [IF s.cancel THEN Finishing(w, "cancel_requested") ELSE next
                               EXCEPT !.claim = t.claim]),
                  Become(w, Finishing(w, "lease_lost")))
        ELSE Become(w, Finishing(w, "lease_lost")) /\ UNCHANGED <<jobs, troubles>>

(* The same stage within the heartbeat interval: only the stop is looked at *)
Throttled(w, next) == ~workers[w].shut /\ Become(w, next) /\ UNCHANGED <<jobs, troubles>>

Stage(w, phase) == [workers[w] EXCEPT !.phase = phase]
Spawned(w) == IF workers'[w].phase = "running" THEN children[w] + 1 ELSE children[w]
Reaped(w) == IF workers'[w].phase = "running" THEN children[w] ELSE children[w] - 1

(* The first control always heartbeats; then the child is started.          *)
Load(w) ==
    /\ At(w, "loading")
    /\ Control(w, Stage(w, "running"))
    /\ children' = [children EXCEPT ![w] = Spawned(w)]
    /\ UNCHANGED <<queue>>

(* The supervisor polls while the child runs; a stop ends and reaps it.     *)
Poll(w) ==
    /\ At(w, "running")
    /\ workers[w].claim.revision < MaxRenewals \/ workers[w].shut
    /\ Control(w, workers[w])
    /\ children' = [children EXCEPT ![w] = Reaped(w)]
    /\ UNCHANGED <<queue>>

(* The child ends: with a report, or failed, killed or out of resources.    *)
RunEnds(w) ==
    /\ At(w, "running")
    /\ \E result \in {"completed", "incomplete", "failed"} :
         Become(w, [workers[w] EXCEPT !.phase = "validating", !.result = result])
    /\ children' = [children EXCEPT ![w] = @ - 1]
    /\ UNCHANGED <<queue, jobs, troubles>>

Validate(w) ==
    LET next == IF workers[w].result = "failed" THEN Finishing(w, "no") ELSE Stage(w, "publishing")
    IN  /\ At(w, "validating")
        /\ Control(w, next) \/ Throttled(w, next)
        /\ UNCHANGED <<queue, children>>

Prepare(w) ==
    /\ At(w, "publishing")
    /\ Control(w, Stage(w, "committing")) \/ Throttled(w, Stage(w, "committing"))
    /\ UNCHANGED <<queue, children>>

(* publish_research_attempt and the terminal branch of _apply               *)
Publishable(s, t, claim) == RequireClaim(s, claim) /\ ~s.cancel /\ CanAppend(s, t)

(* publish; any refusal or error closes the attempt as failed.              *)
Publish(w) ==
    LET s == jobs[workers[w].job]
        t == Closed(s, workers[w].result)
        failed == Become(w, Finishing(w, "no"))
    IN  /\ At(w, "committing")
        /\ IF Publishable(s, t, workers[w].claim)
           THEN Call([jobs EXCEPT ![workers[w].job] = t], Return(w), failed)
           ELSE failed /\ UNCHANGED <<jobs, troubles>>
        /\ UNCHANGED <<queue, children>>

FinishOutcomeAsAsked(s, stopped) == IF stopped = "shutdown" THEN "abandoned" ELSE "failed"

(* finish and finish_research_attempt: an owner's cancellation wins.        *)
FinishOutcome(s, stopped) ==
    IF s.cancel THEN "cancelled" ELSE IF stopped = "shutdown" THEN "abandoned" ELSE "failed"

(* A lost lease is only read back.  A full chain, or a failed call, ends    *)
(* the process.                                                             *)
Finish(w) ==
    LET s == jobs[workers[w].job]
        t == Closed(s, FinishOutcome(s, workers[w].stopped))
    IN  /\ At(w, "finishing")
        /\ IF workers[w].stopped = "lease_lost" \/ ~RequireClaim(s, workers[w].claim)
           THEN Return(w) /\ UNCHANGED <<jobs, troubles>>
           ELSE IF CanAppend(s, t)
           THEN Call([jobs EXCEPT ![workers[w].job] = t], Return(w), Become(w, Down))
           ELSE Become(w, Down) /\ UNCHANGED <<jobs, troubles>>
        /\ UNCHANGED <<queue, children>>

-----------------------------------------------------------------------------
Step(w) ==
    \/ Start(w) \/ Stop(w) \/ OrphanExits(w) \/ ClaimNext(w) \/ Load(w) \/ Poll(w)
    \/ RunEnds(w) \/ Validate(w) \/ Prepare(w) \/ Publish(w) \/ Finish(w)

Next ==
    \/ Tick \/ SetBack
    \/ \E j \in Job : Launch(j) \/ \E key \in Key : RequestCancel(j, key)
    \/ \E w \in Host : Step(w) \/ Signal(w) \/ Crash(w)

Spec == Init /\ [][Next]_vars

(* Time passes, and every worker process is restarted and keeps working.    *)
FairSpec == Spec /\ WF_vars(Tick) /\ \A w \in Host : WF_vars(Step(w))

-----------------------------------------------------------------------------
ClaimType == {None} \union [fence : 1..MaxAttempts, revision : 0..(MaxRenewals + 3)]
Outcome == Terminal \union {"running", "abandoned"}

TypeOK ==
    /\ queue \in Seq(Job) /\ Len(queue) = Cardinality({j \in Job : Accepted(j)})
    /\ \A j \in Job :
         /\ jobs[j].status \in Terminal \union {"absent", "queued", "running"}
         /\ jobs[j].attempts \in Seq(Outcome) /\ Len(jobs[j].attempts) <= MaxAttempts
         /\ jobs[j].claim \in ClaimType /\ (jobs[j].claim = None <=> jobs[j].status # "running")
         /\ jobs[j].left \in -MaxTroubles..(Lease + MaxTroubles) /\ jobs[j].lag \in -MaxTroubles..MaxTroubles
         /\ jobs[j].commands \subseteq Key /\ jobs[j].length \in 0..MaxEvents
    /\ \A w \in Host : children[w] \in Nat

(* A host never computes twice at a time: a child that outlived its crashed *)
(* parent keeps the inherited process guard until it notices                *)
(* (apps/worker/research_jobs.py _work, personal_research.py _supervise).   *)
SingleChild == \A w \in Host : children[w] <= 1

(* The retained attempts tell what happened: every attempt before the last  *)
(* was abandoned, the last one agrees with the status of the job, and a job *)
(* that no worker failed is failed only after all its attempts were         *)
(* abandoned (recover_research_job).                                        *)
AttemptsTell ==
    \A j \in Job :
        LET s == jobs[j]
            n == Len(s.attempts)
        IN  /\ \A k \in 1..(n - 1) : s.attempts[k] = "abandoned"
            /\ s.status \in {"running", "completed", "incomplete"} =>
                 n > 0 /\ s.attempts[n] = s.status
            /\ s.status = "failed" =>
                 n > 0 /\ (s.attempts[n] = "failed" \/ (s.attempts[n] = "abandoned" /\ n = MaxAttempts))
            /\ s.status = "queued" => n = 0 \/ s.attempts[n] = "abandoned"

(* Two processes never hold the current claim of one job, although claims   *)
(* expire under a worker that still computes and answers of claim_next are  *)
(* lost.                                                                    *)
OneHolder ==
    \A j \in Job, v, w \in Host :
        (/\ v # w /\ jobs[j].claim # None
         /\ workers[v].phase \notin {"down", "idle"} /\ workers[w].phase \notin {"down", "idle"}
         /\ workers[v].job = j /\ workers[w].job = j)
            => ~(workers[v].claim = jobs[j].claim /\ workers[w].claim = jobs[j].claim)

(* Claims are exclusive: one holder of a job, one child on a host, and      *)
(* attempts that tell of each claim how it ended.                           *)
ClaimsAreExclusive == TypeOK /\ SingleChild /\ AttemptsTell /\ OneHolder

(* A worker whose claim was superseded, renewed without its knowledge or    *)
(* closed changes no job any more: neither its heartbeat, its failure nor   *)
(* its publication is accepted (require_claim).                             *)
StaleWorkerIsFenced ==
    [][\A w \in Host :
         (/\ workers[w].phase \notin {"down", "idle"}
          /\ workers'[w] # workers[w]
          /\ workers[w].claim # jobs[workers[w].job].claim) => jobs' = jobs]_vars

(* The job's owner sees one terminal decision that never changes, and a     *)
(* recorded cancellation decides it, whatever workers, crashes and lost     *)
(* answers do (wave3-jobs.md, ordering rules 4, 7 and 8).                   *)
Decision(j) ==
    IF jobs[j].status \in {"queued", "running"}
    THEN IF jobs[j].cancel THEN "cancelling" ELSE "open"
    ELSE jobs[j].status
Promise == INSTANCE ResearchDecision WITH decision <- [j \in Job |-> Decision(j)]
KeepsPromise == Promise!Spec

(* Every accepted job reaches a terminal status: lost leases, shutdowns and *)
(* crashes use up the attempts.                                             *)
EveryJobEnds == \A j \in Job : Accepted(j) ~> jobs[j].status \in Terminal
=============================================================================
