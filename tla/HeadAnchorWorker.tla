--------------------------- MODULE HeadAnchorWorker ---------------------------
(***************************************************************************)
(* The scheduling of head-anchor attempts in a trusted-time supervisor.    *)
(*                                                                         *)
(* Two threads share TrustedTimeHeadAnchorWorkerCore under one condition   *)
(* (apps/trusted_time_supervisor/head_anchor_worker.py): the supervisor's  *)
(* main thread registers probes and asks for the clean stop, the           *)
(* background thread takes one request at a time, runs the attempt outside *)
(* the lock and records its result.  What an attempt does is the subject   *)
(* of HeadAnchor; here it succeeds, fails for the moment or fails for      *)
(* good.                                                                   *)
(*                                                                         *)
(* Time is relative: a deadline is the number of ticks until it is         *)
(* reached.  A sleeping thread wakes when it is notified or when its       *)
(* timeout is over, so a missing notification is visible.                  *)
(***************************************************************************)
EXTENDS Integers, Sequences

CONSTANTS Interval,      \* ticks between two periodic checkpoints
          Retry,         \* ticks before a failed request is tried again
          Window,        \* ticks the startup checkpoint may take
          MaxVersions,   \* bound: probes appended to the journal
          MaxDemands,    \* bound: full audits asked for
          MaxFailures    \* bound: attempts that fail for the moment

ASSUME WorkerAssumption ==
  /\ Interval \in Nat \ {0} /\ Retry \in Nat \ {0} /\ Window \in Nat \ {0}
  /\ MaxVersions \in Nat /\ MaxDemands \in Nat /\ MaxFailures \in Nat

VARIABLES pending,    \* queued reasons
          flight,     \* the request being attempted
          retry,      \* the request to try again
          due,        \* ticks until it is tried again
          periodic,   \* ticks until the next point of the periodic grid
          startup,    \* the startup full audit has succeeded
          fatal,      \* the failure latch
          stopping,   \* a clean stop has been requested
          stopped,    \* the core takes no more work
          clean,      \* the clean stop has been confirmed
          gate,       \* the startup checkpoint as the main thread sees it
          window,     \* ticks left for it
          abort,      \* the background thread must end
          thread,     \* the background thread
          nap,        \* ticks until it wakes by itself
          main,       \* the main thread
          failures,   \* attempts that failed for the moment
          version,    \* transitions appended to the journal
          carried,    \* those the attempt in flight has seen
          anchored,   \* those a successful attempt has seen
          asked,      \* full audits asked for
          carrying,   \* those asked for before the attempt in flight
          audited     \* those a successful full audit has followed

core == << pending, flight, retry, due, periodic, startup, stopping, stopped, clean >>
control == << fatal, gate, window, abort, main >>
sleep == << thread, nap >>
counts == << failures, version, carried, anchored, asked, carrying, audited >>
vars == << core, control, sleep, counts >>

-----------------------------------------------------------------------------
(* The core *)

None == << >>

Request(reason, full) == [reason |-> reason, full |-> full]

Transitions == {"hard_failure", "recovery_transition", "health_transition"}
Reasons == Transitions \cup {"epoch_rotation", "periodic", "on_demand", "clean_stop"}
Requests == [reason : Reasons, full : BOOLEAN]

Forever == -1   \* no timeout

\* A reason is queued unless it is queued, waiting to be tried again or in
\* flight already.
Enqueued(r) ==
  IF \/ fatal \/ stopped \/ stopping
     \/ \E i \in DOMAIN pending : pending[i].reason = r.reason
     \/ retry # None /\ retry.reason = r.reason
     \/ flight # None /\ flight.reason = r.reason
  THEN pending ELSE Append(pending, r)

\* The request the core hands out, and what is left.
Take(r, left, again) ==
  [flight |-> r, pending |-> left, retry |-> again,
   periodic |-> periodic]

\* The periodic grid never moves: a late point is taken once, the next one is
\* the next multiple of the interval.
NextPoint == Interval - ((-periodic) % Interval)

\* Mutation: the queue comes before the retry of the startup request.
WorkQueueFirst ==
  IF pending # << >>
  THEN Take(Request(pending[1].reason, ~startup \/ pending[1].full), Tail(pending), retry)
  ELSE IF retry # None /\ due = 0
  THEN Take(retry, pending, None)
  ELSE IF periodic <= 0
  THEN [Take(Request("periodic", FALSE), pending, retry) EXCEPT !.periodic = NextPoint]
  ELSE None

\* Mutation: there is no periodic grid.
WorkOnRequest ==
  IF ~startup /\ retry # None
  THEN IF due > 0 THEN None
       ELSE Take(Request(retry.reason, TRUE), pending, None)
  ELSE IF pending # << >>
  THEN Take(Request(pending[1].reason, ~startup \/ pending[1].full), Tail(pending), retry)
  ELSE IF retry # None /\ due = 0
  THEN Take(retry, pending, None)
  ELSE None

\* take_work: the startup request and its retries first, then the queue, then
\* a retry that is due, then the periodic grid.
Work ==
  IF ~startup /\ retry # None
  THEN IF due > 0 THEN None
       ELSE Take(Request(retry.reason, TRUE), pending, None)
  ELSE IF pending # << >>
  THEN Take(Request(pending[1].reason, ~startup \/ pending[1].full), Tail(pending), retry)
  ELSE IF retry # None /\ due = 0
  THEN Take(retry, pending, None)
  ELSE IF periodic <= 0
  THEN [Take(Request("periodic", FALSE), pending, retry) EXCEPT !.periodic = NextPoint]
  ELSE None

\* next_wake_monotonic_ns
NextWake ==
  IF pending # << >> THEN 0
  ELSE IF retry # None /\ due < periodic THEN due
  ELSE IF periodic < 0 THEN 0 ELSE periodic

-----------------------------------------------------------------------------
(* Both threads *)

\* Condition.notify_all
Notify == thread' = (IF thread = "asleep" THEN "ready" ELSE thread) /\ nap' = 0

Init ==
  /\ pending = << Request("epoch_rotation", TRUE) >>
  /\ flight = None /\ retry = None /\ due = 0 /\ periodic = Interval
  /\ startup = FALSE /\ stopping = FALSE /\ stopped = FALSE /\ clean = FALSE
  /\ fatal = FALSE /\ abort = FALSE /\ window = Window
  /\ \/ gate = "waiting" /\ main = "starting"       \* require_startup_terminal
     \/ gate = "released" /\ main = "probing"
  /\ thread = "ready" /\ nap = 0
  /\ failures = 0 /\ version = 1 /\ carried = 0 /\ anchored = 0
  /\ asked = 0 /\ carrying = 0 /\ audited = 0

Over(n) == IF n > 0 THEN n - 1 ELSE n

\* A tick of the clock.
Tick ==
  /\ due' = Over(due) /\ window' = Over(window) /\ nap' = Over(nap)
  /\ periodic' = (IF periodic = 1 - Interval THEN 0 ELSE periodic - 1)
  /\ UNCHANGED << pending, flight, retry, startup, stopping, stopped, clean,
                  fatal, gate, abort, main, thread, counts >>

\* The timeout of a wait is over.
Wake ==
  /\ thread = "asleep" /\ nap = 0
  /\ thread' = "ready"
  /\ UNCHANGED << core, control, nap, counts >>

-----------------------------------------------------------------------------
(* The background thread *)

Ends == thread' = "gone" /\ nap' = 0

\* Mutation: the loop looks at the gate before it looks at the abort flag.
SelectGateFirst ==
  /\ thread = "ready"
  /\ IF gate = "completed"
     THEN /\ thread' = "asleep" /\ nap' = Forever
          /\ UNCHANGED << core, control, counts >>
     ELSE IF abort \/ fatal \/ stopped
     THEN Ends /\ UNCHANGED << core, control, counts >>
     ELSE IF gate = "waiting" /\ window = 0
     THEN /\ Ends
          /\ fatal' = TRUE /\ abort' = TRUE
          /\ flight' = None /\ retry' = None /\ due' = 0
          /\ UNCHANGED << pending, periodic, startup, stopping, stopped, clean,
                          gate, window, main, counts >>
     ELSE IF Work = None
     THEN /\ thread' = "asleep" /\ nap' = NextWake
          /\ UNCHANGED << core, control, counts >>
     ELSE /\ thread' = "attempt" /\ nap' = 0
          /\ flight' = Work.flight /\ pending' = Work.pending
          /\ retry' = Work.retry /\ periodic' = Work.periodic
          /\ due' = (IF Work.retry = None THEN 0 ELSE due)
          /\ carried' = version /\ carrying' = asked
          /\ UNCHANGED << startup, stopping, stopped, clean, control,
                          failures, version, anchored, asked, audited >>

\* One turn of the loop, under the lock.
Select ==
  /\ thread = "ready"
  /\ IF abort \/ fatal \/ (gate # "completed" /\ stopped)
     THEN Ends /\ UNCHANGED << core, control, counts >>
     ELSE IF gate = "completed"
     THEN /\ thread' = "asleep" /\ nap' = Forever
          /\ UNCHANGED << core, control, counts >>
     ELSE IF gate = "waiting" /\ window = 0
     THEN /\ Ends
          /\ fatal' = TRUE /\ abort' = TRUE
          /\ flight' = None /\ retry' = None /\ due' = 0
          /\ UNCHANGED << pending, periodic, startup, stopping, stopped, clean,
                          gate, window, main, counts >>
     ELSE IF Work = None
     THEN /\ thread' = "asleep" /\ nap' = NextWake
          /\ UNCHANGED << core, control, counts >>
     ELSE /\ thread' = "attempt" /\ nap' = 0
          /\ flight' = Work.flight /\ pending' = Work.pending
          /\ retry' = Work.retry /\ periodic' = Work.periodic
          /\ due' = (IF Work.retry = None THEN 0 ELSE due)
          /\ carried' = version /\ carrying' = asked
          /\ UNCHANGED << startup, stopping, stopped, clean, control,
                          failures, version, anchored, asked, audited >>

\* The attempt ends after the worker was told to: its result is dropped.
Dropped ==
  /\ thread = "attempt"
  /\ abort \/ fatal
  /\ Ends
  /\ UNCHANGED << core, control, counts >>

\* record_success, and the marker of the startup checkpoint.
Succeed ==
  /\ thread = "attempt" /\ ~abort /\ ~fatal
  /\ flight' = None /\ retry' = None /\ due' = 0
  /\ startup' = (startup \/ flight.full)
  /\ anchored' = carried
  /\ audited' = (IF flight.full THEN carrying ELSE audited)
  /\ stopped' = (flight.reason = "clean_stop")
  /\ clean' = (flight.reason = "clean_stop")
  /\ gate' = (IF gate = "waiting" /\ flight.full /\ flight.reason = "epoch_rotation"
              THEN "completed" ELSE gate)
  /\ thread' = "ready"
  /\ UNCHANGED << pending, periodic, stopping, fatal, window, abort, main, nap,
                  failures, version, carried, asked, carrying >>

\* record_transient_failure: the request is tried again, a clean stop is not.
Fail ==
  /\ thread = "attempt" /\ ~abort /\ ~fatal
  /\ failures < MaxFailures
  /\ failures' = failures + 1
  /\ flight' = None
  /\ IF flight.reason = "clean_stop"
     THEN stopped' = TRUE /\ UNCHANGED << retry, due >>
     ELSE retry' = flight /\ due' = Retry /\ UNCHANGED stopped
  /\ thread' = "ready"
  /\ UNCHANGED << pending, periodic, startup, stopping, clean, control, nap,
                  version, carried, anchored, asked, carrying, audited >>

\* record_fatal_failure
FailForGood ==
  /\ thread = "attempt" /\ ~abort /\ ~fatal
  /\ flight' = None /\ retry' = None /\ due' = 0
  /\ fatal' = TRUE /\ abort' = TRUE
  /\ Ends
  /\ UNCHANGED << pending, periodic, startup, stopping, stopped, clean,
                  gate, window, main, counts >>

Return == Dropped \/ Succeed \/ Fail \/ FailForGood

-----------------------------------------------------------------------------
(* The main thread *)

\* The latch drops the request in flight; its thread ends when it returns.
Latch ==
  /\ fatal' = TRUE /\ abort' = TRUE
  /\ flight' = None /\ retry' = None /\ due' = 0
  /\ Notify
  /\ UNCHANGED << pending, periodic, startup, stopping, stopped, clean >>

\* wait_for_startup_terminal, one turn of its loop.
Await ==
  /\ main = "starting"
  /\ UNCHANGED << window, counts >>
  /\ \/ /\ fatal
        /\ main' = "failing"
        /\ UNCHANGED << core, fatal, gate, abort, sleep >>
     \/ /\ ~fatal /\ window = 0
        /\ Latch /\ main' = "failing" /\ UNCHANGED gate
     \/ /\ ~fatal /\ window > 0 /\ gate = "completed"
        /\ gate' = "released" /\ main' = "probing"
        /\ Notify
        /\ UNCHANGED << core, fatal, abort >>
     \/ /\ ~fatal /\ window > 0 /\ gate = "completed"      \* publication fails
        /\ Latch /\ main' = "failing" /\ UNCHANGED gate
     \/ /\ ~fatal /\ window > 0 /\ gate = "waiting"        \* poll
        /\ thread = "asleep"
        /\ Notify
        /\ UNCHANGED << core, fatal, gate, abort, main >>

\* A notification reaches the core, unless the worker is ending.
Posted(queue) ==
  IF fatal \/ abort THEN UNCHANGED << core, sleep >>
  ELSE /\ pending' = queue
       /\ Notify
       /\ UNCHANGED << flight, retry, due, periodic, startup, stopping, stopped, clean >>

\* A probe is durable and observed; it may carry a transition of health.
Probe ==
  /\ main = "probing"
  /\ version < MaxVersions
  /\ version' = version + 1
  /\ \/ \E reason \in Transitions : Posted(Enqueued(Request(reason, FALSE)))
     \/ Posted(pending)
  /\ main' = (IF fatal THEN "failing" ELSE main)
  /\ UNCHANGED << fatal, gate, window, abort,
                  failures, carried, anchored, asked, carrying, audited >>

\* A full audit is asked for.
Demand ==
  /\ asked < MaxDemands
  /\ main \in {"starting", "probing"}
  /\ asked' = asked + 1
  /\ Posted(Enqueued(Request("on_demand", TRUE)))
  /\ UNCHANGED << control, failures, version, carried, anchored, carrying, audited >>

\* The queue a clean stop leaves: the startup audit if it is still due, and
\* the clean stop.
StopQueue ==
  LET stop == << Request("clean_stop", FALSE) >>
  IN  IF startup \/ (flight # None /\ flight.full) \/ retry # None THEN stop
      ELSE SubSeq(pending, 1, 1) \o stop

\* request_clean_stop, then join.
Stop ==
  /\ main = "probing" /\ ~fatal
  /\ main' = "joining"
  /\ IF stopped THEN UNCHANGED << core, sleep >>
     ELSE /\ stopping' = TRUE
          /\ pending' = StopQueue
          /\ retry' = (IF startup THEN None ELSE retry)
          /\ due' = 0
          /\ Notify
          /\ UNCHANGED << flight, periodic, startup, stopped, clean >>
  /\ UNCHANGED << fatal, gate, window, abort, counts >>

\* _raise_if_head_anchor_failed, at the next check
Notice ==
  /\ main = "probing" /\ fatal
  /\ main' = "failing"
  /\ UNCHANGED << core, fatal, gate, window, abort, sleep, counts >>

\* close(clean_stop=False)
Close ==
  /\ main = "failing"
  /\ main' = "joining"
  /\ abort' = TRUE
  /\ Notify
  /\ UNCHANGED << core, fatal, gate, window, counts >>

Joined ==
  /\ main = "joining" /\ thread = "gone"
  /\ main' = "closed"
  /\ UNCHANGED << core, fatal, gate, window, abort, sleep, counts >>

\* The join is bounded; a thread still running is told to end.
JoinTimeout ==
  /\ main = "joining" /\ thread # "gone"
  /\ main' = "closed"
  /\ abort' = TRUE
  /\ Notify
  /\ UNCHANGED << core, fatal, gate, window, counts >>

Next ==
  \/ Tick \/ Wake \/ Select \/ Return
  \/ Await \/ Probe \/ Demand \/ Stop \/ Notice \/ Close \/ Joined \/ JoinTimeout

Spec == Init /\ [][Next]_vars

\* The clock runs, the background thread is scheduled and its attempts return
\* (every dependency call is bounded); the main thread waits, notices a latch
\* and closes, but need not probe, ask or stop.
FairSpec ==
  /\ Spec
  /\ WF_vars(Tick) /\ WF_vars(Wake) /\ WF_vars(Select) /\ WF_vars(Return)
  /\ WF_vars(Await) /\ WF_vars(Notice) /\ WF_vars(Close)
  /\ WF_vars(Joined \/ JoinTimeout)

-----------------------------------------------------------------------------
(* Properties *)

\* Every variable keeps its type; no reason is queued twice, so the queue stays
\* within its bound.
TypeOK ==
  /\ pending \in Seq(Requests)
  /\ \A i, j \in DOMAIN pending : pending[i].reason = pending[j].reason => i = j
  /\ {flight, retry} \subseteq Requests \cup {None}
  /\ due \in 0..Retry /\ periodic \in (1 - Interval)..Interval /\ window \in 0..Window
  /\ {startup, fatal, stopping, stopped, clean, abort} \subseteq BOOLEAN
  /\ gate \in {"waiting", "completed", "released"}
  /\ thread \in {"ready", "asleep", "attempt", "gone"}
  /\ nap \in {Forever} \cup 0..(Interval + Retry)
  /\ main \in {"starting", "probing", "failing", "joining", "closed"}
  /\ failures \in 0..MaxFailures
  /\ anchored <= version /\ carried <= version /\ version \in 1..MaxVersions
  /\ audited <= asked /\ carrying <= asked /\ asked \in 0..MaxDemands

\* No request runs before the startup audit of this process has succeeded, and
\* every attempt before it is a full one, whatever was queued, retried or
\* stopped meanwhile (take_work, _request_clean_stop).
StartupFirst ==
  flight # None /\ ~startup => flight = Request("epoch_rotation", TRUE)

\* A confirmed clean stop has seen every transition, after a full audit, and
\* nothing is left to do (record_success).
StopIsLast ==
  clean => startup /\ anchored = version /\ flight = None /\ ~fatal

\* Nothing overtakes the startup audit and nothing follows a confirmed stop.
OrderIsKept == TypeOK /\ StartupFirst /\ StopIsLast

\* No attempt starts once the worker has been told to end: a late retry cannot
\* cross into long-lived supervision (wait_for_startup_terminal).
NothingAfterAbort ==
  [][abort \/ fatal => ~(thread # "attempt" /\ thread' = "attempt")]_vars

\* Every transition is seen by a successful attempt, or the worker has ended:
\* the periodic grid makes up for a reason that was not queued because the
\* same one was in flight.
EveryTransitionAnchored ==
  \A v \in 1..MaxVersions :
    version >= v ~> (anchored >= v \/ thread = "gone")

\* A full audit that is asked for is made, or the worker is ending, as long as
\* no attempt fails for the moment: then the audit may wait in the one retry
\* slot, which the result of another attempt empties or takes.
EveryDemandAudited ==
  \A k \in 1..MaxDemands :
    asked >= k ~> (audited >= k \/ thread = "gone" \/ stopping \/ failures > 0)

\* Neither a transition nor a demand is forgotten.
EveryRequestServed == EveryTransitionAnchored /\ EveryDemandAudited

\* Closing ends both threads, and nobody waits for a notification that never
\* comes: the background thread at the gate, the main thread in its join.
CloseEnds == (main \in {"failing", "joining"} \/ fatal) ~> (main = "closed" /\ thread = "gone")

\* The worker ends, and begins nothing on the way.
ShutdownIsOrderly == NothingAfterAbort /\ CloseEnds
=============================================================================
