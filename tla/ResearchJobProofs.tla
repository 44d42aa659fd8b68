--------------------------- MODULE ResearchJobProofs ---------------------------
(***************************************************************************)
(* Proofs about ResearchJob for every set of jobs, hosts and keys and      *)
(* every bound: claims are exclusive, a superseded worker changes no job,  *)
(* and the workers together keep the promise that ResearchDecision makes   *)
(* to the owner.                                                           *)
(***************************************************************************)
EXTENDS ResearchJob, FiniteSetTheorems, TLAPS

Status == Terminal \cup {"absent", "queued", "running"}
Token == [fence : 1..MaxAttempts, revision : 0..(MaxRenewals + 3)]
State == [status : Status, attempts : Seq(Outcome), claim : {None} \cup Token, left : Int,
          lag : Int, cancel : BOOLEAN, commands : SUBSET Key, length : Nat]

\* AttemptsTell, of one job.
Tells(s) ==
  /\ \A k \in 1..(Len(s.attempts) - 1) : s.attempts[k] = "abandoned"
  /\ s.status \in {"running", "completed", "incomplete"} =>
       Len(s.attempts) > 0 /\ s.attempts[Len(s.attempts)] = s.status
  /\ s.status = "failed" =>
       /\ Len(s.attempts) > 0
       /\ \/ s.attempts[Len(s.attempts)] = "failed"
          \/ s.attempts[Len(s.attempts)] = "abandoned" /\ Len(s.attempts) = MaxAttempts
  /\ s.status = "queued" => Len(s.attempts) = 0 \/ s.attempts[Len(s.attempts)] = "abandoned"

\* What the domain's transitions preserve: only a running job has a claim, its
\* fence is the number of attempts, and no job waits that its owner cancelled.
Shape(s) ==
  /\ s \in State
  /\ Len(s.attempts) <= MaxAttempts
  /\ s.claim = None <=> s.status # "running"
  /\ s.claim # None => s.claim.fence = Len(s.attempts)
  /\ s.status = "absent" => s.attempts = << >>
  /\ s.status \in {"absent", "queued"} => ~s.cancel
  /\ Tells(s)

\* The relative times, after n troubles, and the length of the chain.
Timed(s, n) ==
  s.left \in -MaxTroubles..(Lease + n) /\ s.lag \in -MaxTroubles..n

JobOK(s, n) ==
  /\ Shape(s) /\ Timed(s, n)
  /\ s.length <= MaxEvents /\ (s.status = "absent" => s.length = 0)

-----------------------------------------------------------------------------
Phases == {"loading", "running", "validating", "publishing", "committing", "finishing"}
Busy == [phase : Phases, shut : BOOLEAN,
         stopped : {"no", "shutdown", "cancel_requested", "lease_lost"}, job : Job,
         claim : Token, result : {"none", "completed", "incomplete", "failed"}]
WorkerState == {Down} \cup [phase : {"idle"}, shut : BOOLEAN] \cup Busy

\* How often a worker can have renewed its claim where it is, and what its
\* child left it.
Progress(v) ==
  /\ v.phase = "loading" => v.claim.revision = 0
  /\ v.phase \in {"running", "validating"} => v.claim.revision <= MaxRenewals + 1
  /\ v.phase = "publishing" => v.claim.revision <= MaxRenewals + 2
  /\ v.phase \in {"publishing", "committing"} => v.result \in {"completed", "incomplete"}
  /\ v.phase = "validating" => v.result # "none"

Holds(v, js) == v.phase \in Phases => Progress(v) /\ v.claim.fence <= Len(js[v.job].attempts)

\* Each attempt was granted to one worker.
Apart(u, v) == u.phase \in Phases /\ v.phase \in Phases /\ u.job = v.job => u.claim.fence # v.claim.fence

\* The process guard: who computes has the host's only child, and who is
\* between children has none.
Guarded(v, c) ==
  /\ c \in 0..1
  /\ v.phase = "running" => c = 1
  /\ v.phase \notin {"down", "running"} => c = 0

QueueOK == queue \in Seq(Job) /\ Len(queue) = Cardinality({j \in Job : Accepted(j)})
JobsOK == /\ troubles \in 0..MaxTroubles
          /\ jobs = [j \in Job |-> jobs[j]] /\ \A j \in Job : JobOK(jobs[j], troubles)
WorkersOK ==
  /\ workers \in [Host -> WorkerState]
  /\ \A w \in Host : Holds(workers[w], jobs)
  /\ \A v, w \in Host : v # w => Apart(workers[v], workers[w])
ChildrenOK == children \in [Host -> Nat] /\ \A w \in Host : Guarded(workers[w], children[w])

Inv == QueueOK /\ JobsOK /\ WorkersOK /\ ChildrenOK

-----------------------------------------------------------------------------
USE LeaseAssumption, BoundAssumption

LEMMA InitHolds == Init => Inv
<1> SUFFICES ASSUME Init PROVE Inv
  OBVIOUS
<1>1. Absent \in State
  BY DEF Absent, State, Status
<1>2. JobOK(Absent, 0)
  BY <1>1 DEF Absent, JobOK, Shape, Timed, Tells
<1>3. /\ \A j \in Job : jobs[j] = Absent
      /\ jobs = [j \in Job |-> jobs[j]] /\ troubles = 0
  BY DEF Init
<1>4. JobsOK
  BY <1>2, <1>3 DEF JobsOK
<1>5. QueueOK
  <2>1. {j \in Job : Accepted(j)} = {}
    BY <1>3 DEF Accepted, Absent
  <2>2. queue = << >>
    BY DEF Init
  <2> QED
    BY <2>1, <2>2, FS_EmptySet DEF QueueOK
<1>6. Down \in WorkerState /\ Down.phase = "down" /\ Down.phase \notin Phases
  BY DEF Down, WorkerState, Phases
<1>7. workers \in [Host -> WorkerState] /\ children \in [Host -> Nat]
      /\ \A w \in Host : workers[w] = Down /\ children[w] = 0
  BY <1>6 DEF Init
<1>8. WorkersOK
  BY <1>6, <1>7 DEF WorkersOK, Holds, Apart
<1>9. ChildrenOK
  BY <1>6, <1>7 DEF ChildrenOK, Guarded
<1> QED
  BY <1>4, <1>5, <1>8, <1>9 DEF Inv

LEMMA AtMostItself == \A n \in Nat : n <= n
  OBVIOUS

LEMMA ShapeLength ==
  ASSUME NEW s, Shape(s)
  PROVE  Len(s.attempts) \in Nat
  BY DEF Shape, State

(* A worker that still heartbeats can renew its claim.                      *)
LEMMA RevisionLaw ==
  ASSUME NEW v \in Busy
  PROVE  /\ v.job \in Job /\ v.claim.revision \in Nat
         /\ v.claim.revision <= MaxRenewals + 2 => v.claim.revision < MaxRenewals + 3
         /\ Progress(v) /\ v.phase \in {"loading", "running", "validating", "publishing"} =>
              v.claim.revision <= MaxRenewals + 2
<1>1. v.job \in Job /\ v.claim.revision \in Nat
  BY DEF Busy, Token
<1> QED
  BY <1>1 DEF Progress

-----------------------------------------------------------------------------
(* The domain's transitions, of any state of a job.                         *)

LEMMA NoneIsNoToken == None \notin Token
  BY DEF None, Token

LEMMA AppendedFields ==
  ASSUME NEW s \in State
  PROVE  /\ Appended(s) \in State
         /\ Appended(s).length = s.length + 1 /\ Appended(s).lag = 0 /\ Appended(s).left = s.left
         /\ Appended(s).status = s.status /\ Appended(s).attempts = s.attempts
         /\ Appended(s).claim = s.claim /\ Appended(s).cancel = s.cancel
         /\ Appended(s).commands = s.commands
<1>0. s.length + 1 \in Nat /\ 0 \in Int
  BY DEF State
<1>1. Appended(s) \in State
  BY <1>0, Zenon DEF Appended, State
<1>2. /\ Appended(s).length = s.length + 1 /\ Appended(s).lag = 0 /\ Appended(s).left = s.left
      /\ Appended(s).status = s.status /\ Appended(s).attempts = s.attempts
      /\ Appended(s).claim = s.claim /\ Appended(s).commands = s.commands
  BY DEF Appended, State
<1>3. Appended(s).cancel = s.cancel
  BY Zenon DEF Appended, State
<1> QED
  BY <1>1, <1>2, <1>3

(* Only the status, the claim, the attempts and the cancellation matter.    *)
LEMMA AppendedShape ==
  ASSUME NEW s, Shape(s)
  PROVE  Shape(Appended(s))
<1>1. s \in State
  BY DEF Shape
<1> QED
  BY <1>1, AppendedFields DEF Shape, Tells

(* _apply of the event that closes an attempt.                              *)
LEMMA ClosedFields ==
  ASSUME NEW s \in State, NEW outcome \in Terminal \cup {"abandoned"}, Len(s.attempts) > 0
  PROVE  LET t == Closed(s, outcome)
         IN  /\ t \in State
             /\ t.length = s.length + 1 /\ t.lag = 0 /\ t.left = 0
             /\ t.status = ClosedStatus(outcome) /\ t.claim = None /\ t.cancel = s.cancel
             /\ t.attempts = [s.attempts EXCEPT ![Len(s.attempts)] = outcome]
<1> DEFINE new == [s.attempts EXCEPT ![Len(s.attempts)] = outcome]
           r == [s EXCEPT !.status = ClosedStatus(outcome), !.claim = None, !.left = 0,
                          !.attempts[Len(s.attempts)] = outcome]
<1>1. /\ s.attempts \in Seq(Outcome) /\ outcome \in Outcome /\ 0 \in Int
      /\ ClosedStatus(outcome) \in Status
  BY DEF State, Outcome, ClosedStatus, Status
<1>2. new \in Seq(Outcome)
  BY <1>1
<1>3. r \in State
  BY <1>1, <1>2, Zenon DEF State
<1>4. /\ r.length = s.length /\ r.left = 0 /\ r.status = ClosedStatus(outcome) /\ r.claim = None
      /\ r.attempts = new
  BY DEF State
<1>5. r.cancel = s.cancel
  BY Zenon DEF State
<1>6. Closed(s, outcome) = Appended(r)
  BY DEF Closed
<1> HIDE DEF r
<1> QED
  BY <1>3, <1>4, <1>5, <1>6, AppendedFields

LEMMA ClosedShape ==
  ASSUME NEW s, Shape(s), s.status = "running", NEW outcome \in Terminal \cup {"abandoned"},
         outcome = "abandoned" => ~s.cancel
  PROVE  /\ Shape(Closed(s, outcome))
         /\ Len(Closed(s, outcome).attempts) = Len(s.attempts)
<1>1. /\ s \in State /\ s.attempts \in Seq(Outcome) /\ Len(s.attempts) > 0
      /\ Len(s.attempts) <= MaxAttempts /\ Len(s.attempts) \in Nat
      /\ \A k \in 1..(Len(s.attempts) - 1) : s.attempts[k] = "abandoned"
  BY DEF Shape, State, Tells
<1> DEFINE t == Closed(s, outcome)
<1>2. /\ t \in State /\ t.status = ClosedStatus(outcome) /\ t.claim = None /\ t.cancel = s.cancel
      /\ t.attempts = [s.attempts EXCEPT ![Len(s.attempts)] = outcome]
  BY <1>1, ClosedFields, Zenon
<1> HIDE DEF t
<1>3. /\ Len(t.attempts) = Len(s.attempts) /\ t.attempts[Len(t.attempts)] = outcome
      /\ \A k \in 1..(Len(t.attempts) - 1) : t.attempts[k] = "abandoned"
  BY <1>1, <1>2
<1>4. Tells(t)
  BY <1>1, <1>2, <1>3 DEF Tells, ClosedStatus, Terminal
<1>5. t.status # "running" /\ t.status # "absent" /\ (t.status = "queued" => ~t.cancel)
  BY <1>2 DEF ClosedStatus, Terminal
<1>6. Shape(t)
  BY <1>1, <1>2, <1>3, <1>4, <1>5 DEF Shape
<1> QED
  BY <1>3, <1>6 DEF t

(* claim_research_job                                                       *)
LEMMA ClaimedShape ==
  ASSUME NEW s, Shape(s), s.status = "queued", Len(s.attempts) < MaxAttempts
  PROVE  LET t == Claimed(s)
         IN  /\ Shape(t) /\ t.status = "running" /\ t.cancel = s.cancel
             /\ t.length = s.length + 1 /\ t.lag = 0 /\ t.left = Lease
             /\ t.claim = [fence |-> Len(s.attempts) + 1, revision |-> 0]
             /\ Len(t.attempts) = Len(s.attempts) + 1
<1> DEFINE new == Append(s.attempts, "running")
           claim == [fence |-> Len(s.attempts) + 1, revision |-> 0]
           r == [s EXCEPT !.status = "running", !.claim = claim, !.left = Lease,
                          !.attempts = Append(@, "running")]
           t == Claimed(s)
<1>1. /\ s \in State /\ s.attempts \in Seq(Outcome) /\ Len(s.attempts) \in Nat
      /\ "running" \in Outcome /\ "running" \in Status /\ Lease \in Int
  BY DEF Shape, State, Outcome, Status
<1>2. new \in Seq(Outcome) /\ Len(new) = Len(s.attempts) + 1 /\ claim \in Token
  BY <1>1 DEF Token
<1>3. r \in State
  <2> HIDE DEF claim
  <2> QED
    BY <1>1, <1>2, Zenon DEF State
<1>4. /\ r.length = s.length /\ r.left = Lease /\ r.status = "running" /\ r.claim = claim
      /\ r.attempts = new
  BY <1>1 DEF State
<1>5. r.cancel = s.cancel
  BY <1>1, Zenon DEF State
<1>6. t = Appended(r)
  BY DEF Claimed
<1>7. claim # None /\ claim.fence = Len(s.attempts) + 1
  BY <1>2, NoneIsNoToken
<1>8. \A k \in 1..Len(s.attempts) : s.attempts[k] = "abandoned"
  BY <1>1 DEF Shape, Tells
<1>9. \A k \in 1..(Len(new) - 1) : new[k] = "abandoned"
  BY <1>1, <1>8
<1>10. new[Len(new)] = "running" /\ Len(new) > 0
  BY <1>1
<1> HIDE DEF r, claim, new, t
<1>11. Tells(r)
  BY <1>4, <1>9, <1>10 DEF Tells
<1>12. Shape(r)
  BY <1>1, <1>2, <1>3, <1>4, <1>5, <1>7, <1>11 DEF Shape
<1>13. /\ Shape(t) /\ t.status = "running" /\ t.cancel = s.cancel
       /\ t.length = s.length + 1 /\ t.lag = 0 /\ t.left = Lease /\ t.claim = claim
       /\ Len(t.attempts) = Len(s.attempts) + 1
  BY <1>2, <1>3, <1>4, <1>5, <1>6, <1>12, AppendedFields, AppendedShape
<1> QED
  BY <1>13 DEF t, claim

(* renew_research_claim                                                     *)
LEMMA RenewedShape ==
  ASSUME NEW s, Shape(s), s.status = "running", s.claim.revision < MaxRenewals + 3
  PROVE  LET t == Renewed(s)
         IN  /\ Shape(t) /\ t.status = s.status /\ t.cancel = s.cancel
             /\ t.length = s.length + 1 /\ t.lag = 0 /\ t.left = Lease
             /\ t.claim \in Token /\ t.claim.fence = s.claim.fence
             /\ t.claim.revision = s.claim.revision + 1
             /\ t.attempts = s.attempts
<1> DEFINE claim == [s.claim EXCEPT !.revision = @ + 1]
           r == [s EXCEPT !.claim.revision = @ + 1, !.left = Lease]
           t == Renewed(s)
<1>1. s \in State /\ s.claim \in Token /\ Lease \in Int
  BY DEF Shape, State
<1>2. claim \in Token /\ claim.fence = s.claim.fence /\ claim.revision = s.claim.revision + 1
  BY <1>1 DEF Token
<1>3. r \in State
  <2>1. r = [s EXCEPT !.claim = claim, !.left = Lease]
    BY <1>1 DEF State
  <2> HIDE DEF claim, r
  <2> QED
    BY <1>1, <1>2, <2>1, Zenon DEF State
<1>4. /\ r.length = s.length /\ r.left = Lease /\ r.status = s.status /\ r.claim = claim
      /\ r.attempts = s.attempts
  BY <1>1 DEF State
<1>5. r.cancel = s.cancel
  BY <1>1, Zenon DEF State
<1>6. t = Appended(r)
  BY DEF Renewed
<1>7. claim # None
  BY <1>2, NoneIsNoToken
<1> HIDE DEF r, claim, t
<1>8. Shape(r)
  BY <1>1, <1>2, <1>3, <1>4, <1>5, <1>7 DEF Shape, Tells
<1>9. /\ Shape(t) /\ t.status = s.status /\ t.cancel = s.cancel
      /\ t.length = s.length + 1 /\ t.lag = 0 /\ t.left = Lease /\ t.claim = claim
      /\ t.attempts = s.attempts
  BY <1>3, <1>4, <1>5, <1>6, <1>8, AppendedFields, AppendedShape
<1> QED
  BY <1>2, <1>9 DEF t

(* cancel_research_job, where it changes the job.                           *)
LEMMA CancelShape ==
  ASSUME NEW s, Shape(s), NEW key \in Key, key \notin s.commands, s.status \in {"queued", "running"}
  PROVE  LET t == CancelRequested(s, key)
         IN  /\ Shape(t) /\ t.cancel = TRUE /\ t.attempts = s.attempts
             /\ t.status = IF s.status = "queued" THEN "cancelled" ELSE s.status
             /\ t.length = s.length + 1 /\ t.lag = 0 /\ t.left = s.left
<1> DEFINE status == IF s.status = "queued" THEN "cancelled" ELSE s.status
           r == [s EXCEPT !.status = IF @ = "queued" THEN "cancelled" ELSE @,
                          !.cancel = TRUE, !.commands = @ \cup {key}]
           t == CancelRequested(s, key)
<1>1. s \in State /\ status \in Status /\ s.commands \cup {key} \in SUBSET Key
  BY DEF Shape, State, Status, Terminal
<1>2. r \in State
  BY <1>1, Zenon DEF State
<1>3. /\ r.length = s.length /\ r.left = s.left /\ r.status = status /\ r.claim = s.claim
      /\ r.attempts = s.attempts
  BY <1>1 DEF State
<1>4. r.cancel = TRUE
  BY <1>1, Zenon DEF State
<1>5. t = Appended(r)
  BY DEF CancelRequested
<1> HIDE DEF r, t
<1>6. Shape(r)
  BY <1>1, <1>2, <1>3, <1>4 DEF Shape, Tells
<1>7. /\ Shape(t) /\ t.cancel = TRUE /\ t.attempts = s.attempts /\ t.status = status
      /\ t.length = s.length + 1 /\ t.lag = 0 /\ t.left = s.left
  BY <1>2, <1>3, <1>4, <1>5, <1>6, AppendedFields, AppendedShape
<1> QED
  BY <1>7 DEF t

(* launch_research_job                                                      *)
LEMMA LaunchShape ==
  ASSUME NEW s, Shape(s), s.status = "absent"
  PROVE  LET t == Appended([s EXCEPT !.status = "queued"])
         IN  /\ Shape(t) /\ t.status = "queued" /\ t.attempts = s.attempts /\ t.cancel = FALSE
             /\ t.length = s.length + 1 /\ t.lag = 0 /\ t.left = s.left
<1> DEFINE r == [s EXCEPT !.status = "queued"]
<1>1. s \in State /\ "queued" \in Status /\ Len(s.attempts) = 0 /\ s.cancel = FALSE
  BY DEF Shape, State, Status
<1>2. r \in State
  BY <1>1, Zenon DEF State
<1>3. /\ r.length = s.length /\ r.left = s.left /\ r.status = "queued" /\ r.claim = s.claim
      /\ r.attempts = s.attempts
  BY <1>1 DEF State
<1>4. r.cancel = s.cancel
  BY <1>1, Zenon DEF State
<1> HIDE DEF r
<1>5. Shape(r)
  BY <1>1, <1>2, <1>3, <1>4 DEF Shape, Tells
<1>6. LET t == Appended(r)
      IN  /\ Shape(t) /\ t.status = "queued" /\ t.attempts = s.attempts /\ t.cancel = FALSE
          /\ t.length = s.length + 1 /\ t.lag = 0 /\ t.left = s.left
  BY <1>1, <1>2, <1>3, <1>4, <1>5, AppendedFields, AppendedShape
<1> QED
  BY <1>6 DEF r

(* The last attempt was abandoned.                                          *)
LEMMA ExhaustedShape ==
  ASSUME NEW s, Shape(s), s.status = "queued", Len(s.attempts) = MaxAttempts
  PROVE  LET t == Appended([s EXCEPT !.status = "failed"])
         IN  /\ Shape(t) /\ t.status = "failed" /\ t.attempts = s.attempts /\ t.cancel = s.cancel
             /\ t.length = s.length + 1 /\ t.lag = 0 /\ t.left = s.left
<1> DEFINE r == [s EXCEPT !.status = "failed"]
<1>1. s \in State /\ "failed" \in Status
  BY DEF Shape, State, Status, Terminal
<1>2. r \in State
  BY <1>1, Zenon DEF State
<1>3. /\ r.length = s.length /\ r.left = s.left /\ r.status = "failed" /\ r.claim = s.claim
      /\ r.attempts = s.attempts
  BY <1>1 DEF State
<1>4. r.cancel = s.cancel
  BY <1>1, Zenon DEF State
<1> HIDE DEF r
<1>5. Shape(r)
  BY <1>1, <1>2, <1>3, <1>4 DEF Shape, Tells
<1>6. LET t == Appended(r)
      IN  /\ Shape(t) /\ t.status = "failed" /\ t.attempts = s.attempts /\ t.cancel = s.cancel
          /\ t.length = s.length + 1 /\ t.lag = 0 /\ t.left = s.left
  BY <1>1, <1>2, <1>3, <1>4, <1>5, AppendedFields, AppendedShape
<1> QED
  BY <1>6 DEF r

\* What every transition of the domain keeps, besides the shape.
Evolves(s, t) ==
  /\ Shape(t) /\ Len(s.attempts) <= Len(t.attempts)
  /\ s.length <= t.length
  /\ t.left \in {s.left, 0, Lease} /\ t.lag \in {s.lag, 0}
  /\ t.status = "absent" => t = s

(* recover_research_job: a cancelled job is closed as cancelled, any other  *)
(* is queued with attempts left, or has failed.                             *)
RecoveredAs(s, t) ==
  /\ Evolves(s, t) /\ Len(t.attempts) = Len(s.attempts) /\ t.cancel = s.cancel
  /\ IF s.cancel THEN t.status = "cancelled" ELSE t.status \in {"queued", "failed"}
  /\ t.status = "queued" => Len(t.attempts) < MaxAttempts

LEMMA RecoveredShape ==
  ASSUME NEW s, Shape(s), s.status \in {"queued", "running"}
  PROVE  RecoveredAs(s, Recovered(s))
<1> DEFINE outcome == IF s.cancel THEN "cancelled" ELSE "abandoned"
           closed == IF s.claim = None THEN s ELSE Closed(s, outcome)
<1>1. s \in State /\ s.length \in Nat /\ Len(s.attempts) \in Nat /\ s.cancel \in BOOLEAN
      /\ Len(s.attempts) <= MaxAttempts
  BY DEF Shape, State
<1>2. /\ Evolves(s, closed) /\ Len(closed.attempts) = Len(s.attempts) /\ closed.cancel = s.cancel
      /\ closed.status = IF s.cancel THEN "cancelled" ELSE "queued"
  <2>1. CASE s.claim = None
    <3>1. closed = s /\ s.status = "queued" /\ ~s.cancel
      BY <2>1 DEF Shape
    <3> HIDE DEF closed
    <3> QED
      BY <1>1, <3>1 DEF Evolves
  <2>2. CASE s.claim # None
    <3>1. /\ closed = Closed(s, outcome) /\ s.status = "running" /\ Len(s.attempts) > 0
          /\ outcome \in Terminal \cup {"abandoned"} /\ (outcome = "abandoned" => ~s.cancel)
      BY <2>2 DEF Shape, Terminal, Tells
    <3>2. ClosedStatus(outcome) = IF s.cancel THEN "cancelled" ELSE "queued"
      BY DEF ClosedStatus
    <3> HIDE DEF outcome, closed
    <3>3. Shape(closed) /\ Len(closed.attempts) = Len(s.attempts)
      BY <3>1, ClosedShape
    <3>4. /\ closed.length = s.length + 1 /\ closed.lag = 0 /\ closed.left = 0
          /\ closed.status = ClosedStatus(outcome) /\ closed.cancel = s.cancel
      BY <1>1, <3>1, ClosedFields, Zenon
    <3> QED
      BY <1>1, <3>2, <3>3, <3>4 DEF Evolves
  <2> QED
    BY <2>1, <2>2
<1>3. Recovered(s) = IF closed.status = "queued" /\ Len(closed.attempts) = MaxAttempts
                     THEN Appended([closed EXCEPT !.status = "failed"]) ELSE closed
  BY DEF Recovered
<1> HIDE DEF closed
<1>4. CASE closed.status = "queued" /\ Len(closed.attempts) = MaxAttempts
  <2> DEFINE t == Appended([closed EXCEPT !.status = "failed"])
  <2>1. closed.length \in Nat
    BY <1>2 DEF Evolves, Shape, State
  <2>2. /\ Shape(t) /\ t.status = "failed" /\ t.attempts = closed.attempts
        /\ t.cancel = closed.cancel /\ t.length = closed.length + 1 /\ t.lag = 0
        /\ t.left = closed.left
    BY <1>2, <1>4, ExhaustedShape DEF Evolves
  <2> HIDE DEF t
  <2>3. RecoveredAs(s, t)
    BY <1>1, <1>2, <1>4, <2>1, <2>2 DEF Evolves, RecoveredAs
  <2> QED
    BY <1>3, <1>4, <2>3 DEF t
<1>5. CASE ~(closed.status = "queued" /\ Len(closed.attempts) = MaxAttempts)
  <2>1. closed.status = "queued" => Len(closed.attempts) < MaxAttempts
    BY <1>1, <1>2, <1>5
  <2>2. RecoveredAs(s, closed)
    BY <1>1, <1>2, <2>1 DEF RecoveredAs
  <2> QED
    BY <1>3, <1>5, <2>2
<1> QED
  BY <1>4, <1>5

(* The clock moves: only the relative times change, and as little.          *)
LEMMA ShiftedShape ==
  ASSUME NEW s, Shape(s), NEW d \in {-1, 1}, NEW n \in 0..MaxTroubles, Timed(s, n)
  PROVE  LET t == Shifted(s, d)
         IN  /\ Shape(t) /\ t.status = s.status /\ t.cancel = s.cancel /\ t.attempts = s.attempts
             /\ t.length = s.length
             /\ Timed(t, IF d = 1 THEN n + 1 ELSE n)
<1> DEFINE left == IF s.claim = None THEN 0 ELSE Atleast(s.left + d, -MaxTroubles)
           lag == IF s.status \in Terminal \cup {"absent"} THEN 0
                  ELSE Atleast(s.lag + d, -MaxTroubles)
           t == Shifted(s, d)
<1>1. s \in State /\ s.left \in Int /\ s.lag \in Int
  BY DEF Shape, State
<1>2. left \in Int /\ lag \in Int
  BY <1>1 DEF Atleast
<1>3. /\ left \in -MaxTroubles..(Lease + (IF d = 1 THEN n + 1 ELSE n))
      /\ lag \in -MaxTroubles..(IF d = 1 THEN n + 1 ELSE n)
  BY <1>1 DEF Atleast, Timed
<1>4. t = [s EXCEPT !.left = left, !.lag = lag]
  BY DEF Shifted
<1> HIDE DEF left, lag, t
<1>5. t \in State
  BY <1>1, <1>2, <1>4, Zenon DEF State
<1>6. /\ t.length = s.length /\ t.status = s.status /\ t.claim = s.claim /\ t.attempts = s.attempts
      /\ t.left = left /\ t.lag = lag
  BY <1>1, <1>4 DEF State
<1>7. t.cancel = s.cancel
  BY <1>1, <1>4, Zenon DEF State
<1>8. Shape(t)
  BY <1>5, <1>6, <1>7 DEF Shape, Tells
<1>9. Timed(t, IF d = 1 THEN n + 1 ELSE n)
  BY <1>3, <1>6 DEF Timed
<1> QED
  BY <1>6, <1>7, <1>8, <1>9 DEF t

LEMMA EvolvesTimed ==
  ASSUME NEW s, NEW t, NEW n \in 0..MaxTroubles, NEW m \in 0..MaxTroubles, n <= m,
         JobOK(s, n), Evolves(s, t), t.length <= MaxEvents
  PROVE  JobOK(t, m)
<1>1. s.left \in Int /\ s.lag \in Int /\ Lease \in Nat
  BY DEF JobOK, Shape, State
<1> QED
  BY <1>1, SMTT(30) DEF JobOK, Evolves, Timed

LEMMA EvolvesSelf ==
  ASSUME NEW s, Shape(s)
  PROVE  Evolves(s, s)
<1>1. s.length \in Nat /\ Len(s.attempts) \in Nat
  BY DEF Shape, State
<1> QED
  BY <1>1 DEF Evolves

-----------------------------------------------------------------------------
(* The table of jobs.                                                       *)

\* No attempt is forgotten and no job is accepted by the way.
JobsGrow ==
  \A j \in Job : /\ Len(jobs[j].attempts) <= Len(jobs'[j].attempts)
                 /\ jobs'[j].status = "absent" <=> jobs[j].status = "absent"

JobsKept == JobsOK' /\ JobsGrow

\* As many troubles as before, or one more.
TroublesPass == troubles' = troubles \/ (troubles < MaxTroubles /\ troubles' = troubles + 1)

LEMMA JobFacts ==
  ASSUME JobsOK, NEW j \in Job
  PROVE  /\ jobs[j] \in State /\ Shape(jobs[j]) /\ JobOK(jobs[j], troubles)
         /\ jobs[j].length \in Nat /\ jobs[j].length <= MaxEvents
         /\ Len(jobs[j].attempts) \in Nat /\ Len(jobs[j].attempts) <= MaxAttempts
         /\ jobs[j].status \in Status /\ jobs[j].cancel \in BOOLEAN
  BY DEF JobsOK, JobOK, Shape, State

(* Every job evolves, or is left alone, and none is accepted.               *)
LEMMA AllEvolve ==
  ASSUME JobsOK, TroublesPass, NEW after, after = [j \in Job |-> after[j]], jobs' = after,
         \A j \in Job : /\ Evolves(jobs[j], after[j]) /\ after[j].length <= MaxEvents
                        /\ jobs[j].status = "absent" => after[j].status = "absent"
  PROVE  JobsKept
<1>1. troubles \in 0..MaxTroubles /\ troubles' \in 0..MaxTroubles /\ troubles <= troubles'
  BY DEF JobsOK, TroublesPass
<1>2. \A j \in Job : JobOK(jobs'[j], troubles')
  BY <1>1, JobFacts, EvolvesTimed
<1>3. JobsGrow
  BY DEF JobsGrow, Evolves
<1> QED
  BY <1>1, <1>2, <1>3 DEF JobsKept, JobsOK

LEMMA NoneEvolves ==
  ASSUME JobsOK, TroublesPass, UNCHANGED jobs
  PROVE  JobsKept
<1>1. \A j \in Job : Evolves(jobs[j], jobs[j]) /\ jobs[j].length <= MaxEvents
  BY JobFacts, EvolvesSelf
<1>2. jobs = [j \in Job |-> jobs[j]]
  BY DEF JobsOK
<1>3. PICK after : after = jobs
  OBVIOUS
<1> QED
  BY <1>1, <1>2, <1>3, AllEvolve

LEMMA OneEvolves ==
  ASSUME JobsOK, TroublesPass, NEW j \in Job, NEW t, Evolves(jobs[j], t), t.length <= MaxEvents,
         jobs[j].status # "absent", jobs' \in {jobs, [jobs EXCEPT ![j] = t]}
  PROVE  JobsKept
<1>1. jobs = [k \in Job |-> jobs[k]]
  BY DEF JobsOK
<1>2. CASE jobs' = jobs
  BY <1>2, NoneEvolves
<1>3. CASE jobs' = [jobs EXCEPT ![j] = t]
  <2>1. PICK after : after = [jobs EXCEPT ![j] = t]
    BY Zenon
  <2>2. /\ after = [k \in Job |-> after[k]] /\ after[j] = t
        /\ \A k \in Job : k # j => after[k] = jobs[k]
    BY <1>1, <2>1
  <2>3. \A k \in Job : Evolves(jobs[k], jobs[k]) /\ jobs[k].length <= MaxEvents
    BY JobFacts, EvolvesSelf
  <2>4. \A k \in Job : /\ Evolves(jobs[k], after[k]) /\ after[k].length <= MaxEvents
                       /\ jobs[k].status = "absent" => after[k].status = "absent"
    BY <2>2, <2>3
  <2>5. jobs' = after
    BY <1>3, <2>1
  <2> QED
    BY <2>2, <2>4, <2>5, AllEvolve
<1> QED
  BY <1>2, <1>3

-----------------------------------------------------------------------------
(* A worker process.                                                        *)

\* w may become v: it gives up its job or keeps its claim's fence, or it has
\* a fence beyond all the attempts of the job.
Moves(w, v) ==
  /\ v \in WorkerState
  /\ v.phase \in Phases =>
       /\ Progress(v)
       /\ \/ /\ workers[w].phase \in Phases /\ v.job = workers[w].job
             /\ v.claim.fence = workers[w].claim.fence
          \/ /\ Len(jobs[v.job].attempts) < v.claim.fence
             /\ v.claim.fence <= Len(jobs'[v.job].attempts)

LEMMA WorkerFields ==
  ASSUME NEW v \in WorkerState
  PROVE  /\ v.phase \in Phases <=> v \in Busy
         /\ v.phase \in Phases \cup {"down", "idle"}
         /\ v.phase # "down" => v.shut \in BOOLEAN
         /\ v.phase \in Phases => /\ v.job \in Job /\ v.claim \in Token
                                  /\ v.claim.fence \in Nat /\ v.claim.revision \in Nat
<1>1. CASE v = Down
  BY <1>1 DEF Down, Phases, Busy
<1>2. CASE v \in [phase : {"idle"}, shut : BOOLEAN]
  BY <1>2 DEF Phases, Busy
<1>3. CASE v \in Busy
  BY <1>3 DEF Phases, Busy, Token
<1> QED
  BY <1>1, <1>2, <1>3 DEF WorkerState

LEMMA WorkerFacts ==
  ASSUME Inv, NEW w \in Host
  PROVE  /\ workers[w] \in WorkerState /\ Holds(workers[w], jobs)
         /\ Guarded(workers[w], children[w])
  BY DEF Inv, WorkersOK, ChildrenOK

LEMMA WorkerKeeps ==
  ASSUME Inv, NEW w \in Host, NEW v, Become(w, v), Moves(w, v), JobsKept
  PROVE  WorkersOK' /\ workers'[w] = v /\ \A u \in Host : u # w => workers'[u] = workers[u]
<1>1. workers \in [Host -> WorkerState] /\ v \in WorkerState
  BY DEF Inv, WorkersOK, Moves
<1>2. /\ workers' \in [Host -> WorkerState] /\ workers'[w] = v
      /\ \A u \in Host : u # w => workers'[u] = workers[u]
  BY <1>1 DEF Become
<1>3. ASSUME NEW u \in Host, workers[u].phase \in Phases
      PROVE  /\ workers[u].job \in Job /\ workers[u].claim.fence \in Nat /\ Progress(workers[u])
             /\ workers[u].claim.fence <= Len(jobs[workers[u].job].attempts)
             /\ workers[u].claim.fence <= Len(jobs'[workers[u].job].attempts)
             /\ Len(jobs[workers[u].job].attempts) \in Nat
  <2>1. workers[u] \in WorkerState /\ Holds(workers[u], jobs)
    BY WorkerFacts
  <2>2. workers[u].job \in Job /\ workers[u].claim.fence \in Nat
    BY <1>3, <2>1, WorkerFields
  <2>3. /\ Len(jobs[workers[u].job].attempts) \in Nat
        /\ Len(jobs'[workers[u].job].attempts) \in Nat
        /\ Len(jobs[workers[u].job].attempts) <= Len(jobs'[workers[u].job].attempts)
    <3>1. JobsOK /\ JobsOK' /\ JobsGrow
      BY DEF Inv, JobsKept
    <3>2. \A j \in Job : jobs[j].attempts \in Seq(Outcome)
      BY <3>1 DEF JobsOK, JobOK, Shape, State
    <3>3. \A j \in Job : jobs'[j].attempts \in Seq(Outcome)
      BY <3>1 DEF JobsOK, JobOK, Shape, State
    <3> QED
      BY <2>2, <3>1, <3>2, <3>3 DEF JobsGrow
  <2>4. /\ Progress(workers[u])
        /\ workers[u].claim.fence <= Len(jobs[workers[u].job].attempts)
    BY <1>3, <2>1, Zenon DEF Holds
  <2>5. workers[u].claim.fence <= Len(jobs'[workers[u].job].attempts)
    <3>1. PICK a, b, c : /\ a = workers[u].claim.fence
                         /\ b = Len(jobs[workers[u].job].attempts)
                         /\ c = Len(jobs'[workers[u].job].attempts)
      BY Zenon
    <3>2. a \in Nat /\ b \in Nat /\ c \in Nat /\ a <= b /\ b <= c
      BY <2>2, <2>3, <2>4, <3>1, Zenon
    <3>3. a <= c
      BY <3>2
    <3> QED
      BY <3>1, <3>3, Zenon
  <2> QED
    BY <2>2, <2>3, <2>4, <2>5, Zenon
<1>4. v.phase \in Phases => /\ v.job \in Job /\ v.claim.fence \in Nat
                            /\ Len(jobs[v.job].attempts) \in Nat
  <2>1. \A j \in Job : Len(jobs[j].attempts) \in Nat
    BY JobFacts DEF Inv
  <2> QED
    BY <1>1, <2>1, WorkerFields
<1>5. ASSUME NEW u \in Host
      PROVE  Holds(workers'[u], jobs')
  <2>1. CASE u = w
    BY <1>2, <1>3, <2>1 DEF Holds, Moves
  <2>2. CASE u # w
    BY <1>2, <1>3, <2>2 DEF Holds
  <2> QED
    BY <2>1, <2>2
<1>6. ASSUME NEW u \in Host, u # w
      PROVE  Apart(workers[u], v) /\ Apart(v, workers[u])
  <2>1. Apart(workers[u], workers[w]) /\ Apart(workers[w], workers[u])
    BY <1>6 DEF Inv, WorkersOK
  <2>2. ASSUME workers[u].phase \in Phases, v.phase \in Phases, workers[u].job = v.job
        PROVE  workers[u].claim.fence # v.claim.fence
    BY <1>3, <1>4, <2>1, <2>2 DEF Moves, Apart
  <2> QED
    BY <2>2 DEF Apart
<1>7. \A t, u \in Host : t # u => Apart(workers'[t], workers'[u])
  <2>1. SUFFICES ASSUME NEW t \in Host, NEW u \in Host, t # u
                 PROVE  Apart(workers'[t], workers'[u])
    OBVIOUS
  <2>2. Apart(workers[t], workers[u])
    BY <2>1 DEF Inv, WorkersOK
  <2> QED
    BY <1>2, <1>6, <2>1, <2>2
<1> QED
  BY <1>2, <1>5, <1>7 DEF WorkersOK

LEMMA QueueKept ==
  ASSUME QueueOK, JobsGrow, UNCHANGED queue
  PROVE  QueueOK'
<1>1. {j \in Job : Accepted(j)}' = {j \in Job : Accepted(j)}
  BY DEF JobsGrow, Accepted
<1> QED
  BY <1>1, Zenon DEF QueueOK

(* A step of one process, which may start or end its child.                 *)
LEMMA StepKeeps ==
  ASSUME Inv, NEW w \in Host, NEW v, NEW c, Become(w, v), Moves(w, v), JobsKept, UNCHANGED queue,
         Guarded(v, c), children' = [children EXCEPT ![w] = c]
  PROVE  Inv'
<1>1. QueueOK' /\ JobsOK'
  BY QueueKept DEF Inv, JobsKept
<1>2. WorkersOK' /\ workers'[w] = v /\ \A u \in Host : u # w => workers'[u] = workers[u]
  BY WorkerKeeps
<1>3. ChildrenOK'
  <2>1. children \in [Host -> Nat] /\ \A u \in Host : Guarded(workers[u], children[u])
    BY DEF Inv, ChildrenOK
  <2>2. c \in Nat
    BY DEF Guarded
  <2>3. /\ children' \in [Host -> Nat] /\ children'[w] = c
        /\ \A u \in Host : u # w => children'[u] = children[u]
    BY <2>1, <2>2
  <2>4. \A u \in Host : Guarded(workers'[u], children'[u])
    BY <1>2, <2>1, <2>3
  <2> QED
    BY <2>3, <2>4 DEF ChildrenOK
<1> QED
  BY <1>1, <1>2, <1>3 DEF Inv

(* A step that leaves the children of the host alone.                       *)
LEMMA ChildlessStep ==
  ASSUME Inv, NEW w \in Host, NEW v, Become(w, v), Moves(w, v), JobsKept,
         UNCHANGED <<queue, children>>,
         \/ v.phase = "down"
         \/ /\ workers[w].phase # "down"
            /\ v.phase = "running" <=> workers[w].phase = "running"
  PROVE  Inv'
<1>1. v \in WorkerState /\ Guarded(workers[w], children[w]) /\ children \in [Host -> Nat]
  BY WorkerFacts DEF Moves, Inv, ChildrenOK
<1>2. PICK c : c = children[w]
  OBVIOUS
<1>3. Guarded(v, c)
  BY <1>1, <1>2 DEF Guarded
<1>4. children' = [children EXCEPT ![w] = c] /\ queue' = queue
  BY <1>1, <1>2
<1> QED
  BY <1>3, <1>4, StepKeeps, Zenon

\* A worker that ends its job, and one that is down.
LEMMA ReturnMoves ==
  ASSUME Inv, NEW w \in Host, workers[w].phase # "down", Return(w)
  PROVE  \E v : Become(w, v) /\ Moves(w, v) /\ v.phase \in {"idle", "down"}
<1>1. workers[w].shut \in BOOLEAN
  BY WorkerFacts, WorkerFields
<1>2. CASE Become(w, [Idle EXCEPT !.shut = workers[w].shut])
  <2>1. PICK v : v = [Idle EXCEPT !.shut = workers[w].shut]
    BY Zenon
  <2>2. v \in [phase : {"idle"}, shut : BOOLEAN] /\ v.phase = "idle"
    BY <1>1, <2>1 DEF Idle
  <2>3. v.phase \notin Phases
    BY <2>2 DEF Phases
  <2>4. Become(w, v)
    BY <1>2, <2>1 DEF Become
  <2> QED
    BY <2>2, <2>3, <2>4 DEF Moves, WorkerState
<1>3. CASE Become(w, Down)
  <2>1. Down \in WorkerState /\ Down.phase = "down" /\ Down.phase \notin Phases
    BY DEF Down, Phases, WorkerState
  <2>2. Moves(w, Down)
    BY <2>1 DEF Moves
  <2> QED
    BY <1>3, <2>1, <2>2
<1> QED
  BY <1>2, <1>3 DEF Return

(* Steps of the owners and of the clock.                                    *)
LEMMA WorkersRest ==
  ASSUME Inv, JobsOK', UNCHANGED <<workers, children>>,
         \A j \in Job : Len(jobs[j].attempts) <= Len(jobs'[j].attempts)
  PROVE  WorkersOK' /\ ChildrenOK'
<1>1. ASSUME NEW w \in Host
      PROVE  Holds(workers[w], jobs')
  <2>1. workers[w] \in WorkerState /\ Holds(workers[w], jobs)
    BY WorkerFacts
  <2>2. CASE workers[w].phase \in Phases
    <3>1. workers[w].job \in Job /\ workers[w].claim.fence \in Nat
      BY <2>1, <2>2, WorkerFields, SMTT(30)
    <3>2. PICK a, b, c : /\ a = workers[w].claim.fence
                         /\ b = Len(jobs[workers[w].job].attempts)
                         /\ c = Len(jobs'[workers[w].job].attempts)
      BY Zenon
    <3>3. b \in Nat
      BY <3>1, <3>2, JobFacts, SMTT(30) DEF Inv
    <3>4. c \in Nat
      <4>1. Shape(jobs'[workers[w].job])
        BY <3>1, Zenon DEF JobsOK, JobOK
      <4> QED
        BY <3>2, <4>1, ShapeLength, Zenon
    <3>5. a \in Nat /\ a <= b /\ b <= c
      BY <2>1, <2>2, <3>1, <3>2, Zenon DEF Holds
    <3>6. a <= c
      BY <3>3, <3>4, <3>5
    <3> QED
      BY <2>1, <2>2, <3>2, <3>6, Zenon DEF Holds
  <2>3. CASE workers[w].phase \notin Phases
    BY <2>3, SMTT(30) DEF Holds
  <2> QED
    BY <2>2, <2>3
<1> QED
  BY <1>1 DEF Inv, WorkersOK, ChildrenOK

LEMMA LaunchKeeps ==
  ASSUME Inv, NEW j \in Job, Launch(j)
  PROVE  Inv'
<1> DEFINE t == Appended([jobs[j] EXCEPT !.status = "queued"])
<1>1. /\ jobs = [k \in Job |-> jobs[k]] /\ jobs[j].status = "absent" /\ troubles' = troubles
      /\ jobs' = [jobs EXCEPT ![j] = t] /\ queue' = Append(queue, j)
  BY DEF Inv, JobsOK, Launch, Accepted
<1>2. JobsOK /\ Shape(jobs[j]) /\ troubles \in 0..MaxTroubles
  BY JobFacts, SMTT(30) DEF Inv, JobsOK
<1>3. /\ Shape(t) /\ t.status = "queued" /\ t.attempts = jobs[j].attempts /\ t.cancel = FALSE
      /\ t.length = jobs[j].length + 1 /\ t.lag = 0 /\ t.left = jobs[j].left
  BY <1>1, <1>2, LaunchShape, Zenon
<1> HIDE DEF t
<1>4. /\ jobs' = [k \in Job |-> jobs'[k]] /\ jobs'[j] = t
      /\ \A k \in Job : k # j => jobs'[k] = jobs[k]
  BY <1>1, Zenon
<1>5. JobOK(t, troubles)
  <2>1. jobs[j].length = 0
    BY <1>1, SMTT(30) DEF Inv, JobsOK, JobOK
  <2>2. /\ Evolves(jobs[j], t) /\ t.length <= MaxEvents
    BY <1>1, <1>3, <2>1, JobFacts, SMTT(30) DEF Evolves, Inv
  <2> QED
    BY <1>2, <2>2, JobFacts, EvolvesTimed, SMTT(30)
<1>6. JobsOK'
  BY <1>1, <1>2, <1>4, <1>5, JobFacts, SMTT(30) DEF JobsOK
<1>7. \A k \in Job : Len(jobs[k].attempts) <= Len(jobs'[k].attempts)
  <2> SUFFICES ASSUME NEW k \in Job
               PROVE  Len(jobs[k].attempts) <= Len(jobs'[k].attempts)
    OBVIOUS
  <2>1. jobs'[k].attempts = jobs[k].attempts
    BY <1>3, <1>4, Zenon
  <2>2. Len(jobs[k].attempts) \in Nat
    BY <1>2, JobFacts, Zenon
  <2> QED
    BY <2>1, <2>2, AtMostItself, Zenon
<1>8. WorkersOK' /\ ChildrenOK'
  BY <1>6, <1>7, WorkersRest, Zenon DEF Launch
<1>9. QueueOK'
  <2> DEFINE S == {k \in Job : Accepted(k)}
  <2>1. /\ S' = S \cup {j} /\ j \notin S
    BY <1>1, <1>3, <1>4, SMTT(30) DEF Accepted
  <2>2. IsFiniteSet(S) /\ queue \in Seq(Job) /\ Len(queue) = Cardinality(S)
    BY FS_Subset DEF Inv, QueueOK
  <2>3. Cardinality(S \cup {j}) = Cardinality(S) + 1
    BY <2>1, <2>2, FS_AddElement, Zenon
  <2> HIDE DEF S
  <2>4. queue' \in Seq(Job) /\ Len(queue') = Cardinality(S')
    BY <1>1, <2>1, <2>2, <2>3, SMTT(30)
  <2> QED
    BY <2>4 DEF QueueOK, S
<1> QED
  BY <1>6, <1>8, <1>9 DEF Inv

LEMMA RequestCancelKeeps ==
  ASSUME Inv, NEW j \in Job, NEW key \in Key, RequestCancel(j, key)
  PROVE  Inv'
<1> DEFINE s == jobs[j]
           t == CancelRequested(s, key)
<1>1. /\ s.status # "absent" /\ t # s /\ t.length <= MaxEvents /\ jobs' = [jobs EXCEPT ![j] = t]
      /\ UNCHANGED <<queue, workers, children, troubles>>
  BY SMTT(30) DEF RequestCancel, Accepted, CanAppend
<1>2. key \notin s.commands /\ s.status \in {"queued", "running"}
  BY <1>1 DEF CancelRequested
<1>3. JobsOK /\ Shape(s) /\ s.length \in Nat /\ Len(s.attempts) \in Nat
  BY JobFacts, SMTT(30) DEF Inv
<1>4. /\ Shape(t) /\ t.attempts = s.attempts
      /\ t.status = (IF s.status = "queued" THEN "cancelled" ELSE s.status)
      /\ t.length = s.length + 1 /\ t.lag = 0 /\ t.left = s.left
  BY <1>2, <1>3, CancelShape, Zenon
<1> HIDE DEF t
<1>5. Evolves(s, t)
  BY <1>2, <1>3, <1>4, SMTT(30) DEF Evolves
<1>6. JobsKept
  BY <1>1, <1>3, <1>5, OneEvolves, Zenon DEF TroublesPass
<1> QED
  BY <1>1, <1>6, WorkersRest, QueueKept, SMTT(30) DEF Inv, JobsKept, JobsGrow

(* The clock of the database moves by one.                                  *)
LEMMA ShiftKeeps ==
  ASSUME Inv, NEW d \in {-1, 1}, jobs' = [j \in Job |-> Shifted(jobs[j], d)],
         troubles' = (IF d = 1 THEN troubles + 1 ELSE troubles), troubles' \in 0..MaxTroubles,
         UNCHANGED <<queue, workers, children>>
  PROVE  Inv'
<1>1. troubles \in 0..MaxTroubles /\ JobsOK
  BY DEF Inv, JobsOK
<1>2. ASSUME NEW j \in Job
      PROVE  /\ JobOK(jobs'[j], troubles') /\ jobs'[j].attempts = jobs[j].attempts
             /\ jobs'[j].status = jobs[j].status
  <2> DEFINE s == jobs[j]
             t == Shifted(s, d)
  <2>1. Shape(s) /\ Timed(s, troubles) /\ s.length <= MaxEvents /\ (s.status = "absent" => s.length = 0)
    BY <1>1 DEF JobsOK, JobOK
  <2>2. /\ Shape(t) /\ t.status = s.status /\ t.attempts = s.attempts /\ t.length = s.length
        /\ Timed(t, IF d = 1 THEN troubles + 1 ELSE troubles)
    BY <1>1, <2>1, ShiftedShape
  <2>3. jobs'[j] = t
    OBVIOUS
  <2> HIDE DEF t
  <2> QED
    BY <2>1, <2>2, <2>3 DEF JobOK
<1>3. JobsOK'
  BY <1>2 DEF JobsOK
<1>4. JobsGrow
  BY <1>1, <1>2, JobFacts DEF JobsGrow
<1> QED
  BY <1>3, <1>4, WorkersRest, QueueKept DEF Inv, JobsGrow

LEMMA ClockKeeps ==
  ASSUME Inv, Tick \/ SetBack
  PROVE  Inv'
<1>1. troubles \in 0..MaxTroubles
  BY DEF Inv, JobsOK
<1>2. CASE Tick
  BY <1>1, <1>2, ShiftKeeps DEF Tick
<1>3. CASE SetBack
  BY <1>1, <1>3, ShiftKeeps DEF SetBack
<1> QED
  BY <1>2, <1>3

LEMMA DownMoves ==
  ASSUME NEW w, NEW v, v = Down \/ v \in [phase : {"idle"}, shut : BOOLEAN]
  PROVE  Moves(w, v) /\ v.phase \in {"down", "idle"}
<1>1. v.phase \in {"down", "idle"} /\ v.phase \notin Phases
  BY DEF Down, Phases
<1> QED
  BY <1>1 DEF Moves, WorkerState

(* Start, stop, signal and end of a process, and the end of an orphan.      *)
LEMMA ProcessKeeps ==
  ASSUME Inv, NEW w \in Host, Start(w) \/ Stop(w) \/ Signal(w) \/ Crash(w) \/ OrphanExits(w)
  PROVE  Inv'
<1>1. /\ workers[w] \in WorkerState /\ Holds(workers[w], jobs) /\ Guarded(workers[w], children[w])
      /\ JobsOK /\ workers \in [Host -> WorkerState] /\ children \in [Host -> Nat]
  BY WorkerFacts DEF Inv, WorkersOK, ChildrenOK
<1>2. JobsKept /\ queue' = queue
  <2>1. UNCHANGED <<queue, jobs>> /\ TroublesPass
    BY DEF Start, Stop, Signal, Crash, OrphanExits, TroublesPass
  <2> QED
    BY <1>1, <2>1, NoneEvolves
<1>3. CASE Start(w)
  <2>1. PICK v, c : v = Idle /\ c = children[w]
    OBVIOUS
  <2>2. Moves(w, v) /\ v.phase = "idle"
    BY <2>1, DownMoves, Zenon DEF Idle
  <2>3. Guarded(v, c) /\ children' = [children EXCEPT ![w] = c] /\ Become(w, v)
    BY <1>1, <1>3, <2>1, <2>2 DEF Start, Guarded
  <2> QED
    BY <1>2, <2>2, <2>3, StepKeeps, Zenon
<1>4. CASE Stop(w) \/ Crash(w)
  <2>1. PICK v : v = Down
    OBVIOUS
  <2>2. Become(w, v) /\ UNCHANGED <<queue, children>>
    BY <1>4, <2>1 DEF Stop, Crash
  <2>3. Moves(w, v) /\ v.phase = "down"
    BY <2>1, DownMoves DEF Down
  <2> QED
    BY <1>2, <2>2, <2>3, ChildlessStep, Zenon
<1>5. CASE Signal(w)
  <2>1. PICK v : v = [workers[w] EXCEPT !.shut = TRUE]
    BY Zenon
  <2>2. /\ workers[w].phase # "down" /\ workers' = [workers EXCEPT ![w].shut = TRUE]
        /\ UNCHANGED <<queue, children>>
    BY <1>5 DEF Signal, At
  <2>3. Become(w, v)
    BY <2>1, <2>2, <1>1 DEF Become
  <2>4. Moves(w, v) /\ v.phase = workers[w].phase
    <3>1. CASE workers[w] = Down
      BY <2>2, <3>1 DEF Down
    <3>2. CASE workers[w] \in [phase : {"idle"}, shut : BOOLEAN]
      <4>1. v \in [phase : {"idle"}, shut : BOOLEAN] /\ v.phase = workers[w].phase
        BY <2>1, <3>2, Zenon
      <4> QED
        BY <4>1, DownMoves
    <3>3. CASE workers[w] \in Busy
      <4>1. v \in Busy
        BY <2>1, <3>3, Zenon DEF Busy
      <4>2. /\ v.phase = workers[w].phase /\ v.claim = workers[w].claim /\ v.job = workers[w].job
            /\ v.result = workers[w].result
        BY <2>1, <3>3 DEF Busy
      <4>3. v.phase \in Phases /\ Progress(workers[w])
        BY <1>1, <4>1, <4>2 DEF Busy, Holds
      <4> QED
        BY <4>1, <4>2, <4>3, Zenon DEF Moves, WorkerState, Progress
    <3> QED
      BY <1>1, <3>1, <3>2, <3>3 DEF WorkerState
  <2> QED
    BY <1>2, <2>2, <2>3, <2>4, ChildlessStep
<1>6. CASE OrphanExits(w)
  <2>1. PICK v, c : v = workers[w] /\ c = children[w] - 1
    OBVIOUS
  <2>2. /\ workers[w].phase = "down" /\ children[w] > 0 /\ children' = [children EXCEPT ![w] = c]
        /\ workers' = workers
    BY <1>6, <2>1 DEF OrphanExits, At
  <2>3. Become(w, v)
    BY <1>1, <2>1, <2>2 DEF Become
  <2>4. v.phase = "down" /\ Moves(w, v)
    BY <1>1, <2>1, <2>2, SMTT(30) DEF Moves, Phases
  <2>5. Guarded(v, c)
    BY <1>1, <2>1, <2>2 DEF Guarded
  <2> QED
    BY <1>2, <2>2, <2>3, <2>4, <2>5, StepKeeps, Zenon
<1> QED
  BY <1>3, <1>4, <1>5, <1>6

-----------------------------------------------------------------------------
(* The heartbeat.                                                           *)

LEMMA BusyFields ==
  ASSUME NEW v \in Busy
  PROVE  /\ v.phase \in Phases /\ v.shut \in BOOLEAN /\ v.job \in Job /\ v.claim \in Token
         /\ v.claim.fence \in 1..MaxAttempts /\ v.claim.revision \in 0..(MaxRenewals + 3)
         /\ v.phase \notin {"down", "idle"}
  BY DEF Busy, Token, Phases

\* What control makes of a worker: it finishes, or goes on with its claim
\* renewed.
Finishes(u, v) ==
  v \in Busy /\ v.phase = "finishing" /\ v.job = u.job /\ v.claim.fence = u.claim.fence
GoesOn(u, next, v) ==
  /\ v \in Busy /\ v.phase = next.phase /\ v.job = u.job /\ v.result = next.result
  /\ v.claim.fence = u.claim.fence /\ v.claim.revision = u.claim.revision + 1

LEMMA FinishingFields ==
  ASSUME NEW w, workers[w] \in Busy,
         NEW stopped \in {"no", "shutdown", "cancel_requested", "lease_lost"}
  PROVE  /\ Finishes(workers[w], Finishing(w, stopped))
         /\ Finishing(w, stopped).claim = workers[w].claim
<1>1. Finishing(w, stopped) \in Busy
  <2>1. "finishing" \in Phases
    BY DEF Phases
  <2> QED
    BY <2>1, Zenon DEF Busy, Finishing
<1> QED
  BY <1>1 DEF Finishes, Finishing, Busy

LEMMA ControlKeeps ==
  ASSUME Inv, NEW w \in Host, workers[w] \in Busy,
         workers[w].claim.revision <= MaxRenewals + 2, NEW next \in Busy, next.job = workers[w].job,
         Control(w, next)
  PROVE  /\ JobsKept
         /\ \E v : /\ Become(w, v)
                   /\ Finishes(workers[w], v) \/ (~workers[w].shut /\ GoesOn(workers[w], next, v))
<1> DEFINE u == workers[w]
           j == u.job
           s == jobs[j]
           t == Renewed(s)
<1>1. /\ j \in Job /\ u.claim \in Token /\ JobsOK /\ u.shut \in BOOLEAN
      /\ u.claim.revision \in Nat
  BY BusyFields, SMTT(30) DEF Inv
<1>2. Shape(s) /\ s.length \in Nat /\ Len(s.attempts) \in Nat /\ s.cancel \in BOOLEAN
  BY <1>1, JobFacts, SMTT(30)
<1>3. CASE u.shut \/ ~(RequireClaim(s, u.claim) /\ CanAppend(s, t))
  <2>1. PICK stopped \in {"shutdown", "lease_lost"} :
          Become(w, Finishing(w, stopped)) /\ UNCHANGED <<jobs, troubles>>
    BY <1>3 DEF Control
  <2>2. JobsKept
    BY <1>1, <2>1, NoneEvolves DEF TroublesPass
  <2>3. Finishes(u, Finishing(w, stopped))
    BY FinishingFields
  <2> QED
    BY <2>1, <2>2, <2>3
<1>4. CASE ~u.shut /\ RequireClaim(s, u.claim) /\ CanAppend(s, t)
  <2>1. s.claim = u.claim /\ s.status = "running" /\ t.length <= MaxEvents
    BY <1>4 DEF RequireClaim, CanAppend
  <2>2. /\ Shape(t) /\ t.status = "running" /\ t.length = s.length + 1 /\ t.lag = 0
        /\ t.left = Lease /\ t.claim \in Token /\ t.claim.fence = s.claim.fence
        /\ t.claim.revision = s.claim.revision + 1 /\ t.attempts = s.attempts
    <3>1. s.claim.revision < MaxRenewals + 3
      BY <1>1, <1>2, <2>1
    <3> QED
      BY <1>1, <1>2, <2>1, <3>1, RenewedShape, Zenon
  <2>3. /\ \/ /\ jobs' = [jobs EXCEPT ![j] = t] /\ UNCHANGED troubles
              /\ Become(w, [IF s.cancel THEN Finishing(w, "cancel_requested") ELSE next
                              EXCEPT !.claim = t.claim])
           \/ /\ troubles < MaxTroubles /\ troubles' = troubles + 1
              /\ jobs' \in {jobs, [jobs EXCEPT ![j] = t]}
              /\ Become(w, Finishing(w, "lease_lost"))
    BY <1>4 DEF Control, Call
  <2> HIDE DEF t
  <2>4. Evolves(s, t)
    BY <1>2, <2>1, <2>2 DEF Evolves
  <2>5. JobsKept
    BY <1>1, <2>1, <2>3, <2>4, OneEvolves DEF TroublesPass
  <2>6. CASE Become(w, Finishing(w, "lease_lost"))
    BY <2>5, <2>6, FinishingFields, SMTT(30)
  <2>7. CASE Become(w, [IF s.cancel THEN Finishing(w, "cancel_requested") ELSE next
                          EXCEPT !.claim = t.claim])
    <3>1. PICK r : r = IF s.cancel THEN Finishing(w, "cancel_requested") ELSE next
      OBVIOUS
    <3>2. PICK v : v = [r EXCEPT !.claim = t.claim]
      BY Zenon
    <3>3. r \in Busy /\ r.job = u.job
      BY <3>1, FinishingFields DEF Finishes
    <3>4. v \in Busy
      BY <2>2, <3>2, <3>3, Zenon DEF Busy
    <3>5. v.phase = r.phase /\ v.job = u.job /\ v.result = r.result /\ v.claim = t.claim
      BY <3>2, <3>3 DEF Busy
    <3>6. Become(w, v)
      BY <2>7, <3>1, <3>2
    <3>7. CASE s.cancel
      <4>1. r.phase = "finishing"
        BY <3>1, <3>7, FinishingFields DEF Finishes
      <4>2. Finishes(u, v)
        BY <2>1, <2>2, <3>4, <3>5, <4>1 DEF Finishes
      <4> QED
        BY <2>5, <3>6, <4>2
    <3>8. CASE ~s.cancel
      <4>1. GoesOn(u, next, v)
        BY <2>1, <2>2, <3>1, <3>4, <3>5, <3>8, SMTT(30) DEF GoesOn
      <4> QED
        BY <1>4, <2>5, <3>6, <4>1, Zenon
    <3> QED
      BY <3>7, <3>8
  <2> QED
    BY <2>3, <2>6, <2>7
<1> QED
  BY <1>1, <1>3, <1>4, Zenon

LEMMA BusyFacts ==
  ASSUME Inv, NEW w \in Host, workers[w].phase \in Phases
  PROVE  workers[w] \in Busy /\ Progress(workers[w]) /\ Guarded(workers[w], children[w])
  BY WorkerFacts, WorkerFields DEF Holds

LEMMA FinishesMoves ==
  ASSUME NEW w, workers[w] \in Busy, NEW v, Finishes(workers[w], v)
  PROVE  Moves(w, v) /\ v.phase = "finishing"
<1>1. workers[w].phase \in Phases
  BY BusyFields
<1> QED
  BY <1>1 DEF Finishes, Moves, WorkerState, Progress

LEMMA GoesOnMoves ==
  ASSUME NEW w, workers[w] \in Busy, NEW next, NEW v, GoesOn(workers[w], next, v), Progress(v)
  PROVE  Moves(w, v) /\ v.phase = next.phase
<1>1. workers[w].phase \in Phases
  BY BusyFields
<1> QED
  BY <1>1 DEF GoesOn, Moves, WorkerState

LEMMA StageFields ==
  ASSUME NEW w, workers[w] \in Busy, NEW phase \in Phases
  PROVE  LET v == Stage(w, phase)
         IN  /\ v \in Busy /\ v.phase = phase /\ v.job = workers[w].job
             /\ v.claim = workers[w].claim /\ v.result = workers[w].result
<1>1. Stage(w, phase) \in Busy
  BY Zenon DEF Busy, Stage
<1> QED
  BY <1>1 DEF Stage, Busy

LEMMA LoadKeeps ==
  ASSUME Inv, NEW w \in Host, Load(w)
  PROVE  Inv'
<1>1. /\ workers[w].phase = "loading" /\ Control(w, Stage(w, "running"))
      /\ children' = [children EXCEPT ![w] = Spawned(w)] /\ queue' = queue
  BY DEF Load, At
<1>2. /\ workers[w] \in Busy /\ Progress(workers[w]) /\ Guarded(workers[w], children[w])
      /\ "running" \in Phases
  BY <1>1, BusyFacts DEF Phases
<1>3. PICK next : next = Stage(w, "running")
  OBVIOUS
<1>4. next \in Busy /\ next.job = workers[w].job /\ next.phase = "running"
  BY <1>2, <1>3, StageFields
<1>5. workers[w].claim.revision = 0 /\ children[w] = 0
  BY <1>1, <1>2 DEF Progress, Guarded
<1>6. Control(w, next)
  BY <1>1, <1>3
<1>7. JobsKept
  BY <1>2, <1>4, <1>5, <1>6, ControlKeeps
<1>8. PICK v : /\ Become(w, v)
               /\ Finishes(workers[w], v) \/ (~workers[w].shut /\ GoesOn(workers[w], next, v))
  BY <1>2, <1>4, <1>5, <1>6, ControlKeeps
<1>9. Moves(w, v) /\ v.phase \in {"finishing", "running"}
  <2>1. CASE Finishes(workers[w], v)
    BY <1>2, <2>1, FinishesMoves
  <2>2. CASE GoesOn(workers[w], next, v)
    <3>1. v.phase = "running" /\ v.claim.revision = 1
      BY <1>4, <1>5, <2>2 DEF GoesOn
    <3>2. Progress(v)
      BY <3>1 DEF Progress
    <3> QED
      BY <1>2, <2>2, <3>1, <3>2, GoesOnMoves
  <2> QED
    BY <1>8, <2>1, <2>2
<1>10. PICK c : c = Spawned(w)
  OBVIOUS
<1>11. Guarded(v, c)
  <2>1. workers'[w] = v
    BY <1>8 DEF Become, Inv, WorkersOK
  <2> QED
    BY <1>5, <1>9, <1>10, <2>1 DEF Spawned, Guarded
<1> QED
  BY <1>1, <1>7, <1>8, <1>9, <1>10, <1>11, StepKeeps, Zenon

LEMMA PollKeeps ==
  ASSUME Inv, NEW w \in Host, Poll(w)
  PROVE  Inv'
<1>1. /\ workers[w].phase = "running" /\ Control(w, workers[w])
      /\ workers[w].claim.revision < MaxRenewals \/ workers[w].shut
      /\ children' = [children EXCEPT ![w] = Reaped(w)] /\ queue' = queue
  BY DEF Poll, At
<1>2. workers[w] \in Busy /\ Progress(workers[w]) /\ Guarded(workers[w], children[w])
  BY <1>1, BusyFacts DEF Phases
<1>3. PICK next : next = workers[w]
  OBVIOUS
<1>4. /\ workers[w].claim.revision <= MaxRenewals + 1 /\ children[w] = 1
      /\ workers[w].claim.revision \in Nat
  BY <1>1, <1>2, BusyFields DEF Progress, Guarded
<1>5. next \in Busy /\ next.job = workers[w].job /\ Control(w, next)
      /\ workers[w].claim.revision <= MaxRenewals + 2
  BY <1>1, <1>2, <1>3, <1>4
<1>6. JobsKept
  BY <1>2, <1>5, ControlKeeps, Zenon
<1>7. PICK v : /\ Become(w, v)
               /\ Finishes(workers[w], v) \/ (~workers[w].shut /\ GoesOn(workers[w], next, v))
  BY <1>2, <1>5, ControlKeeps, Zenon
<1>8. Moves(w, v) /\ v.phase \in {"finishing", "running"}
  <2>1. CASE Finishes(workers[w], v)
    BY <1>2, <2>1, FinishesMoves
  <2>2. CASE ~workers[w].shut /\ GoesOn(workers[w], next, v)
    <3>1. v.phase = "running" /\ v.claim.revision <= MaxRenewals
      BY <1>1, <1>3, <1>4, <2>2 DEF GoesOn
    <3>2. Progress(v)
      BY <1>4, <2>2, <3>1 DEF Progress, GoesOn
    <3> QED
      BY <1>2, <2>2, <3>1, <3>2, GoesOnMoves, Zenon
  <2> QED
    BY <1>7, <2>1, <2>2
<1>9. PICK c : c = Reaped(w)
  OBVIOUS
<1>10. Guarded(v, c)
  <2>1. workers'[w] = v
    BY <1>7 DEF Become, Inv, WorkersOK
  <2> QED
    BY <1>4, <1>8, <1>9, <2>1 DEF Reaped, Guarded
<1> QED
  BY <1>1, <1>6, <1>7, <1>8, <1>9, <1>10, StepKeeps, Zenon

LEMMA RunEndsKeeps ==
  ASSUME Inv, NEW w \in Host, RunEnds(w)
  PROVE  Inv'
<1>1. /\ workers[w].phase = "running" /\ children' = [children EXCEPT ![w] = @ - 1]
      /\ UNCHANGED <<queue, jobs, troubles>>
  BY DEF RunEnds, At
<1>2. /\ workers[w] \in Busy /\ Progress(workers[w]) /\ Guarded(workers[w], children[w])
      /\ "validating" \in Phases /\ children \in [Host -> Nat]
  BY <1>1, BusyFacts, Zenon DEF Phases, Inv, ChildrenOK
<1>3. PICK result \in {"completed", "incomplete", "failed"} :
        Become(w, [workers[w] EXCEPT !.phase = "validating", !.result = result])
  BY Zenon DEF RunEnds
<1>4. PICK v : v = [workers[w] EXCEPT !.phase = "validating", !.result = result]
  OBVIOUS
<1>5. v \in Busy
  BY <1>2, <1>4, Zenon DEF Busy
<1>6. /\ v.phase = "validating" /\ v.result = result /\ v.job = workers[w].job
      /\ v.claim = workers[w].claim
  BY <1>2, <1>4 DEF Busy
<1>7. Moves(w, v)
  BY <1>1, <1>2, <1>5, <1>6, Zenon DEF Moves, WorkerState, Progress, Phases
<1>8. PICK c : c = children[w] - 1
  OBVIOUS
<1>9. Guarded(v, c) /\ children' = [children EXCEPT ![w] = c]
  BY <1>1, <1>2, <1>6, <1>8 DEF Guarded
<1>10. JobsKept
  BY <1>1, NoneEvolves DEF TroublesPass, Inv
<1> QED
  BY <1>1, <1>3, <1>4, <1>7, <1>9, <1>10, StepKeeps, Zenon

(* A stage between two controls: with a heartbeat, or within its interval.  *)
LEMMA BetweenKeeps ==
  ASSUME Inv, NEW w \in Host, workers[w] \in Busy, workers[w].phase # "running",
         NEW next \in Busy, next.job = workers[w].job, next.claim = workers[w].claim,
         next.phase # "running", workers[w].claim.revision <= MaxRenewals + 2,
         Progress(next), UNCHANGED <<queue, children>>,
         \A v : GoesOn(workers[w], next, v) => Progress(v),
         Control(w, next) \/ Throttled(w, next)
  PROVE  Inv'
<1>1. workers[w].phase \in Phases /\ workers[w].phase # "down" /\ next.phase \in Phases
  BY BusyFields, Zenon
<1>2. CASE Control(w, next)
  <2>1. JobsKept
    BY <1>2, ControlKeeps, Zenon
  <2>2. PICK v : /\ Become(w, v)
                 /\ Finishes(workers[w], v) \/ (~workers[w].shut /\ GoesOn(workers[w], next, v))
    BY <1>2, ControlKeeps, Zenon
  <2>3. Moves(w, v) /\ v.phase # "running"
    BY <2>2, FinishesMoves, GoesOnMoves
  <2> QED
    BY <1>1, <2>1, <2>2, <2>3, ChildlessStep, Zenon
<1>3. CASE Throttled(w, next)
  <2>1. Become(w, next) /\ UNCHANGED <<jobs, troubles>>
    BY <1>3 DEF Throttled
  <2>2. JobsKept
    BY <2>1, NoneEvolves, Zenon DEF TroublesPass, Inv
  <2>3. Moves(w, next)
    BY <1>1, Zenon DEF Moves, WorkerState
  <2> QED
    BY <1>1, <2>1, <2>2, <2>3, ChildlessStep, Zenon
<1> QED
  BY <1>2, <1>3, Zenon

LEMMA ValidateKeeps ==
  ASSUME Inv, NEW w \in Host, Validate(w)
  PROVE  Inv'
<1> DEFINE expr == IF workers[w].result = "failed" THEN Finishing(w, "no")
                   ELSE Stage(w, "publishing")
<1>1. /\ workers[w].phase = "validating" /\ UNCHANGED <<queue, children>>
      /\ Control(w, expr) \/ Throttled(w, expr)
  BY Zenon DEF Validate, At
<1>2. /\ workers[w] \in Busy /\ Progress(workers[w]) /\ "publishing" \in Phases
  BY <1>1, BusyFacts, Zenon DEF Phases
<1>3. /\ workers[w].result \in {"completed", "incomplete", "failed"}
      /\ workers[w].claim.revision <= MaxRenewals + 1 /\ workers[w].claim.revision \in Nat
  BY <1>1, <1>2, BusyFields, SMTT(30) DEF Progress, Busy
<1>4. PICK next : next = expr
  OBVIOUS
<1>5. /\ next \in Busy /\ next.job = workers[w].job /\ next.claim = workers[w].claim
      /\ \/ next.phase = "finishing"
         \/ next.phase = "publishing" /\ next.result \in {"completed", "incomplete"}
  <2>1. CASE workers[w].result = "failed"
    BY <1>2, <1>4, <2>1, FinishingFields, Zenon DEF Finishes
  <2>2. CASE workers[w].result # "failed"
    BY <1>2, <1>3, <1>4, <2>2, StageFields, Zenon
  <2> QED
    BY <2>1, <2>2
<1>6. Progress(next)
  BY <1>3, <1>5 DEF Progress
<1>7. \A v : GoesOn(workers[w], next, v) => Progress(v)
  BY <1>3, <1>5 DEF Progress, GoesOn
<1>8. Control(w, next) \/ Throttled(w, next)
  BY <1>1, <1>4
<1> HIDE DEF expr
<1> QED
  BY <1>1, <1>2, <1>3, <1>5, <1>6, <1>7, <1>8, BetweenKeeps, SMTT(30)

LEMMA PrepareKeeps ==
  ASSUME Inv, NEW w \in Host, Prepare(w)
  PROVE  Inv'
<1>1. /\ workers[w].phase = "publishing" /\ UNCHANGED <<queue, children>>
      /\ Control(w, Stage(w, "committing")) \/ Throttled(w, Stage(w, "committing"))
  BY Zenon DEF Prepare, At
<1>2. /\ workers[w] \in Busy /\ Progress(workers[w]) /\ "committing" \in Phases
  BY <1>1, BusyFacts, Zenon DEF Phases
<1>3. /\ workers[w].result \in {"completed", "incomplete"}
      /\ workers[w].claim.revision <= MaxRenewals + 2 /\ workers[w].claim.revision \in Nat
  BY <1>1, <1>2, BusyFields DEF Progress
<1>4. PICK next : next = Stage(w, "committing")
  OBVIOUS
<1>5. /\ next \in Busy /\ next.job = workers[w].job /\ next.claim = workers[w].claim
      /\ next.phase = "committing" /\ next.result \in {"completed", "incomplete"}
  BY <1>2, <1>3, <1>4, StageFields, Zenon
<1>6. Progress(next)
  BY <1>5 DEF Progress
<1>7. \A v : GoesOn(workers[w], next, v) => Progress(v)
  BY <1>5 DEF Progress, GoesOn
<1>8. Control(w, next) \/ Throttled(w, next)
  BY <1>1, <1>4
<1> QED
  BY <1>1, <1>2, <1>3, <1>5, <1>6, <1>7, <1>8, BetweenKeeps, Zenon

(* publish and finish close the attempt, or leave the job alone.            *)
LEMMA CloseKeeps ==
  ASSUME Inv, TroublesPass, NEW j \in Job, NEW claim, RequireClaim(jobs[j], claim),
         NEW outcome \in Terminal \cup {"abandoned"}, outcome = "abandoned" => ~jobs[j].cancel,
         CanAppend(jobs[j], Closed(jobs[j], outcome)),
         jobs' \in {jobs, [jobs EXCEPT ![j] = Closed(jobs[j], outcome)]}
  PROVE  JobsKept
<1> DEFINE s == jobs[j]
           t == Closed(s, outcome)
<1>1. s.status = "running" /\ t.length <= MaxEvents
  BY DEF RequireClaim, CanAppend
<1>2. JobsOK /\ s \in State /\ Shape(s) /\ s.length \in Nat /\ Len(s.attempts) \in Nat
  BY JobFacts DEF Inv
<1>3. Len(s.attempts) > 0
  BY <1>1, <1>2, Zenon DEF Shape, Tells
<1>4. /\ Shape(t) /\ Len(t.attempts) = Len(s.attempts)
  BY <1>1, <1>2, ClosedShape
<1>5. /\ t.length = s.length + 1 /\ t.lag = 0 /\ t.left = 0 /\ t.status = ClosedStatus(outcome)
  BY <1>2, <1>3, ClosedFields, Zenon
<1>6. ClosedStatus(outcome) # "absent"
  BY DEF ClosedStatus, Terminal
<1>7. jobs' \in {jobs, [jobs EXCEPT ![j] = t]}
  OBVIOUS
<1> HIDE DEF t
<1>8. Evolves(s, t)
  BY <1>2, <1>4, <1>5, <1>6 DEF Evolves
<1> QED
  BY <1>1, <1>2, <1>7, <1>8, OneEvolves

LEMMA PublishKeeps ==
  ASSUME Inv, NEW w \in Host, Publish(w)
  PROVE  Inv'
<1> DEFINE u == workers[w]
           s == jobs[u.job]
           t == Closed(s, u.result)
<1>1. u.phase = "committing" /\ UNCHANGED <<queue, children>>
  BY Zenon DEF Publish, At
<1>2. /\ u \in Busy /\ Progress(u) /\ u.phase \notin {"down", "running"}
  BY <1>1, BusyFacts DEF Phases
<1>3. u.result \in {"completed", "incomplete"} /\ u.job \in Job /\ JobsOK
  BY <1>1, <1>2, BusyFields DEF Progress, Inv
<1>4. Finishes(u, Finishing(w, "no"))
  BY <1>2, FinishingFields
<1>5. PICK f : f = Finishing(w, "no")
  OBVIOUS
<1>6. Moves(w, f) /\ f.phase = "finishing"
  BY <1>2, <1>4, <1>5, FinishesMoves
<1>7. CASE Publishable(s, t, u.claim)
  <2>1. \/ jobs' = [jobs EXCEPT ![u.job] = t] /\ Return(w) /\ UNCHANGED troubles
        \/ /\ troubles < MaxTroubles /\ troubles' = troubles + 1
           /\ jobs' \in {jobs, [jobs EXCEPT ![u.job] = t]} /\ Become(w, Finishing(w, "no"))
    BY <1>7, Zenon DEF Publish, Call
  <2>2. RequireClaim(s, u.claim) /\ CanAppend(s, t)
    BY <1>7, Zenon DEF Publishable
  <2>3. JobsKept
    <3>1. PICK j, outcome, claim : j = u.job /\ outcome = u.result /\ claim = u.claim
      OBVIOUS
    <3>2. j \in Job /\ outcome \in Terminal /\ outcome # "abandoned"
      BY <1>3, <3>1 DEF Terminal
    <3>3. /\ RequireClaim(jobs[j], claim) /\ CanAppend(jobs[j], Closed(jobs[j], outcome))
          /\ jobs' \in {jobs, [jobs EXCEPT ![j] = Closed(jobs[j], outcome)]}
      BY <2>1, <2>2, <3>1, SMTT(30)
    <3>4. TroublesPass
      BY <2>1 DEF TroublesPass
    <3> QED
      BY <3>2, <3>3, <3>4, CloseKeeps
  <2>4. PICK v : Become(w, v) /\ Moves(w, v) /\ v.phase \in {"idle", "down", "finishing"}
    <3>1. CASE Return(w)
      BY <1>2, <3>1, ReturnMoves, SMTT(30)
    <3>2. CASE Become(w, Finishing(w, "no"))
      BY <1>5, <1>6, <3>2
    <3> QED
      BY <2>1, <3>1, <3>2
  <2> QED
    BY <1>1, <1>2, <2>3, <2>4, ChildlessStep
<1>8. CASE ~Publishable(s, t, u.claim)
  <2>1. Become(w, f) /\ UNCHANGED <<jobs, troubles>>
    BY <1>5, <1>8 DEF Publish
  <2>2. JobsKept
    BY <1>3, <2>1, NoneEvolves, Zenon DEF TroublesPass
  <2> QED
    BY <1>1, <1>2, <1>6, <2>1, <2>2, ChildlessStep
<1> QED
  BY <1>7, <1>8

LEMMA FinishKeeps ==
  ASSUME Inv, NEW w \in Host, Finish(w)
  PROVE  Inv'
<1> DEFINE u == workers[w]
           s == jobs[u.job]
           t == Closed(s, FinishOutcome(s, u.stopped))
<1>1. u.phase = "finishing" /\ UNCHANGED <<queue, children>>
  BY Zenon DEF Finish, At
<1>2. /\ u \in Busy /\ u.phase \notin {"down", "running"} /\ u.job \in Job /\ JobsOK
  BY <1>1, BusyFacts, BusyFields DEF Phases, Inv
<1>3. /\ Return(w) \/ Become(w, Down)
      /\ TroublesPass
      /\ \/ jobs' = jobs
         \/ /\ jobs' \in {jobs, [jobs EXCEPT ![u.job] = t]} /\ RequireClaim(s, u.claim)
            /\ CanAppend(s, t)
  BY Zenon DEF Finish, Call, TroublesPass
<1>4. JobsKept
  <2>1. CASE jobs' = jobs
    BY <1>2, <1>3, <2>1, NoneEvolves, Zenon
  <2>2. CASE /\ jobs' \in {jobs, [jobs EXCEPT ![u.job] = t]} /\ RequireClaim(s, u.claim)
             /\ CanAppend(s, t)
    <3>1. PICK j, outcome, claim :
            j = u.job /\ outcome = FinishOutcome(s, u.stopped) /\ claim = u.claim
      OBVIOUS
    <3>2. /\ j \in Job /\ outcome \in Terminal \cup {"abandoned"}
          /\ outcome = "abandoned" => ~jobs[j].cancel
      BY <1>2, <3>1 DEF Terminal, FinishOutcome
    <3>3. /\ RequireClaim(jobs[j], claim) /\ CanAppend(jobs[j], Closed(jobs[j], outcome))
          /\ jobs' \in {jobs, [jobs EXCEPT ![j] = Closed(jobs[j], outcome)]}
      BY <2>2, <3>1
    <3> QED
      BY <1>3, <3>2, <3>3, CloseKeeps
  <2> QED
    BY <1>3, <2>1, <2>2
<1>5. PICK v : Become(w, v) /\ Moves(w, v) /\ v.phase \in {"idle", "down"}
  <2>1. CASE Return(w)
    BY <1>2, <2>1, ReturnMoves, Zenon
  <2>2. CASE Become(w, Down)
    BY <2>2, DownMoves
  <2> QED
    BY <1>3, <2>1, <2>2
<1> QED
  BY <1>1, <1>2, <1>4, <1>5, ChildlessStep, Zenon

-----------------------------------------------------------------------------
(* claim_next                                                               *)

\* The job is granted: one more attempt under a new claim.
GrantedAs(s, t) ==
  /\ Evolves(s, t) /\ t.status = "running" /\ ~s.cancel /\ ~t.cancel
  /\ Len(t.attempts) = Len(s.attempts) + 1
  /\ t.claim \in Token /\ t.claim.fence = Len(s.attempts) + 1 /\ t.claim.revision = 0

LEMMA GrantedShape ==
  ASSUME NEW s, Shape(s), s.status \in {"queued", "running"}, Recovered(s).status = "queued"
  PROVE  GrantedAs(s, Claimed(Recovered(s)))
<1> DEFINE r == Recovered(s)
           t == Claimed(r)
<1>1. RecoveredAs(s, r)
  BY RecoveredShape
<1> HIDE DEF r
<1>2. /\ Shape(r) /\ r.status = "queued" /\ Len(r.attempts) < MaxAttempts
      /\ Len(r.attempts) = Len(s.attempts) /\ r.cancel = s.cancel /\ ~s.cancel
      /\ s.length <= r.length
  BY <1>1 DEF RecoveredAs, Evolves, r
<1>3. s.length \in Nat /\ r.length \in Nat /\ Len(r.attempts) \in Nat /\ Len(s.attempts) \in Nat
  BY <1>2 DEF Shape, State
<1>4. /\ Shape(t) /\ t.status = "running" /\ t.cancel = r.cancel
      /\ t.length = r.length + 1 /\ t.lag = 0 /\ t.left = Lease
      /\ t.claim = [fence |-> Len(r.attempts) + 1, revision |-> 0]
      /\ Len(t.attempts) = Len(r.attempts) + 1
  BY <1>2, ClaimedShape, Zenon
<1> HIDE DEF t
<1>5. /\ t.claim \in Token /\ t.claim.fence = Len(s.attempts) + 1 /\ t.claim.revision = 0
  BY <1>2, <1>3, <1>4, SMTT(30) DEF Token
<1>6. Evolves(s, t)
  BY <1>2, <1>3, <1>4 DEF Evolves
<1>7. GrantedAs(s, t)
  BY <1>2, <1>4, <1>5, <1>6, Zenon DEF GrantedAs
<1> QED
  BY <1>7 DEF r, t

\* What the transaction makes of each job.
SweptAs(s, t) ==
  \/ t = s
  \/ s.status \in {"queued", "running"} /\ (RecoveredAs(s, t) \/ GrantedAs(s, t))

LEMMA CandidateFacts ==
  ASSUME Inv
  PROVE  /\ Granted \subseteq Visited /\ Visited \subseteq Job
         /\ \A j \in Visited : jobs[j].status \in {"queued", "running"}
         /\ \A j \in Granted : Recovered(jobs[j]).status = "queued"
         /\ \A j, k \in Granted : j = k
<1>1. queue \in Seq(Job)
  BY DEF Inv, QueueOK
<1>2. /\ Candidates \subseteq 1..Len(queue) /\ Hits \subseteq Candidates
      /\ \A k \in Candidates : queue[k] \in Job /\ jobs[queue[k]].status \in {"queued", "running"}
      /\ \A k \in Hits : Recovered(jobs[queue[k]]).status = "queued"
  BY <1>1 DEF Candidates, Claimable, Hits
<1>3. Visited \subseteq Job /\ \A j \in Visited : jobs[j].status \in {"queued", "running"}
  BY <1>2, Zenon DEF Visited
<1>4. Granted \subseteq Visited /\ \A j \in Granted : Recovered(jobs[j]).status = "queued"
  BY <1>2, Zenon DEF Visited, Granted
<1>5. \A j, k \in Granted : j = k
  <2>1. SUFFICES ASSUME NEW j \in Granted, NEW k \in Granted PROVE j = k
    OBVIOUS
  <2>2. PICK c \in Hits : j = queue[c] /\ \A hit \in Hits : c <= hit
    BY Zenon DEF Granted
  <2>3. PICK d \in Hits : k = queue[d] /\ \A hit \in Hits : d <= hit
    BY Zenon DEF Granted
  <2>4. c \in Int /\ d \in Int /\ c <= d /\ d <= c
    BY <1>2, <2>2, <2>3
  <2>5. c = d
    BY <2>4
  <2> QED
    BY <2>2, <2>3, <2>5, Zenon
<1> QED
  BY <1>3, <1>4, <1>5

LEMMA SweptFacts ==
  ASSUME Inv, NEW after, after = Swept, \A j \in Visited : CanAppend(jobs[j], after[j])
  PROVE  /\ after = [j \in Job |-> after[j]]
         /\ \A j \in Job : SweptAs(jobs[j], after[j]) /\ after[j].length <= MaxEvents
         /\ \A j \in Granted : GrantedAs(jobs[j], after[j])
<1>1. after = [j \in Job |-> after[j]]
  BY DEF Swept
<1>2. ASSUME NEW j \in Job
      PROVE  /\ SweptAs(jobs[j], after[j]) /\ after[j].length <= MaxEvents
             /\ j \in Granted => GrantedAs(jobs[j], after[j])
  <2> DEFINE s == jobs[j]
  <2>1. Shape(s) /\ s.length <= MaxEvents
    BY JobFacts DEF Inv
  <2>2. CASE j \in Granted
    <3>1. after[j] = Claimed(Recovered(s))
      BY <2>2 DEF Swept
    <3>2. /\ s.status \in {"queued", "running"} /\ Recovered(s).status = "queued" /\ j \in Visited
      BY <2>2, CandidateFacts, Zenon
    <3>3. GrantedAs(s, after[j])
      BY <2>1, <3>1, <3>2, GrantedShape, SMTT(30)
    <3> QED
      BY <3>2, <3>3 DEF SweptAs, CanAppend
  <2>3. CASE j \in Visited /\ j \notin Granted
    <3>1. after[j] = Recovered(s) /\ s.status \in {"queued", "running"}
      BY <2>3, CandidateFacts, Zenon DEF Swept
    <3>2. RecoveredAs(s, after[j])
      BY <2>1, <3>1, RecoveredShape
    <3> QED
      BY <2>3, <3>1, <3>2 DEF SweptAs, CanAppend
  <2>4. CASE j \notin Visited /\ j \notin Granted
    <3>1. after[j] = s
      BY <2>4, Zenon DEF Swept
    <3> QED
      BY <2>1, <2>4, <3>1 DEF SweptAs
  <2> QED
    BY <2>2, <2>3, <2>4, Zenon
<1>3. Granted \subseteq Job
  BY CandidateFacts
<1> QED
  BY <1>1, <1>2, <1>3

LEMMA SweptEvolves ==
  ASSUME NEW s, Shape(s), NEW t, SweptAs(s, t)
  PROVE  Evolves(s, t) /\ (s.status = "absent" => t.status = "absent")
<1>1. CASE t = s
  BY <1>1, EvolvesSelf
<1>2. CASE s.status \in {"queued", "running"} /\ (RecoveredAs(s, t) \/ GrantedAs(s, t))
  BY <1>2 DEF RecoveredAs, GrantedAs
<1> QED
  BY <1>1, <1>2 DEF SweptAs

LEMMA ClaimNextJobs ==
  ASSUME Inv, NEW w \in Host, ClaimNext(w)
  PROVE  \/ UNCHANGED jobs /\ TroublesPass /\ Become(w, Down)
         \/ \E after : /\ after = Swept /\ \A j \in Visited : CanAppend(jobs[j], after[j])
                       /\ TroublesPass /\ jobs' \in {jobs, after}
                       /\ \/ Return(w) \/ Become(w, Down)
                          \/ /\ jobs' = after
                             /\ \E j \in Granted :
                                  Become(w, [phase |-> "loading", shut |-> FALSE, stopped |-> "no",
                                             job |-> j, claim |-> after[j].claim, result |-> "none"])
<1>1. PICK after : after = Swept
  OBVIOUS
<1>2. CASE \A j \in Visited : CanAppend(jobs[j], Swept[j])
  <2>1. \/ /\ jobs' = Swept /\ UNCHANGED troubles
           /\ IF Granted = {} THEN Return(w)
              ELSE \E j \in Granted :
                     Become(w, [phase |-> "loading", shut |-> FALSE, stopped |-> "no",
                                job |-> j, claim |-> Swept[j].claim, result |-> "none"])
        \/ /\ troubles < MaxTroubles /\ troubles' = troubles + 1 /\ jobs' \in {jobs, Swept}
           /\ Become(w, Down)
    BY <1>2, Zenon DEF ClaimNext, Call
  <2>2. TroublesPass
    BY <2>1 DEF TroublesPass
  <2> QED
    BY <1>1, <1>2, <2>1, <2>2, Zenon
<1>3. CASE ~\A j \in Visited : CanAppend(jobs[j], Swept[j])
  BY <1>3, Zenon DEF ClaimNext, TroublesPass
<1> QED
  BY <1>2, <1>3, Zenon

LEMMA ClaimNextKeeps ==
  ASSUME Inv, NEW w \in Host, ClaimNext(w)
  PROVE  Inv'
<1>1. workers[w].phase = "idle" /\ UNCHANGED <<queue, children>> /\ JobsOK
  BY Zenon DEF ClaimNext, At, Inv
<1>2. Moves(w, Down) /\ Down.phase = "down"
  BY DownMoves DEF Down
<1>3. CASE UNCHANGED jobs /\ TroublesPass /\ Become(w, Down)
  <2>1. JobsKept
    BY <1>1, <1>3, NoneEvolves
  <2> QED
    BY <1>1, <1>2, <1>3, <2>1, ChildlessStep
<1>4. ASSUME NEW after, after = Swept, \A j \in Visited : CanAppend(jobs[j], after[j]),
             TroublesPass, jobs' \in {jobs, after},
             \/ Return(w) \/ Become(w, Down)
             \/ /\ jobs' = after
                /\ \E j \in Granted :
                     Become(w, [phase |-> "loading", shut |-> FALSE, stopped |-> "no",
                                job |-> j, claim |-> after[j].claim, result |-> "none"])
      PROVE  Inv'
  <2>1. /\ after = [j \in Job |-> after[j]]
        /\ \A j \in Job : SweptAs(jobs[j], after[j]) /\ after[j].length <= MaxEvents
        /\ \A j \in Granted : GrantedAs(jobs[j], after[j])
    BY <1>4, SweptFacts
  <2>2. \A j \in Job : /\ Evolves(jobs[j], after[j]) /\ after[j].length <= MaxEvents
                       /\ jobs[j].status = "absent" => after[j].status = "absent"
    BY <1>1, <2>1, JobFacts, SweptEvolves
  <2>3. JobsKept
    BY <1>1, <1>4, <2>1, <2>2, AllEvolve, NoneEvolves, Zenon
  <2>4. PICK v : Become(w, v) /\ Moves(w, v) /\ v.phase \in {"idle", "down", "loading"}
    <3>1. CASE Return(w)
      BY <1>1, <3>1, ReturnMoves, SMTT(30)
    <3>2. CASE Become(w, Down)
      BY <1>2, <3>2
    <3>3. ASSUME jobs' = after, NEW j \in Granted,
                 Become(w, [phase |-> "loading", shut |-> FALSE, stopped |-> "no",
                            job |-> j, claim |-> after[j].claim, result |-> "none"])
          PROVE  \E v : Become(w, v) /\ Moves(w, v) /\ v.phase \in {"idle", "down", "loading"}
      <4>1. PICK v : v = [phase |-> "loading", shut |-> FALSE, stopped |-> "no",
                          job |-> j, claim |-> after[j].claim, result |-> "none"]
        BY Zenon
      <4>2. /\ j \in Job /\ after[j].claim \in Token /\ after[j].claim.revision = 0
            /\ after[j].claim.fence = Len(jobs[j].attempts) + 1
            /\ Len(after[j].attempts) = Len(jobs[j].attempts) + 1
            /\ Len(jobs[j].attempts) \in Nat
        BY <1>1, <2>1, CandidateFacts, JobFacts, Zenon DEF GrantedAs
      <4>3. v \in Busy
        BY <4>1, <4>2, Zenon DEF Busy, Phases
      <4>4. v.phase = "loading" /\ v.job = j /\ v.claim = after[j].claim
        BY <4>1
      <4>5. Progress(v)
        BY <4>2, <4>4 DEF Progress
      <4>6. /\ Len(jobs[v.job].attempts) < v.claim.fence
            /\ v.claim.fence <= Len(jobs'[v.job].attempts)
        BY <3>3, <4>2, <4>4, SMTT(30)
      <4>7. Moves(w, v)
        BY <4>3, <4>5, <4>6 DEF Moves, WorkerState
      <4> QED
        BY <3>3, <4>1, <4>4, <4>7
    <3> QED
      BY <1>4, <3>1, <3>2, <3>3, Zenon
  <2> QED
    BY <1>1, <2>3, <2>4, ChildlessStep
<1> QED
  BY <1>3, <1>4, ClaimNextJobs

-----------------------------------------------------------------------------
LEMMA StutterKeeps ==
  ASSUME Inv, UNCHANGED vars
  PROVE  Inv'
<1>1. UNCHANGED <<queue, jobs, workers, children, troubles>>
  BY DEF vars
<1>2. QueueOK' /\ JobsOK'
  BY <1>1 DEF Inv, QueueOK, JobsOK, Accepted
<1>3. WorkersOK' /\ ChildrenOK'
  BY <1>1 DEF Inv, WorkersOK, ChildrenOK
<1> QED
  BY <1>2, <1>3 DEF Inv

LEMMA NextHolds == Inv /\ [Next]_vars => Inv'
<1> SUFFICES ASSUME Inv, [Next]_vars PROVE Inv'
  OBVIOUS
<1>1. CASE UNCHANGED vars
  BY <1>1, StutterKeeps
<1>2. CASE Tick \/ SetBack
  BY <1>2, ClockKeeps
<1>3. ASSUME NEW j \in Job, Launch(j) \/ \E key \in Key : RequestCancel(j, key)
      PROVE  Inv'
  BY <1>3, LaunchKeeps, RequestCancelKeeps
<1>4. ASSUME NEW w \in Host, Step(w) \/ Signal(w) \/ Crash(w)
      PROVE  Inv'
  BY <1>4, ProcessKeeps, ClaimNextKeeps, LoadKeeps, PollKeeps, RunEndsKeeps, ValidateKeeps,
     PrepareKeeps, PublishKeeps, FinishKeeps, Zenon DEF Step
<1> QED
  BY <1>1, <1>2, <1>3, <1>4, Zenon DEF Next

LEMMA Invariance == Spec => []Inv
  BY InitHolds, NextHolds, PTL DEF Spec

LEMMA InvExcludes == Inv => ClaimsAreExclusive
<1> SUFFICES ASSUME Inv PROVE ClaimsAreExclusive
  OBVIOUS
<1>1. JobsOK /\ troubles \in 0..MaxTroubles
  BY DEF Inv, JobsOK
<1>2. \A j \in Job : Shape(jobs[j]) /\ Timed(jobs[j], troubles) /\ jobs[j].length <= MaxEvents
  BY <1>1 DEF JobsOK, JobOK
<1>3. TypeOK
  <2>1. queue \in Seq(Job) /\ Len(queue) = Cardinality({j \in Job : Accepted(j)})
    BY DEF Inv, QueueOK
  <2>2. ASSUME NEW j \in Job
        PROVE  /\ jobs[j].status \in Terminal \cup {"absent", "queued", "running"}
               /\ jobs[j].attempts \in Seq(Outcome) /\ Len(jobs[j].attempts) <= MaxAttempts
               /\ jobs[j].claim \in ClaimType
               /\ jobs[j].claim = None <=> jobs[j].status # "running"
               /\ jobs[j].commands \subseteq Key /\ jobs[j].length \in 0..MaxEvents
    BY <1>2, SMTT(30) DEF Shape, State, Status, Token, ClaimType
  <2>3. ASSUME NEW j \in Job
        PROVE  /\ jobs[j].left \in -MaxTroubles..(Lease + MaxTroubles)
               /\ jobs[j].lag \in -MaxTroubles..MaxTroubles
    BY <1>1, <1>2 DEF Timed
  <2>4. \A w \in Host : children[w] \in Nat
    BY DEF Inv, ChildrenOK
  <2> QED
    BY <2>1, <2>2, <2>3, <2>4, Zenon DEF TypeOK
<1>4. SingleChild
  BY DEF Inv, ChildrenOK, Guarded, SingleChild
<1>5. AttemptsTell
  BY <1>2, Zenon DEF AttemptsTell, Shape, Tells
<1>6. OneHolder
  <2>1. SUFFICES ASSUME NEW j \in Job, NEW v \in Host, NEW w \in Host, v # w,
                        workers[v].phase \notin {"down", "idle"},
                        workers[w].phase \notin {"down", "idle"},
                        workers[v].job = j, workers[w].job = j,
                        workers[v].claim = jobs[j].claim, workers[w].claim = jobs[j].claim
                 PROVE  FALSE
    BY Zenon DEF OneHolder
  <2>2. workers[v].phase \in Phases /\ workers[w].phase \in Phases
    BY <2>1, WorkerFacts, WorkerFields, Zenon
  <2>3. Apart(workers[v], workers[w])
    BY <2>1, Zenon DEF Inv, WorkersOK
  <2> QED
    BY <2>1, <2>2, <2>3, Zenon DEF Apart
<1> QED
  BY <1>3, <1>4, <1>5, <1>6 DEF ClaimsAreExclusive

\* claim_next, require_claim and the process guard: for any number of jobs and
\* hosts, whatever expires, crashes or is answered late, no two processes hold
\* the claim of one job, no host computes twice, and the attempts of a job tell
\* how each claim ended.
THEOREM Exclusive == Spec => []ClaimsAreExclusive
  BY Invariance, InvExcludes, PTL

-----------------------------------------------------------------------------
(* The fence.                                                               *)

LEMMA StaleControl ==
  ASSUME NEW w, NEW next, Control(w, next), workers[w].claim # jobs[workers[w].job].claim
  PROVE  jobs' = jobs
  BY DEF Control, RequireClaim

LEMMA NextFences ==
  ASSUME Inv, [Next]_vars, NEW w \in Host, workers[w].phase \notin {"down", "idle"},
         workers'[w] # workers[w], workers[w].claim # jobs[workers[w].job].claim
  PROVE  jobs' = jobs
<1>1. workers \in [Host -> WorkerState]
  BY Zenon DEF Inv, WorkersOK
<1>2. ASSUME NEW u \in Host, u # w, NEW v, Become(u, v)
      PROVE  FALSE
  <2>1. workers'[w] = workers[w]
    BY <1>1, <1>2 DEF Become
  <2> QED
    BY <2>1, SMTT(30)
<1>3. ASSUME NEW u \in Host, u # w, Step(u) \/ Signal(u) \/ Crash(u)
      PROVE  FALSE
  <2>1. Return(u) => FALSE
    BY <1>2, <1>3, Zenon DEF Return
  <2>2. \A next : Control(u, next) \/ Throttled(u, next) => FALSE
    BY <1>2, <1>3, Zenon DEF Control, Call, Throttled
  <2>3. CASE Start(u) \/ Stop(u) \/ Crash(u) \/ RunEnds(u)
    BY <1>2, <1>3, <2>3, Zenon DEF Start, Stop, Crash, RunEnds
  <2>4. CASE OrphanExits(u)
    BY <2>4 DEF OrphanExits
  <2>5. CASE Signal(u)
    BY <1>1, <1>3, <2>5 DEF Signal
  <2>6. CASE Load(u) \/ Poll(u) \/ Validate(u) \/ Prepare(u)
    BY <2>2, <2>6, Zenon DEF Load, Poll, Validate, Prepare
  <2>7. CASE ClaimNext(u)
    BY <1>2, <1>3, <2>1, <2>7, Zenon DEF ClaimNext, Call
  <2>8. CASE Publish(u) \/ Finish(u)
    BY <1>2, <1>3, <2>1, <2>8, Zenon DEF Publish, Finish, Call
  <2> QED
    BY <1>3, <2>3, <2>4, <2>5, <2>6, <2>7, <2>8, Zenon DEF Step
<1>4. ASSUME Step(w) \/ Signal(w) \/ Crash(w)
      PROVE  jobs' = jobs
  <2>1. CASE \/ Start(w) \/ Stop(w) \/ Crash(w) \/ RunEnds(w) \/ OrphanExits(w) \/ Signal(w)
    BY <2>1, Zenon DEF Start, Stop, Crash, RunEnds, OrphanExits, Signal
  <2>2. CASE ClaimNext(w)
    BY <2>2, Zenon DEF ClaimNext, At
  <2>3. CASE Load(w) \/ Poll(w) \/ Validate(w) \/ Prepare(w)
    BY <2>3, StaleControl, Zenon DEF Load, Poll, Validate, Prepare, Throttled
  <2>4. CASE Publish(w) \/ Finish(w)
    BY <2>4, Zenon DEF Publish, Publishable, Finish, RequireClaim
  <2> QED
    BY <1>4, <2>1, <2>2, <2>3, <2>4, Zenon DEF Step
<1>5. CASE workers' = workers
  BY <1>5
<1>6. workers' # workers => \E u \in Host : Step(u) \/ Signal(u) \/ Crash(u)
  BY Zenon DEF Next, vars, Tick, SetBack, Launch, RequestCancel
<1> QED
  BY <1>3, <1>4, <1>5, <1>6, Zenon

\* require_claim: a worker whose claim was superseded, renewed without its
\* knowledge or closed changes no job any more.
THEOREM Fenced == Spec => StaleWorkerIsFenced
<1>1. Inv /\ [Next]_vars =>
        [\A w \in Host :
           (/\ workers[w].phase \notin {"down", "idle"}
            /\ workers'[w] # workers[w]
            /\ workers[w].claim # jobs[workers[w].job].claim) => jobs' = jobs]_vars
  BY NextFences, Zenon
<1> QED
  BY <1>1, Invariance, PTL DEF Spec, StaleWorkerIsFenced

-----------------------------------------------------------------------------
(* The promise to the owner.                                                *)

Verdict(s) == IF s.status \in {"queued", "running"}
              THEN IF s.cancel THEN "cancelling" ELSE "open" ELSE s.status

\* Jobs that nobody publishes stay as they are, fail, or are cancelled once
\* their owner asked for it.
Lapses(s, t) ==
  \/ Verdict(t) = Verdict(s)
  \/ Verdict(s) = "open" /\ Verdict(t) = "failed"
  \/ Verdict(s) = "cancelling" /\ Verdict(t) = "cancelled"

Decides(j, verdict) ==
  /\ Verdict(jobs'[j]) = verdict
  /\ \A k \in Job : k # j => Verdict(jobs'[k]) = Verdict(jobs[k])

PromiseStep ==
  \/ \A j \in Job : Lapses(jobs[j], jobs'[j])
  \/ \E j \in Job : Verdict(jobs[j]) = "absent" /\ Decides(j, "open")
  \/ \E j \in Job : /\ Verdict(jobs[j]) = "open"
                    /\ \E verdict \in {"cancelling", "cancelled", "completed", "incomplete"} :
                         Decides(j, verdict)

LEMMA StepIsPromised ==
  ASSUME PromiseStep
  PROVE  [Promise!Next]_([j \in Job |-> Decision(j)])
<1> DEFINE d == [j \in Job |-> Decision(j)]
<1>1. d = [j \in Job |-> Verdict(jobs[j])] /\ d' = [j \in Job |-> Verdict(jobs'[j])]
  BY SMTT(30) DEF Decision, Verdict
<1>2. \A j \in Job : d[j] = Verdict(jobs[j]) /\ d'[j] = Verdict(jobs'[j])
  BY <1>1, Zenon
<1>3. CASE \A j \in Job : Lapses(jobs[j], jobs'[j])
  <2> DEFINE js == {j \in Job : d'[j] # d[j]}
  <2>1. \A j \in Job : d'[j] = IF j \notin js THEN d[j]
                               ELSE IF d[j] = "open" THEN "failed"
                               ELSE IF d[j] = "cancelling" THEN "cancelled"
                               ELSE d[j]
    BY <1>2, <1>3, Zenon DEF Lapses
  <2>2. js \in SUBSET Job
    OBVIOUS
  <2>3. d' = [j \in Job |-> d'[j]]
    BY <1>1
  <2> HIDE DEF js
  <2>4. d' = [j \in Job |-> IF j \notin js THEN d[j]
                            ELSE IF d[j] = "open" THEN "failed"
                            ELSE IF d[j] = "cancelling" THEN "cancelled"
                            ELSE d[j]]
    <3> HIDE DEF d
    <3> QED
      BY <2>1, <2>3
  <2>5. Promise!Decide
    BY <2>2, <2>4, Zenon DEF Promise!Decide, d
  <2> QED
    BY <2>5 DEF Promise!Next
<1>4. ASSUME NEW j \in Job, NEW verdict, Decides(j, verdict)
      PROVE  d' = [d EXCEPT ![j] = verdict]
  <2>1. /\ d' = [k \in Job |-> d'[k]] /\ d = [k \in Job |-> d[k]] /\ d'[j] = verdict
        /\ \A k \in Job : k # j => d'[k] = d[k]
    BY <1>1, <1>2, <1>4, ZenonT(40) DEF Decides
  <2> HIDE DEF d
  <2> QED
    BY <2>1
<1>5. ASSUME NEW j \in Job, Verdict(jobs[j]) = "absent", Decides(j, "open")
      PROVE  Promise!Next
  <2>1. d[j] = "absent" /\ d' = [d EXCEPT ![j] = "open"]
    BY <1>2, <1>4, <1>5
  <2> QED
    BY <2>1, Zenon DEF Promise!Next, Promise!Accept, d
<1>6. ASSUME NEW j \in Job, Verdict(jobs[j]) = "open",
             NEW verdict \in {"cancelling", "cancelled", "completed", "incomplete"},
             Decides(j, verdict)
      PROVE  Promise!Next
  <2>1. d[j] = "open" /\ d' = [d EXCEPT ![j] = verdict]
    BY <1>2, <1>4, <1>6
  <2>2. CASE verdict \in {"cancelling", "cancelled"}
    <3>1. d' \in {[d EXCEPT ![j] = "cancelling"], [d EXCEPT ![j] = "cancelled"]}
      BY <2>1, <2>2, Zenon
    <3> QED
      BY <2>1, <3>1, Zenon DEF Promise!Next, Promise!Cancel, d
  <2>3. CASE verdict \in {"completed", "incomplete"}
    BY <2>1, <2>3, Zenon DEF Promise!Next, Promise!Publish, d
  <2> QED
    BY <1>6, <2>2, <2>3
<1> QED
  BY <1>3, <1>5, <1>6, Zenon DEF PromiseStep

LEMMA QuietStep ==
  ASSUME UNCHANGED jobs
  PROVE  PromiseStep
  BY DEF PromiseStep, Lapses

LEMMA OneLapses ==
  ASSUME JobsOK, NEW j \in Job, NEW t, Lapses(jobs[j], t), jobs' \in {jobs, [jobs EXCEPT ![j] = t]}
  PROVE  PromiseStep
<1>1. CASE jobs' = jobs
  BY <1>1, QuietStep
<1>2. CASE jobs' = [jobs EXCEPT ![j] = t]
  <2>1. jobs'[j] = t /\ \A k \in Job : k # j => jobs'[k] = jobs[k]
    BY <1>2 DEF JobsOK
  <2>2. \A k \in Job : Lapses(jobs[k], jobs'[k])
    BY <2>1 DEF Lapses
  <2> QED
    BY <2>2 DEF PromiseStep
<1> QED
  BY <1>1, <1>2

LEMMA OneDecides ==
  ASSUME JobsOK, NEW j \in Job, NEW t, jobs' = [jobs EXCEPT ![j] = t]
  PROVE  Decides(j, Verdict(t))
<1>1. jobs'[j] = t /\ \A k \in Job : k # j => jobs'[k] = jobs[k]
  BY DEF JobsOK
<1> QED
  BY <1>1 DEF Decides

LEMMA OwnerPromises ==
  ASSUME Inv, NEW j \in Job, Launch(j) \/ \E key \in Key : RequestCancel(j, key)
  PROVE  PromiseStep
<1> DEFINE s == jobs[j]
<1>1. JobsOK /\ Shape(s)
  BY JobFacts, Zenon DEF Inv
<1>2. CASE Launch(j)
  <2> DEFINE t == Appended([s EXCEPT !.status = "queued"])
  <2>1. s.status = "absent" /\ jobs' = [jobs EXCEPT ![j] = t]
    BY <1>2 DEF Launch, Accepted
  <2>2. t.status = "queued" /\ t.cancel = FALSE
    BY <1>1, <2>1, LaunchShape, Zenon
  <2> HIDE DEF t
  <2>3. Decides(j, Verdict(t))
    BY <1>1, <2>1, OneDecides, Zenon
  <2>4. Verdict(t) = "open" /\ Verdict(s) = "absent"
    BY <2>1, <2>2 DEF Verdict
  <2> QED
    BY <2>3, <2>4, Zenon DEF PromiseStep
<1>3. ASSUME NEW key \in Key, RequestCancel(j, key)
      PROVE  PromiseStep
  <2> DEFINE t == CancelRequested(s, key)
  <2>1. jobs' = [jobs EXCEPT ![j] = t] /\ t # s
    BY <1>3 DEF RequestCancel
  <2>2. key \notin s.commands /\ s.status \in {"queued", "running"}
    BY <2>1 DEF CancelRequested
  <2>3. t.cancel = TRUE /\ t.status = IF s.status = "queued" THEN "cancelled" ELSE s.status
    BY <1>1, <2>2, CancelShape, Zenon
  <2> HIDE DEF t
  <2>4. Decides(j, Verdict(t))
    BY <1>1, <2>1, OneDecides, Zenon
  <2>5. s.status = "queued" => ~s.cancel
    BY <1>1, Zenon DEF Shape
  <2>6. CASE s.cancel
    <3>1. Verdict(t) = Verdict(s)
      BY <2>2, <2>3, <2>5, <2>6, SMTT(30) DEF Verdict
    <3> QED
      BY <1>1, <2>1, <3>1, OneLapses, Zenon DEF Lapses
  <2>7. CASE ~s.cancel
    <3>1. Verdict(s) = "open" /\ Verdict(t) \in {"cancelling", "cancelled"}
      BY <2>2, <2>3, <2>7, Zenon DEF Verdict
    <3> QED
      BY <2>4, <3>1, Zenon DEF PromiseStep
  <2> QED
    BY <2>6, <2>7
<1> QED
  BY <1>2, <1>3

LEMMA ClockPromises ==
  ASSUME Inv, Tick \/ SetBack
  PROVE  PromiseStep
<1>1. PICK d \in {-1, 1} : jobs' = [j \in Job |-> Shifted(jobs[j], d)]
  BY DEF Tick, SetBack
<1>2. ASSUME NEW j \in Job
      PROVE  Lapses(jobs[j], jobs'[j])
  <2>1. Shape(jobs[j]) /\ troubles \in 0..MaxTroubles /\ Timed(jobs[j], troubles)
    BY DEF Inv, JobsOK, JobOK
  <2>2. PICK t : t = Shifted(jobs[j], d)
    OBVIOUS
  <2>3. t.status = jobs[j].status /\ t.cancel = jobs[j].cancel
    BY <2>1, <2>2, ShiftedShape
  <2>4. jobs'[j] = t
    BY <1>1, <2>2
  <2> QED
    BY <2>3, <2>4, Zenon DEF Lapses, Verdict
<1> QED
  BY <1>2, Zenon DEF PromiseStep

(* A heartbeat decides nothing.                                             *)
LEMMA ControlPromises ==
  ASSUME Inv, NEW w \in Host, workers[w] \in Busy, workers[w].claim.revision <= MaxRenewals + 2,
         NEW next, Control(w, next)
  PROVE  PromiseStep
<1> DEFINE u == workers[w]
           s == jobs[u.job]
           t == Renewed(s)
<1>1. u.job \in Job /\ u.claim.revision \in Nat /\ JobsOK
  BY RevisionLaw, Zenon DEF Inv
<1>2. CASE jobs' = jobs
  BY <1>2, QuietStep, Zenon
<1>3. CASE RequireClaim(s, u.claim) /\ jobs' \in {jobs, [jobs EXCEPT ![u.job] = t]}
  <2>1. s.claim = u.claim /\ s.status = "running" /\ Shape(s)
    BY <1>1, <1>3, JobFacts, Zenon DEF RequireClaim
  <2>2. t.status = s.status /\ t.cancel = s.cancel
    <3>1. s.claim.revision < MaxRenewals + 3
      BY <2>1, RevisionLaw, Zenon
    <3> QED
      BY <2>1, <3>1, RenewedShape, Zenon
  <2>3. Lapses(s, t)
    BY <2>2, Zenon DEF Lapses, Verdict
  <2>4. PICK j, r : j = u.job /\ r = t
    OBVIOUS
  <2> QED
    BY <1>1, <1>3, <2>3, <2>4, OneLapses, Zenon
<1> QED
  BY <1>2, <1>3, Zenon DEF Control, Call

(* publish decides an open job; finish fails it, cancels it or leaves it    *)
(* open.                                                                    *)
LEMMA ClosePromises ==
  ASSUME Inv, NEW w \in Host, Publish(w) \/ Finish(w)
  PROVE  PromiseStep
<1> DEFINE u == workers[w]
           s == jobs[u.job]
<1>1. workers[w].phase \in Phases
  BY Zenon DEF Publish, Finish, At, Phases
<1>2. u \in Busy /\ Progress(u) /\ u.job \in Job /\ JobsOK
  BY <1>1, BusyFacts, BusyFields, Zenon DEF Inv
<1>3. s \in State /\ Shape(s)
  BY <1>2, JobFacts, Zenon
<1>4. CASE jobs' = jobs
  BY <1>4, QuietStep
<1>5. ASSUME NEW outcome \in Terminal \cup {"abandoned"}, RequireClaim(s, u.claim)
      PROVE  /\ Closed(s, outcome).status = ClosedStatus(outcome)
             /\ Closed(s, outcome).cancel = s.cancel /\ s.status = "running"
  <2>1. s.status = "running" /\ Len(s.attempts) > 0
    BY <1>3, <1>5, Zenon DEF RequireClaim, Shape, Tells
  <2> QED
    BY <1>3, <2>1, ClosedFields, Zenon
<1>6. CASE Publish(w) /\ jobs' # jobs
  <2> DEFINE t == Closed(s, u.result)
  <2>1. Publishable(s, t, u.claim) /\ jobs' = [jobs EXCEPT ![u.job] = t] /\ u.phase = "committing"
    BY <1>6, Zenon DEF Publish, Call, At
  <2>2. u.result \in {"completed", "incomplete"} /\ RequireClaim(s, u.claim) /\ ~s.cancel
    BY <1>2, <2>1, Zenon DEF Progress, Publishable
  <2>3. /\ t.status = u.result /\ s.status = "running"
    <3>1. PICK outcome : outcome = u.result
      OBVIOUS
    <3>2. outcome \in Terminal \cup {"abandoned"} /\ ClosedStatus(outcome) = outcome
      BY <2>2, <3>1, Zenon DEF Terminal, ClosedStatus
    <3> QED
      BY <1>5, <2>2, <3>1, <3>2, Zenon
  <2>4. PICK j, r : j = u.job /\ r = t
    OBVIOUS
  <2>5. Decides(j, Verdict(r))
    BY <1>2, <2>1, <2>4, OneDecides, Zenon
  <2>6. Verdict(jobs[j]) = "open" /\ Verdict(r) \in {"completed", "incomplete"} /\ j \in Job
    BY <1>2, <2>2, <2>3, <2>4, Zenon DEF Verdict
  <2> QED
    BY <2>5, <2>6, Zenon DEF PromiseStep
<1>7. CASE Finish(w) /\ jobs' # jobs
  <2> DEFINE o == FinishOutcome(s, u.stopped)
             t == Closed(s, o)
  <2>1. RequireClaim(s, u.claim) /\ jobs' = [jobs EXCEPT ![u.job] = t]
    BY <1>7, Zenon DEF Finish, Call
  <2>2. /\ o \in Terminal \cup {"abandoned"}
        /\ ClosedStatus(o) = IF s.cancel THEN "cancelled"
                             ELSE IF u.stopped = "shutdown" THEN "queued" ELSE "failed"
    BY Zenon DEF FinishOutcome, Terminal, ClosedStatus
  <2>3. t.status = ClosedStatus(o) /\ t.cancel = s.cancel /\ s.status = "running"
    <3> HIDE DEF o
    <3> QED
      BY <1>5, <2>1, <2>2, Zenon
  <2> HIDE DEF o, t
  <2>4. Lapses(s, t)
    BY <2>2, <2>3, Zenon DEF Lapses, Verdict
  <2>5. PICK j, r : j = u.job /\ r = t
    OBVIOUS
  <2> QED
    BY <1>2, <2>1, <2>4, <2>5, OneLapses, Zenon
<1> QED
  BY <1>4, <1>6, <1>7

(* claim_next decides only what lapses.                                     *)
LEMMA SweptLapses ==
  ASSUME NEW s, Shape(s), NEW t, SweptAs(s, t)
  PROVE  Lapses(s, t)
<1>1. CASE t = s
  BY <1>1 DEF Lapses
<1>2. CASE s.status \in {"queued", "running"} /\ RecoveredAs(s, t)
  BY <1>2, Zenon DEF Lapses, Verdict, RecoveredAs
<1>3. CASE s.status \in {"queued", "running"} /\ GrantedAs(s, t)
  BY <1>3, Zenon DEF Lapses, Verdict, GrantedAs
<1> QED
  BY <1>1, <1>2, <1>3 DEF SweptAs

LEMMA ClaimNextPromises ==
  ASSUME Inv, NEW w \in Host, ClaimNext(w)
  PROVE  PromiseStep
<1>1. CASE jobs' = jobs
  BY <1>1, QuietStep
<1>2. CASE jobs' # jobs
  <2>1. PICK after : /\ after = Swept /\ \A j \in Visited : CanAppend(jobs[j], after[j])
                     /\ jobs' = after
    BY <1>2, ClaimNextJobs
  <2>2. \A j \in Job : SweptAs(jobs[j], after[j])
    BY <2>1, SweptFacts
  <2>3. \A j \in Job : Lapses(jobs[j], after[j])
    BY <2>2, JobFacts, SweptLapses, Zenon DEF Inv
  <2> QED
    BY <2>1, <2>3, Zenon DEF PromiseStep
<1> QED
  BY <1>1, <1>2

LEMMA HeartbeatPromises ==
  ASSUME Inv, NEW w \in Host, Load(w) \/ Poll(w) \/ Validate(w) \/ Prepare(w)
  PROVE  PromiseStep
<1>1. workers[w].phase \in {"loading", "running", "validating", "publishing"}
  BY Zenon DEF Load, Poll, Validate, Prepare, At
<1>2. workers[w] \in Busy /\ Progress(workers[w]) /\ workers[w].claim.revision \in Nat
  <2>1. workers[w].phase \in Phases
    BY <1>1, Zenon DEF Phases
  <2> QED
    BY <2>1, BusyFacts, RevisionLaw, Zenon
<1>3. workers[w].claim.revision <= MaxRenewals + 2
  BY <1>1, <1>2, RevisionLaw, Zenon
<1>4. (\E next : Control(w, next)) \/ jobs' = jobs
  BY Zenon DEF Load, Poll, Validate, Prepare, Throttled
<1> QED
  BY <1>2, <1>3, <1>4, ControlPromises, QuietStep, Zenon

LEMMA NextPromises == Inv /\ [Next]_vars => [Promise!Next]_([j \in Job |-> Decision(j)])
<1> SUFFICES ASSUME Inv, [Next]_vars PROVE PromiseStep
  BY StepIsPromised
<1>1. CASE UNCHANGED vars
  BY <1>1, QuietStep DEF vars
<1>2. CASE Tick \/ SetBack
  BY <1>2, ClockPromises
<1>3. ASSUME NEW j \in Job, Launch(j) \/ \E key \in Key : RequestCancel(j, key)
      PROVE  PromiseStep
  BY <1>3, OwnerPromises
<1>4. ASSUME NEW w \in Host, Step(w) \/ Signal(w) \/ Crash(w)
      PROVE  PromiseStep
  <2>1. CASE Start(w) \/ Stop(w) \/ Signal(w) \/ Crash(w) \/ OrphanExits(w) \/ RunEnds(w)
    <3>1. jobs' = jobs
      BY <2>1, Zenon DEF Start, Stop, Signal, Crash, OrphanExits, RunEnds
    <3> QED
      BY <3>1, QuietStep
  <2> QED
    BY <1>4, <2>1, ClaimNextPromises, HeartbeatPromises, ClosePromises, Zenon DEF Step
<1> QED
  BY <1>1, <1>2, <1>3, <1>4, Zenon DEF Next

\* wave3-jobs.md, ordering rules 4, 7 and 8: whatever workers, leases, crashes
\* and lost answers do, the owner of a job sees one terminal decision that
\* never changes, and a recorded cancellation decides it.
THEOREM Promised == Spec => KeepsPromise
<1>1. Init => Promise!Init
  BY DEF Init, Promise!Init, Decision, Absent
<1> QED
  BY <1>1, NextPromises, Invariance, PTL DEF Spec, KeepsPromise, Promise!Spec
=============================================================================
