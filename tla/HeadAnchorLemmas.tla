-------------------------- MODULE HeadAnchorLemmas --------------------------
(***************************************************************************)
(* The inductive invariant of HeadAnchor, and the steps that change only   *)
(* the process that takes them or its journal.  HeadAnchorProofs adds the  *)
(* steps that write the tables and the archive.                            *)
(***************************************************************************)
EXTENDS HeadAnchor, FiniteSetTheorems, TLAPS

USE AnchorAssumption

\* Between the commit of an intent and its receipt.
Uploading == {"list", "upload", "settle", "doubt", "refresh", "receipt"}

\* A cursor is a snapshot the tables once were in.
CursorHolds(w, h, t, r) ==
  /\ w.local <= h /\ w.receipts <= r /\ w.intents <= Len(t)
  /\ w.receipts <= w.intents /\ w.intents <= w.receipts + 1
  /\ w.stage \notin Ends \cup {"registered"} => w.local >= 1

\* Once an intent is committed, or taken over from a predecessor, the worker's
\* candidate is that very row, and stays it until its receipt is in; before
\* that, the candidate signs the cursor's head, which no record names yet.
CandidateHolds(w, t, a) ==
  /\ w.stage \in {"registered", "idle", "recover", "prepare", "commit"} => ~w.recovering
  /\ w.stage \in Uploading \/ (w.stage \in {"audit", "recheck"} /\ w.recovering) =>
       w.intents = w.receipts + 1 /\ w.candidate = t[w.receipts + 1]
  /\ w.stage = "commit" =>
       /\ w.candidate = [head |-> w.local, reason |-> w.request.reason]
       /\ (w.receipts = 0) = (w.request = Enrollment)
       /\ w.receipts # 0 => t[w.receipts].head # w.local
  /\ w.stage \in {"refresh", "receipt"} => << w.receipts + 1, w.candidate >> \in a
  /\ w.stage = "recovery_required" => t # << >>

Holds(w, h, t, r, a) == CursorHolds(w, h, t, r) /\ CandidateHolds(w, t, a)

\* A value the attempt object of a process may have in this state.
Sound(w) == w \in Attempt /\ Holds(w, head, intents, receipts, remote)

WorkersHold == \A p \in Process : Holds(worker[p], head, intents, receipts, remote)

Inv == TypeOK /\ NoFork /\ ReceiptIsReadBack /\ ChainReplays /\ WorkersHold

-----------------------------------------------------------------------------
(* The fields of the worker after each kind of step.                        *)

LEMMA RecordIsThere ==
  ASSUME NEW c \in Records
  PROVE  c # NoCandidate
<1>1. DOMAIN c = {"head", "reason"}
  BY DEF Records
<1>2. DOMAIN << >> = {}
  OBVIOUS
<1> QED
  BY <1>1, <1>2, Zenon DEF NoCandidate

LEMMA ReasonTells ==
  ASSUME NEW r \in Requests
  PROVE  r.reason = Enrollment.reason <=> r = Enrollment
<1>1. r \in {Startup, Periodic, OnDemand, CleanStop, Recovery} \/ r = Enrollment
  BY DEF Requests, Operations
<1>2. r \in {Startup, Periodic, OnDemand, CleanStop, Recovery} => r.reason # Enrollment.reason
  BY DEF Startup, Periodic, OnDemand, CleanStop, Enrollment, Recovery
<1> QED
  BY <1>1, <1>2

LEMMA GoesFields ==
  ASSUME NEW w \in Attempt, NEW stage \in Stages
  PROVE  LET v == Goes(w, stage)
         IN  /\ v \in Attempt /\ v.stage = stage
             /\ v.request = w.request /\ v.local = w.local /\ v.intents = w.intents
             /\ v.receipts = w.receipts /\ v.recovering = w.recovering
             /\ v.candidate = w.candidate
BY DEF Attempt, Goes

LEMMA MovedFields ==
  ASSUME NEW w \in Attempt, NEW cursor \in [local : Nat, intents : Nat, receipts : Nat],
         NEW complete \in BOOLEAN
  PROVE  LET v == Moved(w, cursor, complete)
         IN  /\ v \in Attempt /\ v.stage = w.stage /\ v.request = w.request
             /\ v.local = cursor.local /\ v.intents = cursor.intents
             /\ v.receipts = cursor.receipts
             /\ v.recovering = w.recovering /\ v.candidate = w.candidate
BY Zenon DEF Attempt, Moved

LEMMA EndedFields ==
  ASSUME NEW stage \in Stages
  PROVE  LET v == Ended(stage)
         IN  /\ v \in Attempt /\ v.stage = stage /\ v.local = 0 /\ v.intents = 0
             /\ v.receipts = 0 /\ v.recovering = FALSE /\ v.request = Startup
BY DEF Attempt, Ended, Requests

LEMMA AgainFields ==
  ASSUME NEW w \in Attempt
  PROVE  LET v == Again(w)
         IN  \/ v = Ended("unclean")
             \/ /\ v \in Attempt /\ v.stage = "idle" /\ v.recovering = FALSE
                /\ v.local = w.local /\ v.intents = w.intents /\ v.receipts = w.receipts
<1> DEFINE v == [w EXCEPT !.complete = FALSE, !.recovering = FALSE, !.recovered = FALSE,
                          !.candidate = NoCandidate, !.seen = 0, !.stage = "idle"]
<1>1. v \in Attempt
  BY Zenon DEF Attempt, Stages
<1>2. /\ v.stage = "idle" /\ v.recovering = FALSE
      /\ v.local = w.local /\ v.intents = w.intents /\ v.receipts = w.receipts
  BY DEF Attempt
<1> QED
  BY <1>1, <1>2 DEF Again

-----------------------------------------------------------------------------
(* What the tables and workers look like whenever the invariant holds.      *)
LEMMA Facts ==
  ASSUME Inv
  PROVE  /\ head \in Nat /\ 1 <= head /\ head <= MaxHeads /\ MaxHeads \in Nat
         /\ Len(intents) \in Nat /\ receipts \in Nat
         /\ receipts <= Len(intents) /\ Len(intents) <= receipts + 1
         /\ \A i \in 1..Len(intents) : intents[i] \in Records
         /\ \A p \in Process : Sound(worker[p])
<1>1. head \in 1..MaxHeads /\ intents \in Seq(Records) /\ receipts \in Nat
  BY DEF Inv, TypeOK
<1>2. \A p \in Process : worker[p] \in Attempt
  BY DEF Inv, TypeOK
<1>3. receipts \in {Len(intents), Len(intents) - 1}
  BY DEF Inv, ChainReplays
<1> QED
  BY <1>1, <1>2, <1>3 DEF Inv, WorkersHold, Sound

(* A process without a cursor.                                              *)
LEMMA EndedHolds ==
  ASSUME NEW h \in Nat, NEW t \in Seq(Records), NEW r \in Nat, NEW a,
         NEW stage \in Ends \cup {"registered"}, stage = "recovery_required" => t # << >>
  PROVE  Ended(stage) \in Attempt /\ Holds(Ended(stage), h, t, r, a)
<1>1. stage \in Stages /\ stage \notin Uploading \cup {"audit", "recheck", "commit"}
  BY DEF Stages, Ends, Uploading
<1>2. stage \notin {"refresh", "receipt"}
  BY <1>1 DEF Uploading
<1> DEFINE v == Ended(stage)
<1>3. /\ v \in Attempt /\ v.stage = stage /\ v.local = 0 /\ v.intents = 0
      /\ v.receipts = 0 /\ v.recovering = FALSE
  BY <1>1, EndedFields, Zenon
<1> HIDE DEF v
<1>4. CursorHolds(v, h, t, r)
  BY <1>3 DEF CursorHolds
<1>5. CandidateHolds(v, t, a)
  BY <1>1, <1>2, <1>3 DEF CandidateHolds
<1> QED
  BY <1>3, <1>4, <1>5 DEF Holds, v

LEMMA AgainHolds ==
  ASSUME NEW h \in Nat, NEW t \in Seq(Records), NEW r \in Nat, NEW a,
         NEW w \in Attempt, CursorHolds(w, h, t, r), w.local >= 1
  PROVE  Again(w) \in Attempt /\ Holds(Again(w), h, t, r, a)
<1>1. CASE Again(w) = Ended("unclean")
  BY <1>1, EndedHolds DEF Ends
<1>2. CASE Again(w) # Ended("unclean")
  <2>1. "idle" \notin Uploading
    BY DEF Uploading
  <2> QED
    BY <1>2, <2>1, AgainFields, Zenon DEF Holds, CursorHolds, CandidateHolds
<1> QED
  BY <1>1, <1>2

(* A request that is over leaves a cursor, a report or the postcondition.   *)
LEMMA SucceededHolds ==
  ASSUME NEW h \in Nat, NEW t \in Seq(Records), NEW r \in Nat, NEW a,
         NEW w \in Attempt, CursorHolds(w, h, t, r), w.local >= 1
  PROVE  Succeeded(w) \in Attempt /\ Holds(Succeeded(w), h, t, r, a)
<1>1. CASE w.request \in Operations
  <2>1. "postcheck" \in Stages /\ "postcheck" \notin Uploading
    BY DEF Stages, Steps, Uploading
  <2>2. Succeeded(w) = Goes(w, "postcheck")
    BY <1>1 DEF Succeeded
  <2> QED
    BY <2>1, <2>2, GoesFields DEF Holds, CursorHolds, CandidateHolds
<1>2. CASE w.request \notin Operations /\ w.request = CleanStop
  BY <1>2, EndedHolds DEF Succeeded, Ends
<1>3. CASE w.request \notin Operations /\ w.request # CleanStop
  <2> DEFINE full == w.audited \/ w.request.full
             v == [w EXCEPT !.audited = full]
  <2>1. v \in Attempt
    <3>1. full \in BOOLEAN
      OBVIOUS
    <3> HIDE DEF full
    <3> QED
      BY <3>1, SMTT(30) DEF Attempt
  <2>2. /\ v.local = w.local /\ v.intents = w.intents /\ v.receipts = w.receipts
        /\ v.stage = w.stage
    BY DEF Attempt
  <2>3. Succeeded(w) = Again(v)
    BY <1>3 DEF Succeeded
  <2> HIDE DEF v
  <2> QED
    BY <2>1, <2>2, <2>3, AgainHolds DEF CursorHolds
<1> QED
  BY <1>1, <1>2, <1>3

(* A receipt is in: the request goes on, or is over.                        *)
LEMMA CompletedHolds ==
  ASSUME NEW h \in Nat, NEW t \in Seq(Records), NEW r \in Nat, NEW a,
         NEW w \in Attempt, CursorHolds(w, h, t, r), w.local >= 1
  PROVE  Completed(w) \in Attempt /\ Holds(Completed(w), h, t, r, a)
<1>1. CASE w.recovering /\ w.request \notin Operations
  <2> DEFINE v == [w EXCEPT !.complete = FALSE, !.recovering = FALSE, !.recovered = TRUE,
                            !.candidate = NoCandidate, !.stage = "prepare"]
  <2>1. "prepare" \in Stages /\ "prepare" \notin Uploading
    BY DEF Stages, Steps, Uploading
  <2>2. /\ v \in Attempt /\ v.stage = "prepare" /\ v.recovering = FALSE
        /\ v.local = w.local /\ v.intents = w.intents /\ v.receipts = w.receipts
    BY <2>1, Zenon DEF Attempt
  <2>3. Completed(w) = v
    BY <1>1 DEF Completed
  <2> HIDE DEF v
  <2> QED
    BY <2>1, <2>2, <2>3 DEF Holds, CursorHolds, CandidateHolds
<1>2. CASE ~(w.recovering /\ w.request \notin Operations)
  BY <1>2, SucceededHolds DEF Completed
<1> QED
  BY <1>1, <1>2

LEMMA EndedSound ==
  ASSUME Inv, NEW stage \in Ends \cup {"registered"},
         stage = "recovery_required" => intents # << >>
  PROVE  Sound(Ended(stage))
BY Facts, EndedHolds DEF Sound, Inv, TypeOK

LEMMA RequestSound ==
  ASSUME Inv, NEW w \in Attempt, CursorHolds(w, head, intents, receipts), w.local >= 1
  PROVE  Sound(Again(w)) /\ Sound(Succeeded(w)) /\ Sound(Completed(w))
BY Facts, AgainHolds, SucceededHolds, CompletedHolds DEF Sound, Inv, TypeOK

(* Where a candidate is pinned to its row, there is a row.                  *)
LEMMA PinnedFacts ==
  ASSUME Inv, NEW p \in Process,
         \/ worker[p].stage \in Uploading
         \/ worker[p].stage \in {"audit", "recheck"} /\ worker[p].recovering
  PROVE  /\ worker[p].intents = worker[p].receipts + 1
         /\ worker[p].candidate = intents[worker[p].receipts + 1]
         /\ worker[p].receipts + 1 \in 1..Len(intents)
         /\ worker[p].candidate \in Records
         /\ intents # << >>
<1>1. Sound(worker[p])
  BY Facts
<1>2. /\ worker[p].intents = worker[p].receipts + 1
      /\ worker[p].candidate = intents[worker[p].receipts + 1]
  BY <1>1 DEF Sound, Holds, CandidateHolds
<1>3. worker[p].receipts \in Nat /\ worker[p].intents <= Len(intents)
  BY <1>1 DEF Sound, Holds, CursorHolds, Attempt
<1>4. worker[p].receipts + 1 \in 1..Len(intents)
  BY <1>2, <1>3, Facts
<1>5. intents # << >>
  BY <1>4
<1> QED
  BY <1>2, <1>4, <1>5, Facts

(* An operator that is told to recover has left an intent.                  *)
LEMMA FatalSound ==
  ASSUME Inv, NEW p \in Process, NEW kind \in {"conflict", "drift", "unapproved"},
         worker[p].stage \in {"recover", "audit", "recheck", "commit"} \cup Uploading,
         worker[p].stage = "commit" => intents # << >>
  PROVE  Sound(Fatal(p, kind))
<1>1. worker[p].stage \in {"recover", "commit"} => ~worker[p].recovering
  BY Facts, Zenon DEF Sound, Holds, CandidateHolds
<1>2. Committed(p) <=> worker[p].stage \in Uploading
  BY DEF Committed, Uploading
<1>3. CASE ~Operator(p)
  BY <1>3, EndedSound DEF Fatal, Ends
<1>4. CASE Operator(p) /\ (worker[p].stage = "commit" \/ Committed(p) \/ worker[p].recovering)
  <2>1. intents # << >>
    BY <1>1, <1>2, <1>4, PinnedFacts
  <2> QED
    BY <1>4, <2>1, EndedSound DEF Fatal, Ends
<1>5. CASE Operator(p) /\ ~(worker[p].stage = "commit" \/ Committed(p) \/ worker[p].recovering)
  BY <1>5, EndedSound DEF Fatal, Ends
<1> QED
  BY <1>3, <1>4, <1>5

(* The archive did not answer: the request is tried again.                  *)
LEMMA TransientSound ==
  ASSUME Inv, NEW p \in Process,
         worker[p].stage \in {"audit", "recheck"} \cup Uploading
  PROVE  Sound(Transient(p))
<1>1. Committed(p) <=> worker[p].stage \in Uploading
  BY DEF Committed, Uploading
<1>2. CASE ~Operator(p)
  <2>1. worker[p].stage \notin Ends \cup {"registered"}
    BY DEF Ends, Uploading
  <2>2. /\ worker[p] \in Attempt /\ CursorHolds(worker[p], head, intents, receipts)
        /\ worker[p].local >= 1
    BY <2>1, Facts DEF Sound, Holds, CursorHolds
  <2> QED
    BY <1>2, <2>2, RequestSound DEF Transient
<1>3. CASE Operator(p) /\ (Committed(p) \/ worker[p].recovering)
  BY <1>1, <1>3, PinnedFacts, EndedSound DEF Transient, Ends
<1>4. CASE Operator(p) /\ ~(Committed(p) \/ worker[p].recovering)
  BY <1>4, EndedSound DEF Transient, Ends
<1> QED
  BY <1>2, <1>3, <1>4

(* After a check of the archive the pending row is uploaded again, nothing  *)
(* is due, or the cursor's head is signed.                                  *)
LEMMA SignSound ==
  ASSUME Inv, NEW p \in Process, worker[p].stage \in {"audit", "recheck"},
         worker[p].recovering \/ Enrolled(worker[p])
  PROVE  Sound(Sign(worker[p]))
<1> DEFINE w == worker[p]
<1>0. /\ w \in Attempt /\ CursorHolds(w, head, intents, receipts) /\ w.local >= 1
      /\ w.local \in 1..MaxHeads
  <2>1. w.stage \notin Ends \cup {"registered"}
    BY DEF Ends
  <2> QED
    BY <2>1, Facts DEF Sound, Holds, CursorHolds, Attempt
<1> HIDE DEF w
<1>1. CASE w.recovering
  <2> DEFINE v == [w EXCEPT !.seen = 0, !.stage = "list"]
  <2>1. "list" \in Stages /\ "list" \in Uploading /\ "list" \notin Ends
    BY DEF Stages, Steps, Ends, Uploading
  <2>2. /\ v \in Attempt /\ v.stage = "list" /\ v.local = w.local
        /\ v.intents = w.intents /\ v.receipts = w.receipts /\ v.candidate = w.candidate
    BY <1>0, <2>1, Zenon DEF Attempt
  <2>3. w.intents = w.receipts + 1 /\ w.candidate = intents[w.receipts + 1]
    BY <1>1, PinnedFacts DEF w
  <2>4. Sign(w) = v
    BY <1>1 DEF Sign
  <2> HIDE DEF v
  <2> QED
    BY <1>0, <2>1, <2>2, <2>3, <2>4 DEF Sound, Holds, CursorHolds, CandidateHolds, w
<1>2. CASE ~w.recovering /\ w.receipts # 0 /\ intents[w.receipts].head = w.local
  <2> DEFINE v == [w EXCEPT !.candidate = NoCandidate]
  <2>1. /\ v \in Attempt /\ v.stage = w.stage /\ v.local = w.local
        /\ v.intents = w.intents /\ v.receipts = w.receipts
    BY <1>0 DEF Attempt
  <2>2. w.receipts \in 1..Len(intents)
    BY <1>0, <1>2, Facts DEF CursorHolds, Attempt
  <2>3. intents[w.receipts] # NoCandidate
    BY <2>2, Facts, RecordIsThere
  <2>4. Sign(w) = Succeeded(v)
    BY <1>2, <2>3 DEF Sign
  <2> HIDE DEF v
  <2> QED
    BY <1>0, <2>1, <2>4, RequestSound DEF CursorHolds, w
<1>3. CASE ~w.recovering /\ (w.receipts = 0 \/ intents[w.receipts].head # w.local)
  <2> DEFINE c == [head |-> w.local, reason |-> w.request.reason]
             v == [w EXCEPT !.candidate = c, !.seen = 0, !.stage = "commit"]
  <2>1. /\ "commit" \in Stages /\ "commit" \notin Uploading /\ "commit" \notin Ends
    BY DEF Stages, Steps, Ends, Uploading
  <2>2. c \in Records
    BY <1>0 DEF Records, Attempt
  <2>3. Sign(w) = v
    BY <1>3 DEF Sign
  <2> HIDE DEF c
  <2>4. /\ v \in Attempt /\ v.stage = "commit" /\ v.local = w.local
        /\ v.intents = w.intents /\ v.receipts = w.receipts /\ v.candidate = c
        /\ v.request = w.request /\ v.recovering = w.recovering
    BY <1>0, <2>1, <2>2, Zenon DEF Attempt
  <2> HIDE DEF v
  <2>5. (w.receipts = 0) = (w.request = Enrollment)
    BY <1>3 DEF Enrolled, w
  <2>6. CandidateHolds(v, intents, remote)
    BY <1>3, <2>1, <2>4, <2>5 DEF CandidateHolds, c
  <2> QED
    BY <1>0, <2>1, <2>3, <2>4, <2>6 DEF Sound, Holds, CursorHolds, w
<1> QED
  BY <1>1, <1>2, <1>3

LEMMA JudgeSound ==
  ASSUME Inv, NEW p \in Process, NEW agrees, worker[p].stage \in {"audit", "recheck"}
  PROVE  Sound(Judge(p, agrees))
<1>1. Sound(Fatal(p, "conflict")) /\ Sound(Fatal(p, "unapproved"))
  BY FatalSound
<1>2. worker[p].recovering \/ Enrolled(worker[p]) => Sound(Sign(worker[p]))
  BY SignSound
<1> QED
  BY <1>1, <1>2 DEF Judge

-----------------------------------------------------------------------------
(* A step of one process that leaves journal, tables and archive as they    *)
(* are.                                                                     *)
LEMMA MoveKeeps ==
  ASSUME Inv, NEW p \in Process, NEW v, Sound(v), Set(p, v),
         outages' \in 0..MaxOutages,
         UNCHANGED << head, owner, intents, receipts, remote, delayed >>
  PROVE  Inv'
<1>1. worker \in [Process -> Attempt] /\ v \in Attempt
  BY DEF Inv, TypeOK, Sound
<1>2. worker' = [worker EXCEPT ![p] = v]
  BY DEF Set
<1>3. /\ worker' \in [Process -> Attempt]
      /\ worker'[p] = v /\ \A q \in Process : q # p => worker'[q] = worker[q]
  BY <1>1, <1>2
<1>4. TypeOK'
  BY <1>3 DEF Inv, TypeOK
<1>5. NoFork' /\ ReceiptIsReadBack' /\ ChainReplays'
  BY DEF Inv, NoFork, ReceiptIsReadBack, ChainReplays, Object
<1>6. WorkersHold'
  BY <1>3 DEF Inv, WorkersHold, Sound
<1> QED
  BY <1>4, <1>5, <1>6 DEF Inv

(* What a worker holds stays true when the journal, the tables and the      *)
(* archive grow.                                                            *)
LEMMA HoldsGrows ==
  ASSUME NEW h \in Nat, NEW i \in Nat, h <= i,
         NEW t \in Seq(Records), NEW u \in Seq(Records), Len(t) <= Len(u),
         \A k \in 1..Len(t) : u[k] = t[k],
         NEW r \in Nat, NEW q \in Nat, r <= q,
         NEW a, NEW b, a \subseteq b,
         NEW w \in Attempt, Holds(w, h, t, r, a)
  PROVE  Holds(w, i, u, q, b)
<1>1. /\ w.local \in Nat /\ w.intents \in Nat /\ w.receipts \in Nat
      /\ Len(t) \in Nat /\ Len(u) \in Nat
  BY DEF Attempt
<1>2. CursorHolds(w, i, u, q)
  BY <1>1 DEF Holds, CursorHolds
<1>3. w.receipts # 0 => u[w.receipts] = t[w.receipts]
  BY <1>1, SMTT(30) DEF Holds, CursorHolds
<1>4. w.intents = w.receipts + 1 => u[w.receipts + 1] = t[w.receipts + 1]
  BY <1>1 DEF Holds, CursorHolds
<1>5. t # << >> => u # << >>
  <2>1. t # << >> => Len(t) > 0
    BY <1>1
  <2> QED
    BY <1>1, <2>1
<1>6. CandidateHolds(w, u, b)
  BY <1>3, <1>4, <1>5 DEF Holds, CandidateHolds
<1> QED
  BY <1>2, <1>6 DEF Holds

(* The journal grows by a probe or an epoch.                                *)
LEMMA JournalKeeps ==
  ASSUME Inv, NEW p \in Process, Register(p) \/ Probe(p)
  PROVE  Inv'
<1>1. /\ head' = head + 1 /\ head < MaxHeads /\ owner' \in {p, owner}
      /\ UNCHANGED << intents, receipts, remote, delayed, outages >>
  BY Facts DEF Register, Probe, Extends, UnchangedTables, UnchangedArchive
<1>2. Sound(Ended("registered"))
  BY EndedSound
<1>3. \A q \in Process : worker'[q] = worker[q] \/ worker'[q] = Ended("registered")
  BY DEF Register, Probe, Set, Inv, TypeOK
<1>4. worker' \in [Process -> Attempt]
  <2>1. worker \in [Process -> Attempt] /\ Ended("registered") \in Attempt
    BY <1>2 DEF Inv, TypeOK, Sound
  <2> QED
    BY <2>1 DEF Register, Probe, Set
<1>5. head' \in 1..MaxHeads /\ owner' \in Process \cup {"none"}
  BY <1>1, Facts DEF Inv, TypeOK
<1>6. TypeOK'
  BY <1>1, <1>4, <1>5 DEF Inv, TypeOK
<1>7. NoFork' /\ ReceiptIsReadBack'
  BY <1>1 DEF Inv, NoFork, ReceiptIsReadBack, Object
<1>8. ChainReplays'
  <2>1. \A i \in DOMAIN intents : intents[i].head \in 1..head => intents[i].head \in 1..head'
    BY <1>1, Facts
  <2> QED
    BY <1>1, <2>1 DEF Inv, ChainReplays
<1>9. WorkersHold'
  <2> SUFFICES ASSUME NEW q \in Process
               PROVE  Holds(worker'[q], head', intents', receipts', remote')
    BY DEF WorkersHold
  <2>1. worker'[q] \in Attempt /\ Holds(worker'[q], head, intents, receipts, remote)
    BY <1>2, <1>3, Facts DEF Sound
  <2>2. intents \in Seq(Records) /\ receipts \in Nat /\ head \in Nat /\ head' \in Nat /\ head <= head'
    BY <1>1, Facts DEF Inv, TypeOK
  <2> QED
    BY <1>1, <2>1, <2>2, HoldsGrows
<1> QED
  BY <1>6, <1>7, <1>8, <1>9 DEF Inv

(* A cursor that has just been loaded.                                      *)
LEMMA LoadedFacts ==
  ASSUME Inv
  PROVE  /\ Tips(head) \in [local : Nat, intents : Nat, receipts : Nat]
         /\ Tips(head).local = head /\ Tips(head).intents = Len(intents)
         /\ Tips(head).receipts = receipts
BY Facts DEF Tips

LEMMA LoadedSound ==
  ASSUME Inv, NEW w \in Attempt, NEW complete \in BOOLEAN,
         NEW stage \in {"idle", "prepare", "recover", "audit", "postcheck"}, ~w.recovering
  PROVE  Sound(Goes(Moved(w, Tips(head), complete), stage))
<1> DEFINE u == Moved(w, Tips(head), complete)
           v == Goes(u, stage)
<1>1. stage \in Stages /\ stage \notin Uploading /\ stage \notin Ends
  BY DEF Stages, Steps, Uploading, Ends
<1>2. /\ u \in Attempt /\ u.local = head /\ u.intents = Len(intents)
      /\ u.receipts = receipts /\ u.recovering = w.recovering
  BY LoadedFacts, MovedFields
<1> HIDE DEF u
<1>3. /\ v \in Attempt /\ v.stage = stage /\ v.local = head /\ v.intents = Len(intents)
      /\ v.receipts = receipts /\ v.recovering = w.recovering
  BY <1>1, <1>2, GoesFields
<1> HIDE DEF v
<1>4. CursorHolds(v, head, intents, receipts)
  BY <1>3, Facts DEF CursorHolds
<1>5. CandidateHolds(v, intents, remote)
  BY <1>1, <1>3 DEF CandidateHolds, Uploading
<1> QED
  BY <1>3, <1>4, <1>5 DEF Sound, Holds, v, u

LEMMA PrimeKeeps ==
  ASSUME Inv, NEW p \in Process, Prime(p)
  PROVE  Inv'
<1>1. worker[p] \in Attempt /\ ~worker[p].recovering
  BY Facts, Zenon DEF Prime, Sound, Holds, CandidateHolds
<1>2. Sound(Goes(Moved(worker[p], Tips(head), TRUE), "idle"))
  BY <1>1, LoadedSound, Zenon
<1> QED
  BY <1>2, MoveKeeps, Zenon DEF Prime, UnchangedJournal, UnchangedTables, UnchangedArchive, Inv,
     TypeOK

(* The operator loads its cursor and proceeds, or reports.                  *)
LEMMA OperateKeeps ==
  ASSUME Inv, NEW p \in Process, NEW r \in Operations, Operate(p, r)
  PROVE  Inv'
<1> DEFINE u == Moved(Ended("off"), Tips(head), TRUE)
           w == [u EXCEPT !.request = r]
<1>1. Ended("off") \in Attempt /\ Ended("off").recovering = FALSE
  BY EndedFields, Zenon DEF Stages, Ends
<1>2. u \in Attempt /\ u.recovering = FALSE
  <2>1. Tips(head) \in [local : Nat, intents : Nat, receipts : Nat]
    BY LoadedFacts
  <2> HIDE DEF u
  <2>2. u \in Attempt /\ u.recovering = Ended("off").recovering
    BY <1>1, <2>1, MovedFields, Zenon DEF u
  <2> QED
    BY <1>1, <2>2
<1> HIDE DEF u
<1>3. /\ w \in Attempt /\ ~w.recovering
      /\ w.local = u.local /\ w.intents = u.intents /\ w.receipts = u.receipts
  <2>1. r \in Requests
    BY DEF Requests
  <2> QED
    BY <1>2, <2>1 DEF Attempt
<1>4. ASSUME NEW stage \in {"prepare", "postcheck", "recover"} PROVE Sound(Goes(w, stage))
  <2> DEFINE v == Goes(w, stage)
  <2>1. stage \in Stages /\ stage \notin Uploading /\ stage \notin Ends
    BY DEF Stages, Steps, Uploading, Ends
  <2>2. u.local = head /\ u.intents = Len(intents) /\ u.receipts = receipts
    BY <1>1, LoadedFacts, MovedFields, Zenon DEF u
  <2> HIDE DEF w
  <2>3. /\ v \in Attempt /\ v.stage = stage /\ v.local = head /\ v.intents = Len(intents)
        /\ v.receipts = receipts /\ ~v.recovering
    BY <1>3, <2>1, <2>2, GoesFields
  <2> HIDE DEF v
  <2>4. CursorHolds(v, head, intents, receipts)
    BY <2>3, Facts DEF CursorHolds
  <2>5. CandidateHolds(v, intents, remote)
    BY <2>1, <2>3 DEF CandidateHolds, Uploading
  <2> QED
    BY <2>3, <2>4, <2>5 DEF Sound, Holds, v
<1>5. Sound(Ended("rejected"))
  BY EndedSound DEF Ends
<1>6. Pending(Tips(head)) => Sound(Ended("recovery_required"))
  <2>1. Pending(Tips(head)) => intents # << >>
    BY Facts, LoadedFacts DEF Pending
  <2> QED
    BY <2>1, EndedSound DEF Ends
<1> HIDE DEF w
<1>7. PICK v : Sound(v) /\ Set(p, v)
  BY <1>4, <1>5, <1>6 DEF Operate, w, u
<1> QED
  BY <1>7, MoveKeeps DEF Operate, UnchangedJournal, UnchangedTables, UnchangedArchive, Inv,
     TypeOK

LEMMA CrashKeeps ==
  ASSUME Inv, NEW p \in Process, Crash(p)
  PROVE  Inv'
<1>1. Sound(Ended("off"))
  BY EndedSound DEF Ends
<1> QED
  BY <1>1, MoveKeeps DEF Crash, UnchangedJournal, UnchangedTables, UnchangedArchive, Inv,
     TypeOK

LEMMA BeginKeeps ==
  ASSUME Inv, NEW p \in Process, Begin(p)
  PROVE  Inv'
<1>1. PICK r \in Requests :
        Set(p, [worker[p] EXCEPT !.request = r, !.recovered = FALSE,
                  !.stage = IF Pending(Cursor(p)) THEN "recover" ELSE "prepare"])
  BY Zenon DEF Begin, Requests
<1> DEFINE w == worker[p]
           stage == IF Pending(Cursor(p)) THEN "recover" ELSE "prepare"
           v == [w EXCEPT !.request = r, !.recovered = FALSE, !.stage = stage]
<1>2. stage \in Stages /\ stage \in {"recover", "prepare"} /\ stage \notin Uploading /\ stage \notin Ends
  BY DEF Stages, Steps, Uploading, Ends
<1>3. Sound(w) /\ w.stage = "idle"
  BY Facts DEF Begin
<1>4. Set(p, v)
  BY <1>1
<1> HIDE DEF w, stage
<1>5. /\ v \in Attempt /\ v.stage = stage /\ v.local = w.local /\ v.intents = w.intents
      /\ v.receipts = w.receipts /\ v.recovering = w.recovering
  BY <1>2, <1>3, Zenon DEF Sound, Attempt
<1> HIDE DEF v
<1>6. CursorHolds(v, head, intents, receipts)
  BY <1>3, <1>5 DEF Sound, Holds, CursorHolds, Ends
<1>7. CandidateHolds(v, intents, remote)
  BY <1>2, <1>3, <1>5 DEF Sound, Holds, CandidateHolds, Uploading
<1>8. Sound(v)
  BY <1>5, <1>6, <1>7 DEF Sound, Holds
<1> QED
  BY <1>4, <1>8, MoveKeeps DEF Begin, UnchangedJournal, UnchangedTables, UnchangedArchive, Inv,
     TypeOK

(* A pending intent is taken over: the candidate is its row.                *)
LEMMA RecoverKeeps ==
  ASSUME Inv, NEW p \in Process, Recover(p)
  PROVE  Inv'
<1> DEFINE u == worker[p]
           w == IF u.complete THEN u ELSE Moved(u, Tips(head), TRUE)
           v == [w EXCEPT !.recovering = TRUE, !.candidate = intents[w.intents],
                          !.stage = "audit"]
<1>0. Sound(u) /\ u.stage = "recover"
  BY Facts DEF Recover
<1> HIDE DEF u
<1>1. w \in Attempt /\ CursorHolds(w, head, intents, receipts) /\ w.local >= 1
  <2>1. CASE u.complete
    BY <1>0, <2>1 DEF Sound, Holds, CursorHolds, Ends
  <2>2. CASE ~u.complete
    <3> DEFINE m == Moved(u, Tips(head), TRUE)
    <3>1. /\ m \in Attempt /\ m.local = head /\ m.intents = Len(intents)
          /\ m.receipts = receipts /\ m.stage = u.stage
      BY <1>0, LoadedFacts, MovedFields, Zenon DEF Sound
    <3>2. w = m
      BY <2>2
    <3> HIDE DEF m, w
    <3> QED
      BY <1>0, <3>1, <3>2, Facts DEF CursorHolds
  <2> QED
    BY <2>1, <2>2, Zenon
<1>2. Set(p, IF w.intents = w.receipts THEN Fatal(p, "conflict") ELSE v)
  BY Zenon DEF Recover, u
<1> HIDE DEF w
<1>3. Sound(Fatal(p, "conflict"))
  BY <1>0, FatalSound DEF u
<1>4. ASSUME w.intents # w.receipts PROVE Sound(v)
  <2>1. /\ w.intents = w.receipts + 1 /\ w.intents \in 1..Len(intents)
    BY <1>1, <1>4, Facts DEF CursorHolds, Attempt
  <2>2. intents[w.intents] \in Records /\ "audit" \in Stages
    BY <2>1, Facts DEF Stages, Steps
  <2>3. /\ v \in Attempt /\ v.stage = "audit" /\ v.candidate = intents[w.intents]
        /\ v.local = w.local /\ v.intents = w.intents /\ v.receipts = w.receipts
    BY <1>1, <2>2, Zenon DEF Attempt
  <2> HIDE DEF v
  <2>4. CursorHolds(v, head, intents, receipts)
    BY <1>1, <2>3 DEF CursorHolds, Ends
  <2>5. CandidateHolds(v, intents, remote)
    BY <2>1, <2>3 DEF CandidateHolds, Uploading
  <2> QED
    BY <2>3, <2>4, <2>5 DEF Sound, Holds
<1>5. PICK x : Sound(x) /\ Set(p, x)
  BY <1>2, <1>3, <1>4
<1> QED
  BY <1>5, MoveKeeps DEF Recover, UnchangedJournal, UnchangedTables, UnchangedArchive, Inv,
     TypeOK

LEMMA PrepareKeeps ==
  ASSUME Inv, NEW p \in Process, Prepare(p)
  PROVE  Inv'
<1> DEFINE w == worker[p]
<1>0. Sound(w) /\ w.stage = "prepare" /\ ~w.recovering /\ w \in Attempt
  BY Facts, Zenon DEF Prepare, Sound, Holds, CandidateHolds
<1>1. Sound(Goes(w, "audit"))
  <2> DEFINE v == Goes(w, "audit")
  <2>1. "audit" \in Stages
    BY DEF Stages, Steps
  <2>2. /\ v \in Attempt /\ v.stage = "audit" /\ v.recovering = w.recovering
        /\ v.local = w.local /\ v.intents = w.intents /\ v.receipts = w.receipts
    BY <1>0, <2>1, GoesFields, SMTT(30)
  <2> HIDE DEF v
  <2> QED
    BY <1>0, <2>2, SMTT(30) DEF Sound, Holds, CursorHolds, CandidateHolds, Uploading, Ends, v
<1>2. \A complete \in BOOLEAN : Sound(Goes(Moved(w, Tips(head), complete), "audit"))
  BY <1>0, LoadedSound, SMTT(30)
<1>3. (w.complete /\ Cursor(p) = Tips(head)) \in BOOLEAN
  OBVIOUS
<1>4. PICK x : Sound(x) /\ Set(p, x)
  BY <1>1, <1>2, <1>3, Zenon DEF Prepare
<1> QED
  BY <1>4, MoveKeeps DEF Prepare, UnchangedJournal, UnchangedTables, UnchangedArchive, Inv,
     TypeOK

(* The objects of the first n sequences.                                    *)
Objects(n) == {Object(i) : i \in 1..n}

LEMMA ObjectsCount ==
  ASSUME NEW n \in Nat
  PROVE  IsFiniteSet(Objects(n)) /\ Cardinality(Objects(n)) = n
<1> DEFINE f == [i \in 1..n |-> Object(i)]
<1>1. f \in Bijection(1..n, Objects(n))
  <2>1. f \in [1..n -> Objects(n)]
    BY DEF Objects
  <2>2. \A i, j \in 1..n : f[i] = f[j] => i = j
    BY DEF Object
  <2>3. \A o \in Objects(n) : \E i \in 1..n : f[i] = o
    BY DEF Objects
  <2> QED
    BY <2>1, <2>2, <2>3, Zenon DEF Bijection, Injection, Surjection, IsInjective
<1>2. ExistsBijection(1..n, Objects(n))
  BY <1>1 DEF ExistsBijection
<1>3. IsFiniteSet(1..n) /\ Cardinality(1..n) = n
  BY FS_Interval
<1> QED
  BY <1>2, <1>3, FS_Bijection

LEMMA AuditKeeps ==
  ASSUME Inv, NEW p \in Process, Audit(p) \/ Recheck(p)
  PROVE  Inv'
<1> DEFINE w == worker[p]
           v == [w EXCEPT !.seen = Cardinality(remote), !.stage = "recheck"]
<1>0. Sound(w) /\ w.stage \in {"audit", "recheck"} /\ w \in Attempt
  BY Facts DEF Audit, Recheck, Sound
<1>1. Sound(Fatal(p, "drift")) /\ \A agrees : Sound(Judge(p, agrees))
  BY <1>0, FatalSound, JudgeSound
<1>2. ASSUME IsFiniteSet(remote), Audit(p) PROVE Sound(v)
  <2>1. Cardinality(remote) \in Nat /\ "recheck" \in Stages
    BY <1>2, FS_CardinalityType DEF Stages, Steps
  <2>2. /\ v \in Attempt /\ v.stage = "recheck" /\ v.candidate = w.candidate
        /\ v.local = w.local /\ v.intents = w.intents /\ v.receipts = w.receipts
        /\ v.recovering = w.recovering
    BY <1>0, <2>1, Zenon DEF Attempt
  <2>3. w.stage = "audit"
    BY <1>2 DEF Audit
  <2> HIDE DEF v
  <2> QED
    BY <1>0, <2>2, <2>3, SMTT(30) DEF Sound, Holds, CursorHolds, CandidateHolds, Uploading, Ends
<1>3. IsFiniteSet(remote)
  <2>1. remote \subseteq Objects(Len(intents))
    BY Facts DEF Inv, TypeOK, NoFork, Object, Objects
  <2>2. IsFiniteSet(Objects(Len(intents)))
    BY Facts, ObjectsCount
  <2> QED
    BY <2>1, <2>2, FS_Subset
<1>4. PICK x : Sound(x) /\ Set(p, x)
  BY <1>1, <1>2, <1>3 DEF Audit, Recheck
<1> QED
  BY <1>4, MoveKeeps DEF Audit, Recheck, UnchangedJournal, UnchangedTables, UnchangedArchive,
     Inv, TypeOK

(* The archive is listed before and after the upload.                       *)
LEMMA ListKeeps ==
  ASSUME Inv, NEW p \in Process, List(p)
  PROVE  Inv'
<1> DEFINE w == worker[p]
<1>0. Sound(w) /\ w.stage = "list" /\ w \in Attempt
  BY Facts DEF List, Sound
<1>1. "list" \in Uploading /\ "upload" \in Uploading /\ "refresh" \in Uploading
  BY DEF Uploading
<1>2. Sound(Fatal(p, "conflict"))
  BY <1>0, <1>1, FatalSound
<1>3. ASSUME NEW stage \in {"upload", "refresh"},
             stage = "refresh" => Target(w) \in remote
      PROVE  Sound(Goes(w, stage))
  <2> DEFINE v == Goes(w, stage)
  <2>1. stage \in Stages /\ stage \notin Ends
    BY DEF Stages, Steps, Ends
  <2>2. /\ v \in Attempt /\ v.stage = stage /\ v.local = w.local
        /\ v.intents = w.intents /\ v.receipts = w.receipts /\ v.candidate = w.candidate
    BY <1>0, <2>1, GoesFields
  <2> HIDE DEF v
  <2>3. CursorHolds(v, head, intents, receipts)
    BY <1>0, <2>1, <2>2 DEF Sound, Holds, CursorHolds, Ends
  <2>4. CandidateHolds(v, intents, remote)
    BY <1>0, <1>1, <1>3, <2>1, <2>2, SMTT(30) DEF Sound, Holds, CandidateHolds, Target
  <2> QED
    BY <2>2, <2>3, <2>4 DEF Sound, Holds, v
<1>4. At(w.receipts + 1) # {} /\ At(w.receipts + 1) \subseteq {Target(w)}
        => Target(w) \in remote
  BY DEF At
<1>5. PICK x : Sound(x) /\ Set(p, x)
  BY <1>2, <1>3, <1>4 DEF List
<1> QED
  BY <1>5, MoveKeeps DEF List, UnchangedJournal, UnchangedTables, UnchangedArchive, Inv,
     TypeOK

LEMMA SettleKeeps ==
  ASSUME Inv, NEW p \in Process, Settle(p)
  PROVE  Inv'
<1> DEFINE w == worker[p]
           v == Goes(w, "refresh")
<1>0. /\ Sound(w) /\ w.stage \in {"settle", "doubt"} /\ w \in Attempt
      /\ w.stage \in Uploading
  BY Facts DEF Settle, Sound, Uploading
<1>1. Sound(Fatal(p, "conflict")) /\ Sound(Transient(p))
  BY <1>0, FatalSound, TransientSound
<1>2. ASSUME At(w.receipts + 1) = {Target(w)} PROVE Sound(v)
  <2>1. Target(w) \in remote
    BY <1>2 DEF At
  <2>2. "refresh" \in Stages /\ "refresh" \notin Ends
    BY DEF Stages, Steps, Ends
  <2>3. /\ v \in Attempt /\ v.stage = "refresh" /\ v.local = w.local
        /\ v.intents = w.intents /\ v.receipts = w.receipts /\ v.candidate = w.candidate
    BY <1>0, <2>2, GoesFields
  <2> HIDE DEF v
  <2>4. CursorHolds(v, head, intents, receipts)
    BY <1>0, <2>2, <2>3 DEF Sound, Holds, CursorHolds, Ends
  <2>5. CandidateHolds(v, intents, remote)
    BY <1>0, <2>1, <2>3, SMTT(30) DEF Sound, Holds, CandidateHolds, Target
  <2> QED
    BY <2>3, <2>4, <2>5 DEF Sound, Holds
<1>3. PICK x : Sound(x) /\ Set(p, x)
  BY <1>1, <1>2 DEF Settle
<1> QED
  BY <1>3, MoveKeeps DEF Settle, UnchangedJournal, UnchangedTables, UnchangedArchive, Inv,
     TypeOK

(* The cursor is read again: the receipt is in, due, or somebody else is    *)
(* at work.                                                                 *)
LEMMA RefreshKeeps ==
  ASSUME Inv, NEW p \in Process, Refresh(p)
  PROVE  Inv'
<1> DEFINE u == worker[p]
           w == Moved(u, Tips(head), FALSE)
           v == Goes(w, "receipt")
<1>0. /\ Sound(u) /\ u.stage = "refresh" /\ u \in Attempt /\ u.stage \in Uploading
  BY Facts, SMTT(30) DEF Refresh, Sound, Uploading
<1>1. /\ w \in Attempt /\ w.stage = "refresh" /\ w.local = head
      /\ w.intents = Len(intents) /\ w.receipts = receipts /\ w.candidate = u.candidate
  BY <1>0, LoadedFacts, MovedFields, Zenon
<1>2. u.candidate = intents[u.receipts + 1] /\ << u.receipts + 1, u.candidate >> \in remote
  BY <1>0, SMTT(30) DEF Sound, Holds, CandidateHolds
<1>3. Sound(Fatal(p, "conflict"))
  BY <1>0, FatalSound
<1>4. Set(p, IF w.receipts = w.intents /\ w.intents = u.receipts + 1 THEN Completed(w)
             ELSE IF w.receipts < w.intents /\ w.intents = u.receipts + 1 THEN v
             ELSE Fatal(p, "conflict"))
  BY Zenon DEF Refresh
<1> HIDE DEF w, u
<1>5. CursorHolds(w, head, intents, receipts) /\ w.local >= 1
  BY <1>1, Facts DEF CursorHolds
<1>6. Sound(Completed(w))
  BY <1>1, <1>5, RequestSound
<1>7. ASSUME w.receipts < w.intents, w.intents = u.receipts + 1 PROVE Sound(v)
  <2>1. "receipt" \in Stages /\ "receipt" \notin Ends /\ "receipt" \in Uploading
    BY DEF Stages, Steps, Ends, Uploading
  <2>2. /\ v \in Attempt /\ v.stage = "receipt" /\ v.local = w.local
        /\ v.intents = w.intents /\ v.receipts = w.receipts /\ v.candidate = w.candidate
    BY <1>1, <2>1, GoesFields
  <2> HIDE DEF v
  <2>3. w.receipts = u.receipts
    BY <1>0, <1>1, <1>7, Facts DEF Attempt
  <2>4. CursorHolds(v, head, intents, receipts)
    BY <1>5, <2>2 DEF CursorHolds
  <2>5. CandidateHolds(v, intents, remote)
    BY <1>1, <1>2, <1>7, <2>2, <2>3 DEF CandidateHolds
  <2> QED
    BY <2>2, <2>4, <2>5 DEF Sound, Holds
<1> HIDE DEF v
<1>8. PICK x : Sound(x) /\ Set(p, x)
  BY <1>3, <1>4, <1>6, <1>7
<1> QED
  BY <1>8, MoveKeeps DEF Refresh, UnchangedJournal, UnchangedTables, UnchangedArchive, Inv,
     TypeOK

LEMMA PostcheckKeeps ==
  ASSUME Inv, NEW p \in Process, Postcheck(p)
  PROVE  Inv'
<1>1. Sound(Ended("enrolled")) /\ Sound(Ended("unconfirmed"))
  BY EndedSound DEF Ends
<1>2. PICK x : Sound(x) /\ Set(p, x)
  BY <1>1 DEF Postcheck
<1>3. outages' \in 0..MaxOutages
  BY DEF Postcheck, Inv, TypeOK
<1> QED
  BY <1>2, <1>3, MoveKeeps DEF Postcheck, UnchangedJournal, UnchangedTables

LEMMA OutageKeeps ==
  ASSUME Inv, NEW p \in Process, Outage(p)
  PROVE  Inv'
<1>1. Sound(Transient(p))
  BY TransientSound DEF Outage, Uploading
<1>2. outages' \in 0..MaxOutages
  BY DEF Outage, Inv, TypeOK
<1> QED
  BY <1>1, <1>2, MoveKeeps DEF Outage, UnchangedJournal, UnchangedTables

=============================================================================
