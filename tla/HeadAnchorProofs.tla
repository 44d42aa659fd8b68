-------------------------- MODULE HeadAnchorProofs --------------------------
(***************************************************************************)
(* Proofs about HeadAnchor for every set of processes, every length of the *)
(* local journal and every number of outages, with processes one after the *)
(* other or overlapping.                                                   *)
(***************************************************************************)
EXTENDS HeadAnchorLemmas

USE AnchorAssumption

(* The attempt object of p becomes v and the tables and the archive grow.   *)
LEMMA WorkersGrow ==
  ASSUME Inv, NEW p \in Process, NEW v \in Attempt, Set(p, v),
         UNCHANGED head, intents' \in Seq(Records), receipts' \in Nat,
         Len(intents) <= Len(intents'), \A k \in 1..Len(intents) : intents'[k] = intents[k],
         receipts <= receipts', remote \subseteq remote',
         Holds(v, head, intents', receipts', remote')
  PROVE  worker' \in [Process -> Attempt] /\ WorkersHold'
<1>1. worker \in [Process -> Attempt]
  BY DEF Inv, TypeOK
<1>2. worker' = [worker EXCEPT ![p] = v]
  BY DEF Set
<1>3. /\ worker' \in [Process -> Attempt]
      /\ worker'[p] = v /\ \A q \in Process : q # p => worker'[q] = worker[q]
  BY <1>1, <1>2
<1>4. ASSUME NEW q \in Process, q # p
      PROVE  Holds(worker[q], head, intents', receipts', remote')
  <2>1. worker[q] \in Attempt /\ Holds(worker[q], head, intents, receipts, remote)
    BY Facts DEF Sound
  <2>2. head \in Nat /\ head <= head /\ intents \in Seq(Records) /\ receipts \in Nat
    BY Facts DEF Inv, TypeOK
  <2> QED
    BY <2>1, <2>2, HoldsGrows, Zenon
<1> QED
  BY <1>3, <1>4 DEF WorkersHold

(* The intent is committed, joined, or the attempt is over.                 *)
LEMMA CommitKeeps ==
  ASSUME Inv, NEW p \in Process, Commit(p)
  PROVE  Inv'
<1> DEFINE w == worker[p]
           known == Pending(Cursor(p))
<1>0. /\ w \in Attempt /\ w.stage = "commit" /\ w.local >= 1
      /\ CursorHolds(w, head, intents, receipts) /\ CandidateHolds(w, intents, remote)
  BY Facts, SMTT(30) DEF Commit, Sound, Holds, CursorHolds, Ends
<1>1. known <=> w.intents > w.receipts
  BY DEF Pending, Cursor
<1>2. w.intents \in Nat /\ w.receipts \in Nat /\ w.local \in Nat
  BY <1>0 DEF Attempt
<1> HIDE DEF known
<1>3. CASE UNCHANGED intents
  <2>1. known \/ TipsChanged(p) => Sound(Fatal(p, "conflict"))
    <3>1. known \/ TipsChanged(p) => Len(intents) > 0
      BY <1>0, <1>1, <1>2, Facts DEF CursorHolds, TipsChanged
    <3>2. known \/ TipsChanged(p) => intents # << >>
      BY <3>1
    <3> QED
      BY <1>0, <3>2, FatalSound
  <2>2. Sound(Advanced(p, Moved(w, Tips(head), FALSE)))
    <3> DEFINE m == Moved(w, Tips(head), FALSE)
    <3>1. /\ m \in Attempt /\ m.stage = w.stage /\ m.local = head
          /\ m.intents = Len(intents) /\ m.receipts = receipts
      BY <1>0, LoadedFacts, MovedFields, Zenon
    <3> HIDE DEF m
    <3>2. CursorHolds(m, head, intents, receipts) /\ m.local >= 1
      BY <3>1, Facts DEF CursorHolds
    <3>3. Sound(Again(m)) /\ Sound(Ended("rejected"))
      BY <3>1, <3>2, RequestSound, EndedSound DEF Ends
    <3> QED
      BY <1>0, <3>1, <3>3, Zenon DEF Advanced, m
  <2>3. known /\ intents[w.intents] = w.candidate => Sound(Goes(w, "list"))
    <3> DEFINE v == Goes(w, "list")
    <3>1. "list" \in Stages /\ "list" \notin Ends
      BY DEF Stages, Steps, Ends
    <3>2. /\ v \in Attempt /\ v.stage = "list" /\ v.local = w.local
          /\ v.intents = w.intents /\ v.receipts = w.receipts /\ v.candidate = w.candidate
      BY <1>0, <3>1, GoesFields
    <3> HIDE DEF v
    <3>3. CursorHolds(v, head, intents, receipts)
      BY <1>0, <3>2 DEF CursorHolds
    <3>4. known => w.intents = w.receipts + 1
      BY <1>0, <1>1, <1>2, SMTT(30) DEF CursorHolds
    <3>5. known /\ intents[w.intents] = w.candidate => CandidateHolds(v, intents, remote)
      BY <3>2, <3>4 DEF CandidateHolds
    <3> QED
      BY <3>2, <3>3, <3>5 DEF Sound, Holds, v
  <2>4. intents' # Append(intents, w.candidate)
    BY <1>3 DEF Inv, TypeOK
  <2>5. PICK x : Sound(x) /\ Set(p, x)
    BY <2>1, <2>2, <2>3, <2>4, Zenon DEF Commit, known
  <2> QED
    BY <1>3, <2>5, MoveKeeps DEF Commit, UnchangedJournal, UnchangedArchive, Inv, TypeOK
<1>4. CASE ~UNCHANGED intents
  <2> DEFINE n == w.intents + 1
             v == [w EXCEPT !.intents = n, !.complete = FALSE, !.stage = "list"]
  <2>1. /\ ~known /\ head = w.local /\ Len(intents) = w.intents /\ receipts = w.receipts
        /\ intents' = Append(intents, w.candidate) /\ Set(p, v)
        /\ UNCHANGED << receipts, head, owner, remote, delayed, outages >>
    BY <1>4, Zenon DEF Commit, HeadAdvanced, TipsChanged, known, UnchangedJournal,
       UnchangedArchive
  <2>2. w.intents = w.receipts /\ Len(intents) = receipts
    BY <1>0, <1>1, <1>2, <2>1, SMTT(30) DEF CursorHolds
  <2>3. /\ w.candidate = [head |-> head, reason |-> w.request.reason]
        /\ (receipts = 0) = (w.request = Enrollment)
        /\ receipts # 0 => intents[receipts].head # head
    BY <1>0, <2>1 DEF CandidateHolds
  <2>4. w.request \in Requests
    BY <1>0 DEF Attempt
  <2>5. w.candidate \in Records
    <3>1. head \in 1..MaxHeads
      BY Facts
    <3> QED
      BY <2>3, <2>4, <3>1 DEF Records
  <2>6. (w.candidate.reason = Enrollment.reason) = (receipts = 0)
    <3>1. w.request.reason = Enrollment.reason <=> w.request = Enrollment
      BY <2>4, ReasonTells
    <3>2. w.candidate.reason = w.request.reason
      BY <2>3
    <3> QED
      BY <2>3, <3>1, <3>2
  <2>7. /\ intents' \in Seq(Records) /\ Len(intents') = receipts + 1
        /\ intents'[receipts + 1] = w.candidate
        /\ \A k \in 1..Len(intents) : intents'[k] = intents[k]
    BY <2>1, <2>2, <2>5 DEF Inv, TypeOK
  <2>8. "list" \in Stages /\ "list" \notin Ends
    BY DEF Stages, Steps, Ends
  <2>9. /\ v \in Attempt /\ v.stage = "list" /\ v.local = w.local
        /\ v.intents = w.intents + 1 /\ v.receipts = w.receipts /\ v.candidate = w.candidate
    <3>1. n \in Nat
      BY <1>2
    <3> HIDE DEF n
    <3>2. /\ v \in Attempt /\ v.stage = "list" /\ v.local = w.local
          /\ v.intents = n /\ v.receipts = w.receipts /\ v.candidate = w.candidate
      BY <1>0, <2>8, <3>1, Zenon DEF Attempt
    <3> QED
      BY <3>2 DEF n
  <2> HIDE DEF v
  <2>10. Holds(v, head, intents', receipts', remote')
    <3>1. CursorHolds(v, head, intents', receipts')
      BY <1>0, <1>2, <2>1, <2>2, <2>7, <2>9, Facts, SMTT(30) DEF CursorHolds
    <3>2. CandidateHolds(v, intents', remote')
      BY <2>1, <2>2, <2>7, <2>9 DEF CandidateHolds
    <3> QED
      BY <3>1, <3>2 DEF Holds
  <2>11. worker' \in [Process -> Attempt] /\ WorkersHold'
    <3>1. /\ receipts' \in Nat /\ receipts <= receipts' /\ remote \subseteq remote'
          /\ Len(intents) <= Len(intents') /\ UNCHANGED head
      BY <2>1, <2>2, <2>7, Facts
    <3> QED
      BY <2>1, <2>7, <2>9, <2>10, <3>1, WorkersGrow, SMTT(30)
  <2>12. TypeOK'
    BY <2>1, <2>7, <2>11, SMTT(30) DEF Inv, TypeOK
  <2>13. NoFork'
    <3>1. \A k \in DOMAIN intents : k \in DOMAIN intents' /\ intents'[k] = intents[k]
      BY <2>2, <2>7, Facts DEF Inv, TypeOK
    <3> QED
      BY <2>1, <3>1 DEF Inv, NoFork
  <2>14. ReceiptIsReadBack'
    <3>1. \A k \in 1..receipts : intents'[k] = intents[k]
      BY <2>2, <2>7
    <3> QED
      BY <2>1, <3>1, Zenon DEF Inv, ReceiptIsReadBack, Object
  <2>15. ChainReplays'
    <3>1. receipts' \in {Len(intents'), Len(intents') - 1}
      BY <2>1, <2>7, Facts, SMTT(30)
    <3> SUFFICES ASSUME NEW k \in DOMAIN intents'
                 PROVE  /\ intents'[k].head \in 1..head'
                        /\ k > 1 => intents'[k - 1].head < intents'[k].head
                        /\ (intents'[k].reason = Enrollment.reason) = (k = 1)
      BY <3>1 DEF ChainReplays
    <3>2. k \in 1..(receipts + 1)
      BY <2>7
    <3>3. CASE k = receipts + 1
      <4>1. w.candidate.head = head
        BY <2>3
      <4>2. k > 1 => intents[k - 1].head < head
        <5>1. k > 1 => receipts # 0 /\ k - 1 = receipts /\ receipts \in DOMAIN intents
          BY <2>2, <3>2, <3>3, Facts DEF Inv, TypeOK
        <5>2. receipts \in DOMAIN intents => intents[receipts].head \in 1..head
          BY DEF Inv, ChainReplays
        <5> QED
          BY <2>3, <5>1, <5>2, Facts
      <4>3. k > 1 => intents'[k - 1] = intents[k - 1]
        BY <2>2, <2>7, <3>2, <3>3, Facts
      <4>4. (k = 1) <=> (receipts = 0)
        BY <3>3, Facts
      <4>5. intents'[k] = w.candidate /\ head' = head /\ head \in 1..head
        BY <2>1, <2>7, <3>3, Facts, SMTT(30)
      <4> QED
        BY <2>6, <4>1, <4>2, <4>3, <4>4, <4>5
    <3>4. CASE k # receipts + 1
      <4>1. k \in 1..Len(intents) /\ k \in DOMAIN intents /\ (k > 1 => k - 1 \in 1..Len(intents))
        BY <2>2, <3>2, <3>4, Facts, SMTT(30) DEF Inv, TypeOK
      <4> QED
        BY <2>1, <2>7, <4>1, SMTT(30) DEF Inv, ChainReplays
    <3> QED
      BY <3>3, <3>4
  <2> QED
    BY <2>11, <2>12, <2>13, <2>14, <2>15 DEF Inv
<1> QED
  BY <1>3, <1>4

(* The receipt is written under the tips the object was read back with.     *)
LEMMA ReceiptFacts ==
  ASSUME Inv, NEW p \in Process, Receipt(p), ~UNCHANGED receipts
  PROVE  LET n == receipts + 1
             w == [worker[p] EXCEPT !.receipts = n]
         IN  /\ receipts' = n /\ n = Len(intents) /\ Object(n) \in remote
             /\ Set(p, Completed(w))
             /\ w \in Attempt /\ CursorHolds(w, head, intents, n) /\ w.local >= 1
             /\ w.local = head /\ w.candidate = intents[n] /\ w.receipts = n
<1> DEFINE u == worker[p]
           n == receipts + 1
           w == [u EXCEPT !.receipts = n]
<1>0. /\ u \in Attempt /\ u.stage = "receipt" /\ u.stage \in Uploading
      /\ CursorHolds(u, head, intents, receipts) /\ CandidateHolds(u, intents, remote)
  BY Facts DEF Receipt, Sound, Holds, Uploading
<1>1. /\ head = u.local /\ Len(intents) = u.intents /\ receipts = u.receipts
      /\ receipts' = n
  BY DEF Receipt, HeadAdvanced, TipsChanged
<1>2. Set(p, Completed(w))
  BY <1>1 DEF Receipt, HeadAdvanced, TipsChanged
<1>3. /\ u.intents = n /\ u.candidate = intents[n] /\ << n, u.candidate >> \in remote
      /\ u.local >= 1
  BY <1>0, <1>1 DEF CandidateHolds, CursorHolds, Ends
<1>4. n \in Nat
  BY Facts
<1> HIDE DEF n, u
<1>5. /\ w \in Attempt /\ w.stage = u.stage /\ w.local = u.local
      /\ w.intents = u.intents /\ w.receipts = n /\ w.candidate = u.candidate
  BY <1>0, <1>4 DEF Attempt
<1> HIDE DEF w
<1>6. CursorHolds(w, head, intents, n)
  BY <1>0, <1>1, <1>3, <1>4, <1>5, Facts DEF CursorHolds
<1> QED
  BY <1>1, <1>2, <1>3, <1>5, <1>6 DEF Object, n, w, u

LEMMA ReceiptKeeps ==
  ASSUME Inv, NEW p \in Process, Receipt(p)
  PROVE  Inv'
<1>0. /\ worker[p].stage = "receipt" /\ worker[p].stage \in Uploading
      /\ UNCHANGED << head, owner, intents, remote, delayed, outages >>
  BY DEF Receipt, Uploading, UnchangedJournal, UnchangedArchive
<1>1. CASE UNCHANGED receipts
  <2>1. Sound(Fatal(p, "conflict"))
    BY <1>0, FatalSound
  <2>2. Sound(Advanced(p, worker[p]))
    <3>1. /\ worker[p] \in Attempt /\ CursorHolds(worker[p], head, intents, receipts)
          /\ worker[p].local >= 1
      BY <1>0, Facts DEF Sound, Holds, CursorHolds, Ends
    <3>2. Sound(Again(worker[p])) /\ Sound(Ended("recovery_required"))
      BY <1>0, <3>1, RequestSound, EndedSound, PinnedFacts DEF Ends
    <3> QED
      BY <1>0, <3>2 DEF Advanced
  <2>3. receipts' # receipts + 1
    BY <1>1, Facts
  <2>4. PICK x : Sound(x) /\ Set(p, x)
    BY <2>1, <2>2, <2>3 DEF Receipt
  <2> QED
    BY <1>0, <1>1, <2>4, MoveKeeps DEF Inv, TypeOK
<1>2. CASE ~UNCHANGED receipts
  <2> DEFINE n == receipts + 1
             w == [worker[p] EXCEPT !.receipts = n]
             v == Completed(w)
  <2>1. /\ receipts' = n /\ n = Len(intents) /\ Object(n) \in remote /\ Set(p, v)
        /\ w \in Attempt /\ CursorHolds(w, head, intents, n) /\ w.local >= 1
    BY <1>2, ReceiptFacts, SMTT(30)
  <2>2. n \in Nat /\ receipts <= n /\ head \in Nat /\ intents \in Seq(Records)
    BY Facts DEF Inv, TypeOK
  <2> HIDE DEF w
  <2>3. v \in Attempt /\ Holds(v, head, intents, n, remote)
    BY <2>1, <2>2, CompletedHolds
  <2> HIDE DEF v
  <2>4. worker' \in [Process -> Attempt] /\ WorkersHold'
    BY <1>0, <2>1, <2>2, <2>3, WorkersGrow
  <2>5. TypeOK'
    BY <1>0, <2>1, <2>2, <2>4 DEF Inv, TypeOK
  <2>6. NoFork' /\ ChainReplays'
    BY <1>0, <2>1 DEF Inv, NoFork, ChainReplays
  <2>7. ReceiptIsReadBack'
    <3>1. \A k \in 1..n : k \in 1..receipts \/ k = n
      BY <2>2, Facts
    <3> QED
      BY <1>0, <2>1, <3>1 DEF Inv, ReceiptIsReadBack, Object
  <2> QED
    BY <2>4, <2>5, <2>6, <2>7 DEF Inv
<1> QED
  BY <1>1, <1>2

(* What is uploaded is the committed intent of its sequence.                *)
LEMMA TargetFacts ==
  ASSUME Inv, NEW p \in Process, worker[p].stage \in Uploading
  PROVE  LET n == worker[p].receipts + 1
         IN  /\ Target(worker[p]) = Object(n) /\ n \in 1..Len(intents)
             /\ n \in DOMAIN intents /\ Object(n) \in Nat \X Records
<1> DEFINE n == worker[p].receipts + 1
<1>1. worker[p].candidate = intents[n] /\ n \in 1..Len(intents)
  BY PinnedFacts
<1>2. Target(worker[p]) = << n, worker[p].candidate >>
  BY DEF Target
<1> HIDE DEF n
<1>3. n \in Nat /\ intents[n] \in Records /\ n \in DOMAIN intents
  BY <1>1, Facts DEF Inv, TypeOK
<1> QED
  BY <1>1, <1>2, <1>3 DEF Object, n

LEMMA UploadKeeps ==
  ASSUME Inv, NEW p \in Process, Upload(p)
  PROVE  Inv'
<1> DEFINE w == worker[p]
           o == Target(w)
<1>0. /\ w.stage = "upload" /\ w.stage \in Uploading /\ Sound(w) /\ w \in Attempt
      /\ UNCHANGED << head, owner, intents, receipts >>
  BY Facts DEF Upload, Sound, Uploading, UnchangedJournal, UnchangedTables
<1>1. o \in Nat \X Records /\ o[1] \in DOMAIN intents /\ o[2] = intents[o[1]]
  <2>1. PICK n \in DOMAIN intents : o = << n, intents[n] >> /\ o \in Nat \X Records
    BY <1>0, TargetFacts, Zenon DEF Object
  <2> HIDE DEF o
  <2> QED
    BY <2>1
<1>2. PICK stage \in {"settle", "doubt"} : Set(p, Goes(w, stage))
  BY DEF Upload
<1>3. /\ remote \subseteq remote' /\ remote' \subseteq remote \cup {o}
      /\ delayed' \subseteq delayed \cup {o} /\ outages' \in 0..MaxOutages
  BY DEF Upload, Inv, TypeOK
<1> DEFINE v == Goes(w, stage)
<1>4. stage \in Stages /\ stage \in Uploading /\ stage \notin Ends
  BY DEF Stages, Steps, Uploading, Ends
<1> HIDE DEF w, o
<1>5. /\ v \in Attempt /\ v.stage = stage /\ v.local = w.local
      /\ v.intents = w.intents /\ v.receipts = w.receipts /\ v.candidate = w.candidate
  BY <1>0, <1>4, GoesFields
<1> HIDE DEF v
<1>6. Holds(v, head, intents, receipts, remote)
  <2>1. CursorHolds(v, head, intents, receipts)
    BY <1>0, <1>5 DEF Sound, Holds, CursorHolds, Ends
  <2>2. CandidateHolds(v, intents, remote)
    BY <1>0, <1>4, <1>5 DEF Sound, Holds, CandidateHolds
  <2> QED
    BY <2>1, <2>2 DEF Holds
<1>7. /\ head \in Nat /\ head <= head /\ intents \in Seq(Records) /\ receipts \in Nat
      /\ receipts <= receipts /\ Len(intents) <= Len(intents)
  BY Facts DEF Inv, TypeOK
<1>8. Holds(v, head, intents, receipts, remote')
  BY <1>3, <1>5, <1>6, <1>7, HoldsGrows
<1>9. worker' \in [Process -> Attempt] /\ WorkersHold'
  BY <1>0, <1>2, <1>3, <1>5, <1>7, <1>8, WorkersGrow DEF v
<1>10. TypeOK'
  BY <1>0, <1>1, <1>3, <1>9 DEF Inv, TypeOK
<1>11. NoFork' /\ ReceiptIsReadBack' /\ ChainReplays'
  BY <1>0, <1>1, <1>3 DEF Inv, NoFork, ReceiptIsReadBack, ChainReplays, Object
<1> QED
  BY <1>9, <1>10, <1>11 DEF Inv

LEMMA LandKeeps ==
  ASSUME Inv, NEW o \in delayed, Land(o)
  PROVE  Inv'
<1>0. /\ UNCHANGED << head, owner, intents, receipts, outages, worker >>
      /\ remote' = remote \cup {o} /\ delayed' = delayed \ {o}
  BY DEF Land, UnchangedJournal, UnchangedTables
<1>1. WorkersHold'
  <2> SUFFICES ASSUME NEW q \in Process
               PROVE  Holds(worker[q], head, intents, receipts, remote')
    BY <1>0 DEF WorkersHold
  <2>1. worker[q] \in Attempt /\ Holds(worker[q], head, intents, receipts, remote)
    BY Facts DEF Sound
  <2>2. /\ head \in Nat /\ head <= head /\ intents \in Seq(Records) /\ receipts \in Nat
        /\ receipts <= receipts /\ Len(intents) <= Len(intents) /\ remote \subseteq remote'
    BY <1>0, Facts DEF Inv, TypeOK
  <2> QED
    BY <2>1, <2>2, HoldsGrows
<1>2. TypeOK'
  BY <1>0 DEF Inv, TypeOK
<1>3. NoFork' /\ ReceiptIsReadBack' /\ ChainReplays'
  BY <1>0 DEF Inv, NoFork, ReceiptIsReadBack, ChainReplays, Object
<1> QED
  BY <1>1, <1>2, <1>3 DEF Inv

-----------------------------------------------------------------------------
(* The invariant.                                                           *)

LEMMA InitHolds == Init => Inv
<1> SUFFICES ASSUME Init PROVE Inv
  OBVIOUS
<1>1. 1 \in 1..MaxHeads /\ intents \in Seq(Records) /\ Len(intents) = 0
  BY DEF Init
<1>2. \A p \in Process : worker[p] = Ended("off")
  BY DEF Init
<1>3. Ended("off") \in Attempt /\ Holds(Ended("off"), head, intents, receipts, remote)
  <2>1. head \in Nat /\ receipts \in Nat /\ "off" \in Ends
    BY DEF Init, Ends
  <2> QED
    BY <1>1, <2>1, EndedHolds, Zenon
<1>4. TypeOK
  BY <1>1, <1>3 DEF Init, TypeOK
<1>5. NoFork /\ ReceiptIsReadBack /\ ChainReplays
  BY <1>1 DEF Init, NoFork, ReceiptIsReadBack, ChainReplays
<1>6. WorkersHold
  BY <1>2, <1>3 DEF WorkersHold
<1> QED
  BY <1>4, <1>5, <1>6 DEF Inv

LEMMA NextKeeps == Inv /\ [Next]_vars => Inv'
<1> SUFFICES ASSUME Inv, [Next]_vars PROVE Inv'
  OBVIOUS
<1>1. CASE UNCHANGED vars
  BY <1>1 DEF vars, Inv, TypeOK, NoFork, ReceiptIsReadBack, ChainReplays, WorkersHold, Object
<1>2. ASSUME NEW p \in Process, Work(p) PROVE Inv'
  BY <1>2, PrimeKeeps, BeginKeeps, RecoverKeeps, PrepareKeeps, AuditKeeps, CommitKeeps,
     ListKeeps, UploadKeeps, SettleKeeps, RefreshKeeps, ReceiptKeeps, PostcheckKeeps DEF Work
<1>3. ASSUME NEW p \in Process, Register(p) \/ Probe(p) \/ Crash(p) \/ Outage(p) PROVE Inv'
  BY <1>3, JournalKeeps, CrashKeeps, OutageKeeps
<1> QED
  BY <1>1, <1>2, <1>3, OperateKeeps, LandKeeps DEF Next

\* The inductive invariant holds in every state, for every set of processes,
\* overlapping or not.
THEOREM Invariance == Spec => []Inv
BY InitHolds, NextKeeps, PTL DEF Spec

LEMMA InvAgrees == Inv => AnchorsAgree
<1>1. Inv => RecoveryHasIntent
  BY Zenon DEF Inv, WorkersHold, Holds, CandidateHolds, RecoveryHasIntent
<1> QED
  BY <1>1 DEF Inv, AnchorsAgree

-----------------------------------------------------------------------------
(* What a clean stop and an enrollment report.                              *)

Reports(w) == w.stage \in {"clean", "enrolled"}

LEMMA EndedReports ==
  ASSUME NEW stage
  PROVE  Reports(Ended(stage)) <=> stage \in {"clean", "enrolled"}
BY DEF Reports, Ended

LEMMA AgainReports ==
  ASSUME NEW w \in Attempt
  PROVE  ~Reports(Again(w))
<1>1. Again(w) = Ended("unclean") \/ Again(w).stage = "idle"
  BY AgainFields, Zenon
<1>2. ~Reports(Ended("unclean"))
  BY EndedReports
<1> QED
  BY <1>1, <1>2 DEF Reports

LEMMA GoesReports ==
  ASSUME NEW w \in Attempt, NEW stage \in Stages, stage \notin {"clean", "enrolled"}
  PROVE  ~Reports(Goes(w, stage))
BY GoesFields DEF Reports

LEMMA FailureReports ==
  ASSUME NEW p \in Process, worker[p] \in Attempt,
         NEW kind \in {"conflict", "drift", "unapproved"}
  PROVE  ~Reports(Fatal(p, kind)) /\ ~Reports(Transient(p))
<1>1. \A stage \in {"conflict", "drift", "unapproved", "recovery_required", "rejected",
                    "unavailable"} : ~Reports(Ended(stage))
  BY EndedReports
<1>2. ~Reports(Fatal(p, kind))
  BY <1>1 DEF Fatal
<1>3. ~Reports(Transient(p))
  BY <1>1, AgainReports DEF Transient
<1> QED
  BY <1>2, <1>3

(* Only a candidate that names the cursor's head confirms a clean stop.     *)
LEMMA SucceededReports ==
  ASSUME NEW w \in Attempt, Reports(Succeeded(w))
  PROVE  w.candidate # NoCandidate /\ w.candidate.head = w.local
<1>1. CASE w.request \in Operations
  <2>1. "postcheck" \in Stages
    BY DEF Stages, Steps
  <2> QED
    BY <1>1, <2>1, GoesReports DEF Succeeded
<1>2. CASE w.request \notin Operations /\ w.request = CleanStop
  <2>1. TerminalConfirmed(w)
    BY <1>2, EndedReports DEF Succeeded
  <2> QED
    BY <2>1 DEF TerminalConfirmed
<1>3. CASE w.request \notin Operations /\ w.request # CleanStop
  <2> DEFINE full == w.audited \/ w.request.full
             v == [w EXCEPT !.audited = full]
  <2>1. v \in Attempt
    <3>1. full \in BOOLEAN
      OBVIOUS
    <3> HIDE DEF full
    <3> QED
      BY <3>1 DEF Attempt
  <2>2. Succeeded(w) = Again(v)
    BY <1>3 DEF Succeeded
  <2> HIDE DEF v
  <2> QED
    BY <2>1, <2>2, AgainReports
<1> QED
  BY <1>1, <1>2, <1>3

LEMMA CompletedReports ==
  ASSUME NEW w \in Attempt, Reports(Completed(w))
  PROVE  w.candidate # NoCandidate /\ w.candidate.head = w.local
<1>1. CASE w.recovering /\ w.request \notin Operations
  <2>1. Completed(w).stage = "prepare"
    BY <1>1 DEF Completed, Attempt
  <2> QED
    BY <2>1 DEF Reports
<1>2. CASE ~(w.recovering /\ w.request \notin Operations)
  BY <1>2, SucceededReports DEF Completed
<1> QED
  BY <1>1, <1>2

LEMMA SignReports ==
  ASSUME NEW w \in Attempt
  PROVE  ~Reports(Sign(w))
<1> DEFINE terminal == IF w.receipts = 0 THEN NoCandidate ELSE intents[w.receipts]
           v == [w EXCEPT !.candidate = NoCandidate]
<1>1. CASE w.recovering
  <2>1. Sign(w).stage = "list"
    BY <1>1 DEF Sign, Attempt
  <2> QED
    BY <2>1 DEF Reports
<1>2. CASE ~w.recovering /\ terminal # NoCandidate /\ terminal.head = w.local
  <2>1. v \in Attempt /\ v.candidate = NoCandidate
    BY DEF Attempt
  <2>2. Sign(w) = Succeeded(v)
    BY <1>2 DEF Sign
  <2> HIDE DEF v
  <2> QED
    BY <2>1, <2>2, SucceededReports
<1>3. CASE ~w.recovering /\ ~(terminal # NoCandidate /\ terminal.head = w.local)
  <2>1. Sign(w).stage = "commit"
    BY <1>3 DEF Sign, Attempt
  <2> QED
    BY <2>1 DEF Reports
<1> QED
  BY <1>1, <1>2, <1>3

(* What the steps before the receipt leave is no report.                    *)
LEMMA EarlierReports ==
  ASSUME Inv, NEW p \in Process,
         \/ Prime(p) \/ Begin(p) \/ Recover(p) \/ Prepare(p) \/ Audit(p) \/ Recheck(p)
         \/ Commit(p) \/ List(p) \/ Upload(p) \/ Settle(p) \/ Outage(p)
  PROVE  \E x : ~Reports(x) /\ Set(p, x)
<1> DEFINE w == worker[p]
<1>0. w \in Attempt
  BY Facts DEF Sound
<1>1. \A kind \in {"conflict", "drift", "unapproved"} : ~Reports(Fatal(p, kind))
  BY <1>0, FailureReports
<1>2. ~Reports(Transient(p))
  BY <1>0, FailureReports
<1>3. \A complete \in BOOLEAN :
         /\ Moved(w, Tips(head), complete) \in Attempt
         /\ Moved(w, Tips(head), complete).stage = w.stage
  BY <1>0, LoadedFacts, MovedFields, SMTT(30)
<1>4. {"idle", "audit", "list", "upload", "refresh", "settle", "doubt"} \subseteq Stages
  BY DEF Stages, Steps
<1>5. \A v \in Attempt :
        \A stage \in {"idle", "audit", "list", "upload", "refresh", "settle", "doubt"} :
          ~Reports(Goes(v, stage))
  BY <1>4, GoesReports
<1>6. \A agrees : ~Reports(Judge(p, agrees))
  BY <1>0, <1>1, SignReports, SMTT(30) DEF Judge
<1>7. CASE Prime(p) \/ Prepare(p)
  <2>1. (w.complete /\ Cursor(p) = Tips(head)) \in BOOLEAN
    OBVIOUS
  <2> QED
    BY <1>0, <1>3, <1>5, <1>7, <2>1, Zenon DEF Prime, Prepare
<1>8. CASE Begin(p)
  <2>1. PICK r \in Requests :
          Set(p, [w EXCEPT !.request = r, !.recovered = FALSE,
                    !.stage = IF Pending(Cursor(p)) THEN "recover" ELSE "prepare"])
    BY <1>8, Zenon DEF Begin, Requests
  <2>2. [w EXCEPT !.request = r, !.recovered = FALSE,
           !.stage = IF Pending(Cursor(p)) THEN "recover" ELSE "prepare"].stage
          \in {"recover", "prepare"}
    BY <1>0 DEF Attempt
  <2> QED
    BY <2>1, <2>2, Zenon DEF Reports
<1>9. CASE Recover(p)
  <2> DEFINE m == IF w.complete THEN w ELSE Moved(w, Tips(head), TRUE)
             v == [m EXCEPT !.recovering = TRUE, !.candidate = intents[m.intents],
                            !.stage = "audit"]
  <2>1. m \in Attempt
    BY <1>0, <1>3, Zenon
  <2>2. Set(p, IF m.intents = m.receipts THEN Fatal(p, "conflict") ELSE v)
    BY <1>9, Zenon DEF Recover
  <2> HIDE DEF m
  <2>3. v.stage = "audit"
    BY <2>1 DEF Attempt
  <2> HIDE DEF v
  <2>4. ~Reports(v)
    BY <2>3 DEF Reports
  <2> QED
    BY <1>1, <2>2, <2>4
<1>10. CASE Audit(p) \/ Recheck(p)
  <2> DEFINE v == [w EXCEPT !.seen = Cardinality(remote), !.stage = "recheck"]
  <2>1. v.stage = "recheck"
    BY <1>0 DEF Attempt
  <2>2. ~Reports(v)
    BY <2>1 DEF Reports
  <2> QED
    BY <1>1, <1>6, <1>10, <2>2 DEF Audit, Recheck
<1>11. CASE Commit(p)
  <2> DEFINE m == Moved(w, Tips(head), FALSE)
             v == [w EXCEPT !.intents = @ + 1, !.complete = FALSE, !.stage = "list"]
  <2>1. v.stage = "list"
    BY <1>0 DEF Attempt
  <2>2. ~Reports(v)
    BY <2>1 DEF Reports
  <2>3. m \in Attempt
    BY <1>3, Zenon
  <2> HIDE DEF m
  <2>4. ~Reports(Advanced(p, m))
    BY <2>3, AgainReports, EndedReports DEF Advanced
  <2> HIDE DEF v
  <2> QED
    BY <1>0, <1>1, <1>5, <1>11, <2>2, <2>4, Zenon DEF Commit, m, v
<1>12. CASE List(p) \/ Upload(p) \/ Settle(p) \/ Outage(p)
  BY <1>0, <1>1, <1>2, <1>5, <1>12, Zenon DEF List, Upload, Settle, Outage
<1> QED
  BY <1>7, <1>8, <1>9, <1>10, <1>11, <1>12

Covered == receipts > 0 /\ intents[receipts].head = head

(* The cursor is the tables' tip when a receipt completes a clean stop.     *)
LEMMA ReceiptReports ==
  ASSUME Inv, NEW p \in Process, Refresh(p) \/ Receipt(p) \/ Postcheck(p)
  PROVE  \E x : Set(p, x) /\ (Reports(x) => Covered')
<1> DEFINE u == worker[p]
<1>0. u \in Attempt
  BY Facts DEF Sound
<1>1. ~Reports(Fatal(p, "conflict")) /\ ~Reports(Again(u))
  BY <1>0, FailureReports, AgainReports
<1>2. CASE Refresh(p)
  <2> DEFINE w == Moved(u, Tips(head), FALSE)
             v == Goes(w, "receipt")
  <2>1. /\ w \in Attempt /\ w.local = head
        /\ w.intents = Len(intents) /\ w.receipts = receipts /\ w.candidate = u.candidate
    BY <1>0, LoadedFacts, MovedFields, Zenon
  <2>2. u.candidate = intents[u.receipts + 1] /\ u.receipts \in Nat
    BY <1>0, <1>2, PinnedFacts, Zenon DEF Refresh, Uploading, Attempt
  <2>3. Set(p, IF w.receipts = w.intents /\ w.intents = u.receipts + 1 THEN Completed(w)
               ELSE IF w.receipts < w.intents /\ w.intents = u.receipts + 1 THEN v
               ELSE Fatal(p, "conflict"))
    BY <1>2, Zenon DEF Refresh
  <2>4. UNCHANGED << head, intents, receipts >>
    BY <1>2, Zenon DEF Refresh, UnchangedJournal, UnchangedTables
  <2> HIDE DEF w, u
  <2>5. ~Reports(v)
    BY <2>1, GoesReports DEF Stages, Steps
  <2>6. w.receipts = w.intents /\ w.intents = u.receipts + 1 /\ Reports(Completed(w)) => Covered'
    BY <2>1, <2>2, <2>4, CompletedReports DEF Covered
  <2> HIDE DEF v
  <2> QED
    BY <1>1, <2>3, <2>5, <2>6
<1>3. CASE Receipt(p) /\ UNCHANGED receipts
  <2>1. receipts' # receipts + 1
    BY <1>3, Facts
  <2>2. ~Reports(Advanced(p, u))
    BY <1>1, EndedReports DEF Advanced
  <2> QED
    BY <1>1, <1>3, <2>1, <2>2 DEF Receipt
<1>4. CASE Receipt(p) /\ ~UNCHANGED receipts
  <2> DEFINE n == receipts + 1
             w == [worker[p] EXCEPT !.receipts = n]
  <2>1. /\ receipts' = n /\ Set(p, Completed(w))
        /\ w \in Attempt /\ w.local = head /\ w.candidate = intents[n]
    BY <1>4, ReceiptFacts, Zenon
  <2>2. UNCHANGED << head, intents >> /\ n > 0
    BY <1>4, Facts DEF Receipt, UnchangedJournal
  <2> HIDE DEF w
  <2>3. Reports(Completed(w)) => Covered'
    BY <2>1, <2>2, CompletedReports, Zenon DEF Covered
  <2> QED
    BY <2>1, <2>3
<1>5. CASE Postcheck(p)
  <2>1. UNCHANGED << head, intents, receipts >>
    BY <1>5, Zenon DEF Postcheck, UnchangedJournal, UnchangedTables
  <2>2. Tips(head) = [local |-> head, intents |-> 1, receipts |-> 1] => receipts = 1
    BY DEF Tips
  <2>3. receipts = 1 /\ intents[1].head = head => Covered'
    BY <2>1 DEF Covered
  <2>4. ~Reports(Ended("unconfirmed"))
    BY EndedReports
  <2>5. \/ Set(p, Ended("unconfirmed"))
        \/ Set(p, Ended("enrolled")) /\ receipts = 1 /\ intents[1].head = head
    BY <1>5, <2>2, SMTT(30) DEF Postcheck
  <2> QED
    BY <2>3, <2>4, <2>5
<1> QED
  BY <1>2, <1>3, <1>4, <1>5

LEMMA NextCovers ==
  ASSUME Inv, [Next]_vars, NEW p \in Process, Running(p), Reports(worker'[p])
  PROVE  Covered'
<1>1. worker'[p] # worker[p]
  BY DEF Running, Reports, Ends
<1>2. PICK q \in Process :
        Work(q) \/ Register(q) \/ Crash(q) \/ Outage(q) \/ \E r \in Operations : Operate(q, r)
  BY <1>1, SMTT(30) DEF Next, vars, Land, Probe
<1>3. ASSUME NEW x, Set(q, x) PROVE q = p /\ worker'[p] = x
  BY <1>1, <1>3 DEF Set, Inv, TypeOK
<1>4. CASE Register(q) \/ Crash(q) \/ \E r \in Operations : Operate(q, r)
  <2>1. CASE Register(q) \/ Crash(q)
    BY <1>3, <2>1, EndedReports DEF Register, Crash
  <2>2. CASE \E r \in Operations : Operate(q, r)
    BY <1>3, <2>2 DEF Operate, Starts
  <2> QED
    BY <1>4, <2>1, <2>2
<1>5. CASE \/ Prime(q) \/ Begin(q) \/ Recover(q) \/ Prepare(q) \/ Audit(q) \/ Recheck(q)
           \/ Commit(q) \/ List(q) \/ Upload(q) \/ Settle(q) \/ Outage(q)
  BY <1>3, <1>5, EarlierReports
<1>6. CASE Refresh(q) \/ Receipt(q) \/ Postcheck(q)
  BY <1>3, <1>6, ReceiptReports
<1> QED
  BY <1>2, <1>4, <1>5, <1>6 DEF Work

\* Intents, receipts and archived objects agree in every state, whoever wrote
\* them and however processes crash, retry and overlap; a clean stop or an
\* enrollment is reported only when the newest transition is anchored and
\* acknowledged.
THEOREM Anchors == Spec => AnchorsHold
<1>1. Inv /\ [Next]_vars =>
        [\A p \in Process :
           (Running(p) /\ worker'[p].stage \in {"clean", "enrolled"}) =>
             receipts' > 0 /\ intents'[receipts'].head = head']_vars
  BY NextCovers DEF Reports, Covered
<1> QED
  BY <1>1, Invariance, InvAgrees, PTL DEF Spec, AnchorsHold, CoversHead

-----------------------------------------------------------------------------
(* The archive as a write-once list.                                        *)

Listed == [i \in 1..Cardinality(remote) |-> intents[i].head]

(* The archive holds the acknowledged objects and at most the next one.     *)
LEMMA ArchiveFacts ==
  ASSUME Inv
  PROVE  /\ Cardinality(remote) \in {receipts, Len(intents)}
         /\ remote = Objects(Cardinality(remote))
<1>1. remote \subseteq Objects(Len(intents))
  BY Facts, SMTT(30) DEF Inv, TypeOK, NoFork, Object, Objects
<1>2. Objects(receipts) \subseteq remote
  BY DEF Inv, ReceiptIsReadBack, Objects
<1>3. remote = Objects(receipts) \/ remote = Objects(Len(intents))
  <2>1. CASE Len(intents) = receipts
    BY <1>1, <1>2, <2>1, Zenon
  <2>2. CASE Len(intents) = receipts + 1
    <3>1. Objects(Len(intents)) = Objects(receipts) \cup {Object(Len(intents))}
      <4>1. \A i : i \in 1..Len(intents) <=> i \in 1..receipts \/ i = Len(intents)
        BY <2>2, Facts
      <4> QED
        BY <4>1 DEF Objects
    <3> QED
      BY <1>1, <1>2, <3>1
  <2> QED
    BY <2>1, <2>2, Facts
<1>4. Cardinality(Objects(receipts)) = receipts /\ Cardinality(Objects(Len(intents))) = Len(intents)
  BY Facts, ObjectsCount
<1> QED
  BY <1>3, <1>4

(* Storing an object of a committed intent adds it to the list's end, or    *)
(* changes nothing.                                                         *)
LEMMA StoreKeeps ==
  ASSUME Inv, NEW o, NEW n \in 1..Len(intents), o = Object(n), remote' = remote \cup {o},
         UNCHANGED << intents, receipts >>
  PROVE  Archive!Next \/ UNCHANGED << Listed, receipts >>
<1>1. CASE o \in remote
  <2>1. remote' = remote
    BY <1>1
  <2> QED
    BY <2>1, Zenon DEF Listed
<1>2. CASE o \notin remote
  <2> DEFINE k == receipts + 1
  <2>0. Cardinality(remote) \in {receipts, Len(intents)} /\ remote = Objects(Cardinality(remote))
    BY ArchiveFacts
  <2>1. Cardinality(remote) = receipts /\ Len(intents) = k /\ n = k
    <3>1. Cardinality(remote) # Len(intents)
      BY <1>2, <2>0 DEF Objects
    <3>2. n \notin 1..receipts
      BY <1>2, <2>0, <3>1 DEF Objects
    <3> QED
      BY <2>0, <3>1, <3>2, Facts
  <2>2. remote' = Objects(k)
    <3>1. \A i : i \in 1..k <=> i \in 1..receipts \/ i = k
      BY Facts
    <3>2. remote = Objects(receipts) /\ o = Object(k)
      BY <2>0, <2>1
    <3> QED
      BY <3>1, <3>2 DEF Objects
  <2>3. Cardinality(remote') = k
    <3>1. k \in Nat
      BY Facts
    <3> HIDE DEF k
    <3>2. Cardinality(Objects(k)) = k
      BY <3>1, ObjectsCount
    <3> QED
      BY <2>2, <3>2, Zenon
  <2>4. /\ receipts \in Nat /\ k \in DOMAIN intents
        /\ intents[k].head \in 1..MaxHeads
        /\ \A i \in 1..k : intents[i].head \in Nat
        /\ k > 1 => intents[k - 1].head < intents[k].head
    <3>1. receipts \in Nat /\ k \in 1..k /\ DOMAIN intents = 1..k
      BY <2>1, Facts DEF Inv, TypeOK
    <3>2. \A i \in 1..k : intents[i].head \in 1..MaxHeads
      BY <2>1, Facts DEF Records
    <3>3. k > 1 => intents[k - 1].head < intents[k].head
      BY <3>1 DEF Inv, ChainReplays
    <3> QED
      BY <3>1, <3>2, <3>3
  <2> HIDE DEF k
  <2>5. PICK h \in 1..MaxHeads : h = intents[k].head
    BY <2>4
  <2> USE DEF k
  <2>6. /\ Listed = [i \in 1..receipts |-> intents[i].head]
        /\ Listed' = [i \in 1..k |-> intents[i].head]
    BY <2>1, <2>3 DEF Listed
  <2>7. Listed \in Seq(Nat) /\ Len(Listed) = receipts
    BY <2>4, <2>6
  <2>8. Listed' = Append(Listed, h)
    BY <2>4, <2>6, <2>7, <2>5
  <2>9. Listed = << >> \/ Listed[Len(Listed)] < h
    BY <2>4, <2>6, <2>7, <2>5, SMTT(30)
  <2>10. Archive!Store(h)
    BY <2>7, <2>8, <2>9, Zenon DEF Archive!Store, Listed
  <2> QED
    BY <2>10, Zenon DEF Archive!Next
<1> QED
  BY <1>1, <1>2

(* A receipt acknowledges an object that is there.                          *)
LEMMA AcknowledgeKeeps ==
  ASSUME Inv, NEW p \in Process, Receipt(p)
  PROVE  Archive!Next \/ UNCHANGED << Listed, receipts >>
<1>1. UNCHANGED << intents, remote >>
  BY DEF Receipt, UnchangedArchive
<1>2. UNCHANGED Listed
  BY <1>1 DEF Listed
<1>3. CASE UNCHANGED receipts
  BY <1>2, <1>3
<1>4. CASE ~UNCHANGED receipts
  <2>1. receipts' = receipts + 1 /\ Object(receipts + 1) \in remote
    BY <1>4, ReceiptFacts, Zenon
  <2>2. Cardinality(remote) \in Nat /\ receipts < Cardinality(remote)
    <3>1. Object(receipts + 1) \in Objects(Cardinality(remote))
      BY <2>1, ArchiveFacts
    <3>2. receipts + 1 \in 1..Cardinality(remote)
      BY <3>1 DEF Objects, Object
    <3> QED
      BY <3>2, ArchiveFacts, Facts
  <2>3. Len(Listed) = Cardinality(remote)
    BY <2>2 DEF Listed
  <2>4. Archive!Acknowledge
    BY <1>2, <2>1, <2>2, <2>3 DEF Archive!Acknowledge, Listed
  <2> QED
    BY <2>4 DEF Archive!Next
<1> QED
  BY <1>3, <1>4

(* A new intent is not in the archive yet.                                  *)
LEMMA IntentKeeps ==
  ASSUME Inv, NEW p \in Process, Commit(p)
  PROVE  UNCHANGED << Listed, receipts >>
<1>1. UNCHANGED << remote, receipts >>
  BY DEF Commit, UnchangedArchive
<1>2. UNCHANGED intents \/ intents' = Append(intents, worker[p].candidate)
  BY Zenon DEF Commit
<1>3. \A i \in 1..Len(intents) : intents'[i] = intents[i]
  <2>1. intents \in Seq(Records)
    BY DEF Inv, TypeOK
  <2>2. ASSUME NEW c PROVE \A i \in 1..Len(intents) : Append(intents, c)[i] = intents[i]
    BY <2>1
  <2> QED
    BY <1>2, <2>2
<1>4. \A i \in 1..Cardinality(remote) : i \in 1..Len(intents)
  BY ArchiveFacts, Facts
<1> QED
  BY <1>1, <1>3, <1>4 DEF Listed

LEMMA NextArchives == Inv /\ [Next]_vars => [Archive!Next]_(Archive!vars)
<1> SUFFICES ASSUME Inv, [Next]_vars
             PROVE  Archive!Next \/ UNCHANGED << Listed, receipts >>
  BY DEF Archive!vars, Listed
<1>1. CASE UNCHANGED << remote, intents, receipts >>
  BY <1>1 DEF Listed
<1>2. ASSUME NEW p \in Process, Upload(p)
      PROVE  Archive!Next \/ UNCHANGED << Listed, receipts >>
  <2>1. worker[p].stage \in Uploading /\ UNCHANGED << intents, receipts >>
    BY <1>2, SMTT(30) DEF Upload, Uploading, UnchangedTables
  <2>2. PICK n \in 1..Len(intents) : Target(worker[p]) = Object(n)
    BY <2>1, TargetFacts, SMTT(30)
  <2> QED
    BY <1>1, <1>2, <2>1, <2>2, StoreKeeps DEF Upload
<1>3. ASSUME NEW o \in delayed, Land(o)
      PROVE  Archive!Next \/ UNCHANGED << Listed, receipts >>
  <2>1. o \in Nat \X Records /\ o[1] \in 1..Len(intents) /\ o[2] = intents[o[1]]
    BY DEF Inv, TypeOK, NoFork
  <2>2. o = Object(o[1])
    BY <2>1 DEF Object
  <2> QED
    BY <1>3, <2>1, <2>2, StoreKeeps DEF Land, UnchangedTables
<1> QED
  BY <1>1, <1>2, <1>3, AcknowledgeKeeps, IntentKeeps, Zenon DEF Next, Work, vars, Prime, Begin,
     Recover,
     Prepare, Audit, Recheck, List, Settle, Refresh, Postcheck, Register, Probe, Crash, Outage,
     Operate, UnchangedTables, UnchangedArchive

\* All processes together implement the write-once archive: every upload, on
\* time or late, stores the next checkpoint or changes nothing, and every
\* receipt acknowledges the newest one.
THEOREM Implements == Spec => KeepsArchive
<1>1. Init => Archive!Init
  <2>1. Cardinality({}) = 0
    BY FS_EmptySet
  <2> QED
    BY <2>1 DEF Init, Archive!Init
<1> QED
  BY <1>1, NextArchives, Invariance, PTL DEF Spec, KeepsArchive, Archive!Spec

-----------------------------------------------------------------------------
(* One process at a time.                                                   *)

\* What presupposes a first checkpoint: an audit made, an intent recovered, or
\* a request that is no full audit.
Presumes(w) == w.audited \/ w.recovered \/ ~w.request.full

\* Where the cursor must have no pending intent.
Settled(w) ==
  \/ w.stage \in {"prepare", "commit"}
  \/ w.stage \in {"audit", "recheck"} /\ ~w.recovering

\* With nobody beside it, a worker's cursor is not a snapshot of the tables but
\* the tables themselves; only the journal may have grown.
Current(w, n, r, a) ==
  /\ w.intents = n /\ w.receipts = r
  /\ Presumes(w) => r # 0
  /\ w.stage = "recover" => n # r
  /\ Settled(w) => n = r
  /\ w.stage = "settle" => << r + 1, w.candidate >> \in a

AloneHolds(w, n, r, a) ==
  /\ w.stage # "conflict"
  /\ w.stage = "registered" => ~Presumes(w)
  /\ w.stage \notin Ends \cup {"registered"} => Current(w, n, r, a)

Alone ==
  /\ \A p, q \in Process : Running(p) /\ Running(q) => p = q
  /\ \A p \in Process : AloneHolds(worker[p], Len(intents), receipts, remote)

LEMMA EndedAlone ==
  ASSUME NEW stage \in Ends \cup {"registered"}, stage # "conflict", NEW n, NEW r, NEW a
  PROVE  AloneHolds(Ended(stage), n, r, a)
<1>1. /\ Ended(stage).stage = stage /\ Ended(stage).request.full = TRUE
      /\ Ended(stage).audited = FALSE /\ Ended(stage).recovered = FALSE
  BY SMTT(30) DEF Ended, Startup
<1> QED
  BY <1>1 DEF AloneHolds, Presumes

(* The other processes have ended.                                          *)
LEMMA MoveAlone ==
  ASSUME Inv, Alone, NEW p \in Process, NEW v, Set(p, v),
         Running(p) \/ \A q \in Process : ~Running(q),
         AloneHolds(v, Len(intents'), receipts', remote')
  PROVE  Alone'
<1>1. worker \in [Process -> Attempt] /\ worker' = [worker EXCEPT ![p] = v]
  BY DEF Inv, TypeOK, Set
<1>2. worker'[p] = v /\ \A q \in Process : q # p => worker'[q] = worker[q]
  BY <1>1
<1>3. \A q \in Process : q # p => ~Running(q)
  BY DEF Alone
<1>4. \A q \in Process : q # p => ~Running(q)'
  BY <1>2, <1>3 DEF Running
<1>5. ASSUME NEW q \in Process, q # p
      PROVE  AloneHolds(worker'[q], Len(intents'), receipts', remote')
  <2>1. worker[q].stage # "conflict" /\ worker[q].stage \in Ends
    BY <1>3, <1>5, SMTT(30) DEF Alone, AloneHolds, Running
  <2> QED
    BY <1>2, <1>5, <2>1, SMTT(30) DEF AloneHolds, Ends
<1> QED
  BY <1>2, <1>4, <1>5, Zenon DEF Alone

(* The fields that tell what a worker presumes.                             *)
LEMMA GoesPresumes ==
  ASSUME NEW w \in Attempt, NEW stage \in Stages
  PROVE  Goes(w, stage).audited = w.audited /\ Goes(w, stage).recovered = w.recovered
BY Zenon DEF Attempt, Goes

LEMMA MovedPresumes ==
  ASSUME NEW w \in Attempt, NEW cursor, NEW complete
  PROVE  /\ Moved(w, cursor, complete).audited = w.audited
         /\ Moved(w, cursor, complete).recovered = w.recovered
BY Zenon DEF Attempt, Moved

LEMMA AgainAlone ==
  ASSUME NEW w \in Attempt, NEW n, NEW r, NEW a, w.intents = n, w.receipts = r,
         w.audited \/ ~w.request.full => r # 0
  PROVE  AloneHolds(Again(w), n, r, a)
<1> DEFINE v == [w EXCEPT !.complete = FALSE, !.recovering = FALSE, !.recovered = FALSE,
                          !.candidate = NoCandidate, !.seen = 0, !.stage = "idle"]
<1>1. CASE w.request = CleanStop
  BY <1>1, EndedAlone DEF Again, Ends
<1>2. CASE w.request # CleanStop
  <2>1. /\ v.stage = "idle" /\ v.intents = n /\ v.receipts = r /\ v.audited = w.audited
        /\ v.recovered = FALSE /\ v.request = w.request
    BY Zenon DEF Attempt
  <2>2. Again(w) = v
    BY <1>2 DEF Again
  <2> HIDE DEF v
  <2>3. AloneHolds(v, n, r, a)
    BY <2>1 DEF AloneHolds, Current, Presumes, Settled
  <2> QED
    BY <2>2, <2>3
<1> QED
  BY <1>1, <1>2

LEMMA SucceededAlone ==
  ASSUME NEW w \in Attempt, NEW n, NEW r, NEW a, w.intents = n, w.receipts = r, r # 0
  PROVE  AloneHolds(Succeeded(w), n, r, a)
<1>1. CASE w.request \in Operations
  <2>1. "postcheck" \in Stages
    BY DEF Stages, Steps
  <2>2. /\ Goes(w, "postcheck").stage = "postcheck" /\ Goes(w, "postcheck").intents = n
        /\ Goes(w, "postcheck").receipts = r
    BY <2>1, GoesFields
  <2> QED
    BY <1>1, <2>2 DEF Succeeded, AloneHolds, Current, Settled
<1>2. CASE w.request \notin Operations /\ w.request = CleanStop
  BY <1>2, EndedAlone DEF Succeeded, Ends
<1>3. CASE w.request \notin Operations /\ w.request # CleanStop
  <2> DEFINE full == w.audited \/ w.request.full
             v == [w EXCEPT !.audited = full]
  <2>1. v \in Attempt /\ v.intents = n /\ v.receipts = r
    <3>1. full \in BOOLEAN
      OBVIOUS
    <3> HIDE DEF full
    <3> QED
      BY <3>1 DEF Attempt
  <2>2. Succeeded(w) = Again(v)
    BY <1>3 DEF Succeeded
  <2> HIDE DEF v
  <2> QED
    BY <2>1, <2>2, AgainAlone
<1> QED
  BY <1>1, <1>2, <1>3

LEMMA CompletedAlone ==
  ASSUME NEW w \in Attempt, NEW r, NEW a, w.intents = r, w.receipts = r, r # 0
  PROVE  AloneHolds(Completed(w), r, r, a)
<1> DEFINE v == [w EXCEPT !.complete = FALSE, !.recovering = FALSE, !.recovered = TRUE,
                          !.candidate = NoCandidate, !.stage = "prepare"]
<1>1. v.stage = "prepare" /\ v.intents = r /\ v.receipts = r
  BY Zenon DEF Attempt
<1>2. AloneHolds(v, r, r, a)
  BY <1>1 DEF AloneHolds, Current
<1>3. AloneHolds(Succeeded(w), r, r, a)
  BY SucceededAlone
<1> HIDE DEF v
<1> QED
  BY <1>2, <1>3 DEF Completed, v


LEMMA FatalAlone ==
  ASSUME NEW p \in Process, NEW kind \in {"conflict", "drift", "unapproved"},
         kind # "conflict" \/ Operator(p), NEW n, NEW r, NEW a
  PROVE  AloneHolds(Fatal(p, kind), n, r, a)
<1>1. \A stage \in {"drift", "unapproved", "recovery_required", "rejected"} :
        AloneHolds(Ended(stage), n, r, a)
  BY EndedAlone DEF Ends
<1> QED
  BY <1>1 DEF Fatal

LEMMA TransientAlone ==
  ASSUME NEW p \in Process, worker[p] \in Attempt, NEW n, NEW r, NEW a,
         Current(worker[p], n, r, a), NEW b
  PROVE  AloneHolds(Transient(p), n, r, b)
<1>1. \A stage \in {"recovery_required", "unavailable"} : AloneHolds(Ended(stage), n, r, b)
  BY EndedAlone DEF Ends
<1>2. AloneHolds(Again(worker[p]), n, r, b)
  BY AgainAlone DEF Current, Presumes
<1> QED
  BY <1>1, <1>2 DEF Transient

(* What a running process knows when it is alone.                           *)
LEMMA AloneFacts ==
  ASSUME Inv, Alone, NEW p \in Process, worker[p].stage \notin Ends \cup {"registered"}
  PROVE  /\ worker[p] \in Attempt /\ Running(p)
         /\ Current(worker[p], Len(intents), receipts, remote)
         /\ worker[p].intents = Len(intents) /\ worker[p].receipts = receipts
BY Facts, Zenon DEF Alone, AloneHolds, Current, Running, Sound

(* The archive holds what the tables acknowledge, and nothing they do not   *)
(* name.                                                                    *)
LEMMA StoredFacts ==
  ASSUME Inv
  PROVE  /\ \A i \in Nat : At(i) \subseteq {Object(i)}
         /\ \A i \in 1..receipts : At(i) = {Object(i)}
         /\ At(Len(intents) + 1) = {}
<1>1. \A o \in remote : o = Object(o[1]) /\ o[1] \in 1..Len(intents)
  BY Facts DEF Inv, TypeOK, NoFork, Object
<1>2. \A i : At(i) \subseteq {Object(i)}
  BY <1>1 DEF At
<1>3. \A i \in 1..receipts : Object(i) \in At(i)
  BY DEF Inv, ReceiptIsReadBack, At, Object
<1>4. At(Len(intents) + 1) = {}
  BY <1>1, Facts DEF At
<1> QED
  BY <1>2, <1>3, <1>4

LEMMA ChainStored ==
  ASSUME Inv
  PROVE  Chain
<1>1. remote = Objects(Cardinality(remote))
  BY ArchiveFacts
<1>2. ASSUME NEW i \in 1..Cardinality(remote) PROVE At(i) = {Object(i)}
  <2>1. Object(i) \in remote
    BY <1>1 DEF Objects
  <2>2. Object(i) \in At(i)
    BY <2>1 DEF At, Object
  <2>3. i \in Nat
    BY ArchiveFacts, Facts
  <2> QED
    BY <2>2, <2>3, StoredFacts
<1>3. \A o : Cardinality({o}) = 1
  BY FS_Singleton, Zenon
<1> QED
  BY <1>2, <1>3 DEF Chain


-----------------------------------------------------------------------------
(* The steps of a process that is alone.                                    *)

(* A cursor loaded from the tables.                                         *)
LEMMA LoadedAlone ==
  ASSUME Inv, NEW w \in Attempt, NEW complete \in BOOLEAN,
         NEW stage \in {"idle", "prepare", "audit", "postcheck"},
         stage \in {"prepare", "audit"} => Len(intents) = receipts,
         Presumes(w) => receipts # 0
  PROVE  AloneHolds(Goes(Moved(w, Tips(head), complete), stage), Len(intents), receipts, remote)
<1> DEFINE u == Moved(w, Tips(head), complete)
           v == Goes(u, stage)
<1>1. stage \in Stages /\ stage \notin Ends \cup {"registered"}
  BY DEF Stages, Steps, Ends
<1>2. /\ u \in Attempt /\ u.intents = Len(intents) /\ u.receipts = receipts
      /\ u.request = w.request /\ u.audited = w.audited /\ u.recovered = w.recovered
  BY LoadedFacts, MovedFields, MovedPresumes, SMTT(30)
<1> HIDE DEF u
<1>3. /\ v.stage = stage /\ v.intents = Len(intents) /\ v.receipts = receipts
      /\ v.request = w.request /\ v.audited = w.audited /\ v.recovered = w.recovered
  BY <1>1, <1>2, GoesFields, GoesPresumes
<1> HIDE DEF v
<1>4. Presumes(v) => receipts # 0
  BY <1>3 DEF Presumes
<1>5. Current(v, Len(intents), receipts, remote)
  BY <1>3, <1>4 DEF Current, Settled
<1> QED
  BY <1>1, <1>3, <1>5, SMTT(30) DEF AloneHolds, Ends, v, u

LEMMA PrimeAlone ==
  ASSUME Inv, Alone, NEW p \in Process, Prime(p)
  PROVE  Alone'
<1>1. worker[p] \in Attempt /\ ~Presumes(worker[p]) /\ Running(p)
  BY Facts, SMTT(30) DEF Prime, Alone, AloneHolds, Running, Ends, Sound
<1> DEFINE v == Goes(Moved(worker[p], Tips(head), TRUE), "idle")
<1>2. AloneHolds(v, Len(intents), receipts, remote)
  BY <1>1, LoadedAlone, Zenon
<1>3. Set(p, v) /\ UNCHANGED << intents, receipts, remote >>
  BY Zenon DEF Prime, UnchangedTables, UnchangedArchive
<1> HIDE DEF v
<1> QED
  BY <1>1, <1>2, <1>3, MoveAlone

LEMMA BeginAlone ==
  ASSUME Inv, Alone, NEW p \in Process, Begin(p)
  PROVE  Alone'
<1> DEFINE w == worker[p]
<1>1. w.stage = "idle"
  BY DEF Begin
<1>2. /\ w \in Attempt /\ Running(p) /\ Current(w, Len(intents), receipts, remote)
      /\ w.intents = Len(intents) /\ w.receipts = receipts
  BY <1>1, AloneFacts DEF Ends
<1>3. PICK r \in IF w.audited THEN {Periodic, OnDemand, CleanStop} ELSE {Startup} :
        Set(p, [w EXCEPT !.request = r, !.recovered = FALSE,
                  !.stage = IF Pending(Cursor(p)) THEN "recover" ELSE "prepare"])
  BY Zenon DEF Begin
<1>4. w.audited => receipts # 0
  BY <1>2 DEF Current, Presumes
<1>5. ~r.full => receipts # 0
  BY <1>3, <1>4 DEF Startup
<1>6. Pending(Cursor(p)) <=> Len(intents) # receipts
  BY <1>2, Facts, SMTT(30) DEF Pending, Cursor
<1> DEFINE stage == IF Pending(Cursor(p)) THEN "recover" ELSE "prepare"
           v == [w EXCEPT !.request = r, !.recovered = FALSE, !.stage = stage]
<1>7. /\ v.stage = stage /\ v.request = r /\ v.recovered = FALSE /\ v.audited = w.audited
      /\ v.intents = Len(intents) /\ v.receipts = receipts
  BY <1>2 DEF Attempt
<1>8. Set(p, v) /\ UNCHANGED << intents, receipts, remote >>
  BY <1>3 DEF Begin, UnchangedTables, UnchangedArchive
<1>9. (stage = "recover" /\ Len(intents) # receipts) \/ (stage = "prepare" /\ Len(intents) = receipts)
  BY <1>6
<1> HIDE DEF v, stage
<1>10. Current(v, Len(intents), receipts, remote)
  BY <1>4, <1>5, <1>7, <1>9 DEF Current, Presumes, Settled
<1>11. AloneHolds(v, Len(intents), receipts, remote)
  BY <1>7, <1>9, <1>10 DEF AloneHolds
<1> QED
  BY <1>2, <1>8, <1>11, MoveAlone

LEMMA RecoverAlone ==
  ASSUME Inv, Alone, NEW p \in Process, Recover(p)
  PROVE  Alone'
<1> DEFINE w == IF worker[p].complete THEN worker[p] ELSE Moved(worker[p], Tips(head), TRUE)
           v == [w EXCEPT !.recovering = TRUE, !.candidate = intents[w.intents], !.stage = "audit"]
<1>1. worker[p].stage = "recover"
  BY DEF Recover
<1>2. /\ worker[p] \in Attempt /\ Running(p)
      /\ Current(worker[p], Len(intents), receipts, remote)
      /\ worker[p].intents = Len(intents) /\ worker[p].receipts = receipts
  BY <1>1, AloneFacts DEF Ends
<1>3. /\ w \in Attempt /\ w.intents = Len(intents) /\ w.receipts = receipts
      /\ w.request = worker[p].request /\ w.audited = worker[p].audited
      /\ w.recovered = worker[p].recovered
  <2> DEFINE m == Moved(worker[p], Tips(head), TRUE)
  <2>1. /\ m \in Attempt /\ m.intents = Len(intents) /\ m.receipts = receipts
        /\ m.request = worker[p].request
    BY <1>2, LoadedFacts, MovedFields, Zenon
  <2>3. m.audited = worker[p].audited /\ m.recovered = worker[p].recovered
    BY <1>2, MovedPresumes, ZenonT(40)
  <2>4. w = worker[p] \/ w = m
    BY Zenon
  <2> HIDE DEF m, w
  <2> QED
    BY <1>2, <2>1, <2>3, <2>4
<1>4. Len(intents) # receipts
  BY <1>1, <1>2 DEF Current
<1>5a. Set(p, IF w.intents = w.receipts THEN Fatal(p, "conflict") ELSE v)
  BY Zenon DEF Recover
<1> HIDE DEF w
<1>5. Set(p, v) /\ UNCHANGED << intents, receipts, remote >>
  BY <1>3, <1>4, <1>5a DEF Recover, UnchangedTables, UnchangedArchive
<1>6. /\ v.stage = "audit" /\ v.recovering = TRUE /\ v.request = w.request
      /\ v.audited = w.audited /\ v.recovered = w.recovered
      /\ v.intents = w.intents /\ v.receipts = w.receipts
  BY <1>3 DEF Attempt
<1> HIDE DEF v
<1>7. Presumes(v) => receipts # 0
  BY <1>2, <1>3, <1>6, SMTT(30) DEF Current, Presumes
<1>8. Current(v, Len(intents), receipts, remote)
  BY <1>3, <1>6, <1>7 DEF Current, Settled
<1>9. AloneHolds(v, Len(intents), receipts, remote)
  BY <1>6, <1>8 DEF AloneHolds
<1> QED
  BY <1>2, <1>5, <1>9, MoveAlone


LEMMA PrepareAlone ==
  ASSUME Inv, Alone, NEW p \in Process, Prepare(p)
  PROVE  Alone'
<1> DEFINE w == worker[p]
<1>1. w.stage = "prepare"
  BY DEF Prepare
<1>2. /\ w \in Attempt /\ Running(p) /\ Current(w, Len(intents), receipts, remote)
      /\ w.intents = Len(intents) /\ w.receipts = receipts
  BY <1>1, AloneFacts, SMTT(30) DEF Ends
<1>3. (Presumes(w) => receipts # 0) /\ Len(intents) = receipts
  BY <1>1, <1>2, SMTT(30) DEF Current, Settled
<1>4. \A complete \in BOOLEAN :
        AloneHolds(Goes(Moved(w, Tips(head), complete), "audit"), Len(intents), receipts, remote)
  BY <1>2, <1>3, LoadedAlone, SMTT(30)
<1>5. AloneHolds(Goes(w, "audit"), Len(intents), receipts, remote)
  <2> DEFINE v == Goes(w, "audit")
  <2>1. "audit" \in Stages
    BY DEF Stages, Steps
  <2>2. /\ v.stage = "audit" /\ v.intents = Len(intents) /\ v.receipts = receipts
        /\ v.request = w.request /\ v.audited = w.audited /\ v.recovered = w.recovered
    BY <1>2, <2>1, GoesFields, GoesPresumes, Zenon
  <2> HIDE DEF v
  <2>3. Presumes(v) => receipts # 0
    BY <1>3, <2>2 DEF Presumes
  <2> QED
    BY <1>3, <2>2, <2>3, SMTT(30) DEF AloneHolds, Current, Settled, v
<1>6. \E v : Set(p, v) /\ AloneHolds(v, Len(intents), receipts, remote)
  <2> DEFINE complete == w.complete /\ Cursor(p) = Tips(head)
  <2>1. complete \in BOOLEAN
    BY <1>2, SMTT(30) DEF Attempt
  <2>2. \/ Set(p, Goes(w, "audit")) \/ Set(p, Goes(Moved(w, Tips(head), TRUE), "audit"))
        \/ Set(p, Goes(Moved(w, Tips(head), complete), "audit"))
    BY Zenon DEF Prepare
  <2> HIDE DEF complete
  <2> QED
    BY <1>4, <1>5, <2>1, <2>2, Zenon
<1>7. UNCHANGED << intents, receipts, remote >>
  BY SMTT(30) DEF Prepare, UnchangedTables, UnchangedArchive
<1> QED
  BY <1>2, <1>6, <1>7, MoveAlone

(* A signed candidate, or a head that is anchored already.                  *)
LEMMA SignAlone ==
  ASSUME Inv, Alone, NEW p \in Process, worker[p].stage \in {"audit", "recheck"}
  PROVE  AloneHolds(Sign(worker[p]), Len(intents), receipts, remote)
<1> DEFINE w == worker[p]
           terminal == IF w.receipts = 0 THEN NoCandidate ELSE intents[w.receipts]
           x == [w EXCEPT !.seen = 0, !.stage = "list"]
           y == [w EXCEPT !.candidate = NoCandidate]
           z == [w EXCEPT !.candidate = [head |-> w.local, reason |-> w.request.reason],
                          !.seen = 0, !.stage = "commit"]
<1>1. /\ w \in Attempt /\ Current(w, Len(intents), receipts, remote)
      /\ w.intents = Len(intents) /\ w.receipts = receipts
  BY AloneFacts DEF Ends
<1>2. CASE w.recovering
  <2>1. Sign(w) = x
    BY <1>2 DEF Sign
  <2>2. /\ x.stage = "list" /\ x.intents = w.intents /\ x.receipts = w.receipts
        /\ x.request = w.request /\ x.audited = w.audited /\ x.recovered = w.recovered
    BY <1>1 DEF Attempt
  <2> HIDE DEF x
  <2> QED
    BY <1>1, <2>1, <2>2, SMTT(30) DEF AloneHolds, Current, Presumes, Settled
<1>3. CASE ~w.recovering /\ terminal # NoCandidate /\ terminal.head = w.local
  <2>1. Sign(w) = Succeeded(y) /\ w.receipts # 0
    BY <1>3 DEF Sign
  <2>2. y \in Attempt /\ y.intents = w.intents /\ y.receipts = w.receipts
    BY <1>1, SMTT(30) DEF Attempt
  <2> HIDE DEF y
  <2> QED
    BY <1>1, <2>1, <2>2, SucceededAlone, Zenon
<1>4. CASE ~w.recovering /\ ~(terminal # NoCandidate /\ terminal.head = w.local)
  <2>1. Sign(w) = z
    BY <1>4 DEF Sign
  <2>2. /\ z.stage = "commit" /\ z.intents = w.intents /\ z.receipts = w.receipts
        /\ z.request = w.request /\ z.audited = w.audited /\ z.recovered = w.recovered
    BY <1>1 DEF Attempt
  <2>3. Len(intents) = receipts
    BY <1>1, <1>4, SMTT(30) DEF Current, Settled
  <2> HIDE DEF z
  <2> QED
    BY <1>1, <2>1, <2>2, <2>3, SMTT(30) DEF AloneHolds, Current, Presumes, Settled
<1> QED
  BY <1>2, <1>3, <1>4, Zenon

(* An audit that agrees has no objection left: a worker that is no full     *)
(* audit follows a first checkpoint.                                        *)
LEMMA JudgeAlone ==
  ASSUME Inv, Alone, NEW p \in Process, worker[p].stage \in {"audit", "recheck"},
         NEW agrees, agrees
  PROVE  AloneHolds(Judge(p, agrees), Len(intents), receipts, remote)
<1> DEFINE w == worker[p]
<1>1. /\ w \in Attempt /\ Current(w, Len(intents), receipts, remote) /\ w.receipts = receipts
  BY AloneFacts, SMTT(30) DEF Ends
<1>2. AloneHolds(Sign(w), Len(intents), receipts, remote)
  BY SignAlone, SMTT(30)
<1>3. AloneHolds(Fatal(p, "unapproved"), Len(intents), receipts, remote)
  BY FatalAlone
<1>4. ASSUME ~w.recovering, ~Enrolled(w), ~(FullAudit(w) /\ w.receipts = 0)
      PROVE  Operator(p)
  <2>1. CASE w.request = Enrollment
    BY <2>1 DEF Operator, Operations
  <2>2. CASE w.request # Enrollment
    <3>1. receipts = 0
      BY <1>1, <1>4, <2>2 DEF Enrolled
    <3>2. Presumes(w)
      BY <1>1, <1>4, <3>1, SMTT(30) DEF FullAudit, Presumes
    <3> QED
      BY <1>1, <3>1, <3>2 DEF Current
  <2> QED
    BY <2>1, <2>2
<1>5. Operator(p) => AloneHolds(Fatal(p, "conflict"), Len(intents), receipts, remote)
  BY FatalAlone
<1> QED
  BY <1>2, <1>3, <1>4, <1>5, Zenon DEF Judge


(* Both kinds of audit agree with an archive that a lone process left.      *)
LEMMA AuditAlone ==
  ASSUME Inv, Alone, NEW p \in Process, Audit(p) \/ Recheck(p)
  PROVE  Alone'
<1> DEFINE w == worker[p]
           v == [w EXCEPT !.seen = Cardinality(remote), !.stage = "recheck"]
<1>0. w.stage \in {"audit", "recheck"} /\ UNCHANGED << intents, receipts, remote >>
  BY DEF Audit, Recheck, UnchangedTables, UnchangedArchive
<1>1. /\ w \in Attempt /\ Running(p) /\ Current(w, Len(intents), receipts, remote)
      /\ w.intents = Len(intents) /\ w.receipts = receipts
  BY <1>0, AloneFacts, SMTT(30) DEF Ends
<1>2. TerminalStored(w)
  BY <1>1, StoredFacts, Facts, SMTT(30) DEF TerminalStored
<1>3. w.recovering => Len(intents) = receipts + 1 /\ << receipts + 1, w.candidate >> = Object(receipts + 1)
  BY <1>0, <1>1, PinnedFacts, Zenon DEF Object
<1>4. ~w.recovering => Len(intents) = receipts
  BY <1>0, <1>1, SMTT(30) DEF Current, Settled
<1>5. IncrementAgrees(w)
  <2>1. CASE w.recovering
    BY <1>1, <1>2, <1>3, <2>1, StoredFacts, Facts, SMTT(30) DEF IncrementAgrees
  <2>2. CASE ~w.recovering
    BY <1>1, <1>2, <1>4, <2>2, StoredFacts, Zenon DEF IncrementAgrees
  <2> QED
    BY <2>1, <2>2
<1>6. AuditAgrees(w, Cardinality(remote))
  <2>1. Cardinality(remote) \in {receipts, Len(intents)} /\ remote = Objects(Cardinality(remote))
    BY ArchiveFacts
  <2>2. ASSUME Cardinality(remote) # receipts
        PROVE  /\ w.recovering /\ Cardinality(remote) = w.receipts + 1
               /\ At(Cardinality(remote)) = {<< Cardinality(remote), w.candidate >>}
    <3>1. w.recovering /\ Cardinality(remote) = receipts + 1
      BY <1>3, <1>4, <2>1, <2>2
    <3>2. Object(receipts + 1) \in remote
      BY <2>1, <3>1, Facts, SMTT(30) DEF Objects
    <3>3. Object(receipts + 1) \in At(receipts + 1)
      BY <3>2 DEF At, Object
    <3> QED
      BY <1>1, <1>3, <3>1, <3>3, StoredFacts, Facts, SMTT(30)
  <2> QED
    BY <1>1, <1>2, <2>2, ChainStored, Zenon DEF AuditAgrees
<1>7. AloneHolds(v, Len(intents), receipts, remote) \/ ~Audit(p)
  <2>1. /\ v.stage = "recheck" /\ v.intents = w.intents /\ v.receipts = w.receipts
        /\ v.request = w.request /\ v.audited = w.audited /\ v.recovered = w.recovered
        /\ v.recovering = w.recovering
    BY <1>1 DEF Attempt
  <2> HIDE DEF v
  <2> QED
    BY <1>1, <1>4, <2>1, SMTT(30) DEF AloneHolds, Current, Presumes, Settled
<1>8. AloneHolds(Fatal(p, "drift"), Len(intents), receipts, remote)
  BY FatalAlone
<1>9. \A agrees : agrees => AloneHolds(Judge(p, agrees), Len(intents), receipts, remote)
  BY <1>0, JudgeAlone, Zenon
<1>10. \E x : Set(p, x) /\ AloneHolds(x, Len(intents), receipts, remote)
  <2>1. CASE Audit(p)
    <3>1. Set(p, v) \/ Set(p, Judge(p, IncrementAgrees(w)))
      BY <2>1 DEF Audit
    <3> QED
      BY <1>5, <1>7, <1>9, <2>1, <3>1, Zenon
  <2>2. CASE Recheck(p)
    <3>1. \/ Set(p, Fatal(p, "drift"))
          \/ w.seen = Cardinality(remote) /\ Set(p, Judge(p, AuditAgrees(w, w.seen)))
      BY <2>2, Zenon DEF Recheck
    <3> QED
      BY <1>6, <1>8, <1>9, <3>1
  <2> QED
    BY <2>1, <2>2
<1> QED
  BY <1>0, <1>1, <1>10, MoveAlone, SMTT(30)


LEMMA CommitAlone ==
  ASSUME Inv, Alone, NEW p \in Process, Commit(p)
  PROVE  Alone'
<1> DEFINE w == worker[p]
           u == Moved(w, Tips(head), FALSE)
           v == [w EXCEPT !.intents = @ + 1, !.complete = FALSE, !.stage = "list"]
<1>0. w.stage = "commit" /\ UNCHANGED << receipts, remote >>
  BY DEF Commit, UnchangedArchive
<1>1. /\ w \in Attempt /\ Running(p) /\ Current(w, Len(intents), receipts, remote)
      /\ w.intents = Len(intents) /\ w.receipts = receipts
  BY <1>0, AloneFacts, Zenon DEF Ends
<1>2. Len(intents) = receipts /\ (Presumes(w) => receipts # 0)
  BY <1>0, <1>1, SMTT(30) DEF Current, Settled
<1>3. ~Pending(Cursor(p)) /\ ~TipsChanged(p)
  BY <1>1, <1>2, Facts, SMTT(30) DEF Pending, Cursor, TipsChanged
<1>4. CASE HeadAdvanced(p)
  <2>1. /\ u \in Attempt /\ u.intents = Len(intents) /\ u.receipts = receipts
        /\ u.request = w.request
    BY <1>1, LoadedFacts, MovedFields, Zenon
  <2>3. u.audited = w.audited /\ u.recovered = w.recovered
    BY <1>1, MovedPresumes, ZenonT(40)
  <2>4. Set(p, Advanced(p, u)) /\ intents' = intents
    BY <1>3, <1>4, Zenon DEF Commit
  <2> HIDE DEF u
  <2>5. AloneHolds(Again(u), Len(intents), receipts, remote)
    BY <1>2, <2>1, <2>3, AgainAlone, Zenon DEF Presumes
  <2>6. \A stage \in {"rejected", "recovery_required"} :
          AloneHolds(Ended(stage), Len(intents), receipts, remote)
    BY EndedAlone DEF Ends
  <2>7. AloneHolds(Advanced(p, u), Len(intents), receipts, remote)
    BY <2>5, <2>6 DEF Advanced
  <2> QED
    BY <1>0, <1>1, <2>4, <2>7, MoveAlone, Zenon
<1>5. CASE ~HeadAdvanced(p)
  <2>1. Set(p, v) /\ intents' = Append(intents, w.candidate)
    BY <1>3, <1>5 DEF Commit
  <2>2. /\ v.stage = "list" /\ v.intents = w.intents + 1 /\ v.receipts = w.receipts
        /\ v.request = w.request /\ v.audited = w.audited /\ v.recovered = w.recovered
    BY <1>1 DEF Attempt
  <2>3. Len(intents') = Len(intents) + 1
    BY <2>1 DEF Inv, TypeOK
  <2> HIDE DEF v
  <2>4. Presumes(v) => receipts # 0
    BY <1>2, <2>2 DEF Presumes
  <2>5. AloneHolds(v, Len(intents'), receipts', remote')
    BY <1>0, <1>1, <2>2, <2>3, <2>4, SMTT(30) DEF AloneHolds, Current, Settled
  <2> QED
    BY <1>1, <2>1, <2>5, MoveAlone
<1> QED
  BY <1>4, <1>5

(* A step to a stage that asks nothing new.                                 *)
LEMMA GoesAlone ==
  ASSUME Inv, Alone, NEW p \in Process, worker[p].stage \notin Ends \cup {"registered"},
         NEW stage \in {"list", "upload", "settle", "doubt", "refresh", "receipt"}, NEW a,
         stage = "settle" => Target(worker[p]) \in a
  PROVE  AloneHolds(Goes(worker[p], stage), Len(intents), receipts, a)
<1> DEFINE w == worker[p]
           v == Goes(w, stage)
<1>1. /\ w \in Attempt /\ Current(w, Len(intents), receipts, remote)
      /\ w.intents = Len(intents) /\ w.receipts = receipts
  BY AloneFacts, SMTT(30)
<1>2. stage \in Stages
  BY DEF Stages, Steps
<1>3. /\ v.stage = stage /\ v.intents = w.intents /\ v.receipts = w.receipts
      /\ v.request = w.request /\ v.candidate = w.candidate
  BY <1>1, <1>2, GoesFields, Zenon
<1>4. v.audited = w.audited /\ v.recovered = w.recovered
  BY <1>1, <1>2, GoesPresumes, Zenon
<1> HIDE DEF v
<1>5. Presumes(v) => receipts # 0
  BY <1>1, <1>3, <1>4, SMTT(30) DEF Current, Presumes
<1> QED
  BY <1>1, <1>3, <1>5, Zenon DEF AloneHolds, Current, Settled, Target, v

LEMMA ListAlone ==
  ASSUME Inv, Alone, NEW p \in Process, List(p)
  PROVE  Alone'
<1> DEFINE w == worker[p]
<1>0. w.stage = "list" /\ UNCHANGED << intents, receipts, remote >>
  BY SMTT(30) DEF List, UnchangedTables, UnchangedArchive
<1>1. Running(p) /\ w.receipts = receipts
  BY <1>0, AloneFacts, SMTT(30) DEF Ends
<1>2. TerminalStored(w)
  BY <1>1, StoredFacts, Facts DEF TerminalStored
<1>3. Target(w) = Object(receipts + 1)
  BY <1>0, <1>1, PinnedFacts, SMTT(30) DEF Target, Object, Uploading
<1>4. At(w.receipts + 1) \subseteq {Target(w)}
  BY <1>1, <1>3, StoredFacts, Facts, SMTT(30)
<1>5. \A stage \in {"upload", "refresh"} :
        AloneHolds(Goes(w, stage), Len(intents), receipts, remote)
  BY <1>0, GoesAlone, SMTT(30) DEF Ends
<1>6. \E stage \in {"upload", "refresh"} : Set(p, Goes(w, stage))
  BY <1>2, <1>4, SMTT(30) DEF List
<1> QED
  BY <1>0, <1>1, <1>5, <1>6, MoveAlone, SMTT(30)

LEMMA UploadAlone ==
  ASSUME Inv, Alone, NEW p \in Process, Upload(p)
  PROVE  Alone'
<1> DEFINE w == worker[p]
<1>0. w.stage = "upload" /\ UNCHANGED << intents, receipts >>
  BY DEF Upload, UnchangedTables
<1>1. Running(p)
  BY <1>0, AloneFacts DEF Ends
<1>2. CASE remote' = remote \cup {Target(w)} /\ Set(p, Goes(w, "settle"))
  <2>1. AloneHolds(Goes(w, "settle"), Len(intents), receipts, remote')
    BY <1>0, <1>2, GoesAlone, Zenon DEF Ends
  <2> QED
    BY <1>0, <1>1, <1>2, <2>1, MoveAlone, Zenon
<1>3. CASE remote' = remote /\ Set(p, Goes(w, "doubt"))
  <2>1. AloneHolds(Goes(w, "doubt"), Len(intents), receipts, remote')
    BY <1>0, GoesAlone, Zenon DEF Ends
  <2> QED
    BY <1>0, <1>1, <1>3, <2>1, MoveAlone, SMTT(30)
<1> QED
  BY <1>2, <1>3, SMTT(30) DEF Upload

LEMMA SettleAlone ==
  ASSUME Inv, Alone, NEW p \in Process, Settle(p)
  PROVE  Alone'
<1> DEFINE w == worker[p]
<1>0. w.stage \in {"settle", "doubt"} /\ UNCHANGED << intents, receipts, remote >>
  BY SMTT(30) DEF Settle, UnchangedTables, UnchangedArchive
<1>1. /\ w \in Attempt /\ Running(p) /\ w.receipts = receipts
      /\ Current(w, Len(intents), receipts, remote)
  BY <1>0, AloneFacts, SMTT(30) DEF Ends
<1>2. ASSUME w.stage = "settle" PROVE At(w.receipts + 1) = {Target(w)}
  <2>1. Target(w) = Object(receipts + 1)
    BY <1>0, <1>1, PinnedFacts, SMTT(30) DEF Target, Object, Uploading
  <2>2. Target(w) \in remote
    BY <1>1, <1>2, SMTT(30) DEF Current, Target
  <2>3. Target(w) \in At(receipts + 1)
    BY <1>1, <2>2 DEF At, Target
  <2> QED
    BY <1>1, <2>1, <2>3, StoredFacts, Facts, SMTT(30)
<1>3. AloneHolds(Goes(w, "refresh"), Len(intents), receipts, remote)
  BY <1>0, GoesAlone, SMTT(30) DEF Ends
<1>4. AloneHolds(Transient(p), Len(intents), receipts, remote)
  BY <1>1, TransientAlone, Zenon
<1>5. Set(p, Goes(w, "refresh")) \/ Set(p, Transient(p))
  BY <1>0, <1>2, SMTT(30) DEF Settle
<1> QED
  BY <1>0, <1>1, <1>3, <1>4, <1>5, MoveAlone, SMTT(30)


LEMMA RefreshAlone ==
  ASSUME Inv, Alone, NEW p \in Process, Refresh(p)
  PROVE  Alone'
<1> DEFINE w == worker[p]
           u == Moved(w, Tips(head), FALSE)
           v == Goes(u, "receipt")
<1>0. w.stage = "refresh" /\ UNCHANGED << intents, receipts, remote >>
  BY Zenon DEF Refresh, UnchangedTables, UnchangedArchive
<1>1. /\ w \in Attempt /\ Running(p) /\ w.receipts = receipts
      /\ Current(w, Len(intents), receipts, remote)
  BY <1>0, AloneFacts, Zenon DEF Ends
<1>2. Len(intents) = receipts + 1
  BY <1>0, <1>1, PinnedFacts, SMTT(30) DEF Uploading, Current
<1>3. /\ u \in Attempt /\ u.intents = Len(intents) /\ u.receipts = receipts
      /\ u.request = w.request
  BY <1>1, LoadedFacts, MovedFields, Zenon
<1>4. "receipt" \in Stages
  BY DEF Stages, Steps
<1>5. u.audited = w.audited /\ u.recovered = w.recovered
  BY <1>1, MovedPresumes, ZenonT(40)
<1>6. Set(p, IF u.receipts = u.intents /\ u.intents = w.receipts + 1 THEN Completed(u)
             ELSE IF u.receipts < u.intents /\ u.intents = w.receipts + 1 THEN v
             ELSE Fatal(p, "conflict"))
  BY Zenon DEF Refresh
<1> HIDE DEF u
<1>7. Set(p, v)
  BY <1>1, <1>2, <1>3, <1>6, Facts, SMTT(30)
<1>8. /\ v.stage = "receipt" /\ v.intents = u.intents /\ v.receipts = u.receipts
      /\ v.request = u.request
  BY <1>3, <1>4, GoesFields, Zenon
<1>9. v.audited = u.audited /\ v.recovered = u.recovered
  BY <1>3, <1>4, GoesPresumes, Zenon
<1> HIDE DEF v
<1>10. Presumes(v) => receipts # 0
  BY <1>1, <1>3, <1>5, <1>8, <1>9, Zenon DEF Current, Presumes
<1>11. AloneHolds(v, Len(intents), receipts, remote)
  BY <1>3, <1>8, <1>10, SMTT(30) DEF AloneHolds, Current, Settled
<1> QED
  BY <1>0, <1>1, <1>7, <1>11, MoveAlone, Zenon

LEMMA ReceiptAlone ==
  ASSUME Inv, Alone, NEW p \in Process, Receipt(p)
  PROVE  Alone'
<1> DEFINE w == worker[p]
           v == [w EXCEPT !.receipts = @ + 1]
<1>0. w.stage = "receipt" /\ UNCHANGED << intents, remote >>
  BY DEF Receipt, UnchangedArchive
<1>1. /\ w \in Attempt /\ Running(p) /\ w.receipts = receipts /\ w.intents = Len(intents)
      /\ Current(w, Len(intents), receipts, remote)
  BY <1>0, AloneFacts, SMTT(30) DEF Ends
<1>2. Len(intents) = receipts + 1 /\ receipts \in Nat
  BY <1>0, <1>1, PinnedFacts, Facts, SMTT(30) DEF Uploading
<1>3. ~TipsChanged(p)
  BY <1>1 DEF TipsChanged
<1>4. CASE HeadAdvanced(p)
  <2>1. AloneHolds(Again(w), Len(intents), receipts, remote)
    BY <1>1, AgainAlone, SMTT(30) DEF Current, Presumes
  <2>2. \A stage \in {"rejected", "recovery_required"} :
          AloneHolds(Ended(stage), Len(intents), receipts, remote)
    BY EndedAlone DEF Ends
  <2>3. AloneHolds(Advanced(p, w), Len(intents), receipts, remote)
    BY <2>1, <2>2, SMTT(30) DEF Advanced
  <2>4. Set(p, Advanced(p, w)) /\ receipts' = receipts
    BY <1>4 DEF Receipt
  <2> QED
    BY <1>0, <1>1, <2>3, <2>4, MoveAlone, SMTT(30)
<1>5. CASE ~HeadAdvanced(p)
  <2>1. Set(p, Completed(v)) /\ receipts' = receipts + 1
    BY <1>3, <1>5 DEF Receipt
  <2>2. v \in Attempt /\ v.intents = receipts + 1 /\ v.receipts = receipts + 1
    BY <1>1, <1>2, Zenon DEF Attempt
  <2> HIDE DEF v
  <2>3. receipts + 1 # 0
    BY <1>2
  <2>4. AloneHolds(Completed(v), receipts + 1, receipts + 1, remote)
    BY <2>2, <2>3, CompletedAlone
  <2> QED
    BY <1>0, <1>1, <1>2, <2>1, <2>4, MoveAlone, SMTT(30)
<1> QED
  BY <1>4, <1>5

(* The steps that end a process or load a new one.                          *)
LEMMA OtherAlone ==
  ASSUME Inv, Alone, NEW p \in Process, Postcheck(p) \/ Crash(p) \/ Outage(p)
  PROVE  Alone'
<1>0. UNCHANGED << intents, receipts, remote >>
  BY SMTT(30) DEF Postcheck, Crash, Outage, UnchangedTables, UnchangedArchive
<1>1. \A stage \in {"enrolled", "unconfirmed", "off"} :
        AloneHolds(Ended(stage), Len(intents), receipts, remote)
  BY EndedAlone DEF Ends
<1>2. CASE Postcheck(p)
  <2>1. Running(p)
    BY <1>2, Zenon DEF Postcheck, Running, Ends
  <2>2. Set(p, Ended("enrolled")) \/ Set(p, Ended("unconfirmed"))
    BY <1>2, SMTT(30) DEF Postcheck
  <2> QED
    BY <1>0, <1>1, <2>1, <2>2, MoveAlone
<1>3. CASE Crash(p)
  BY <1>0, <1>1, <1>3, MoveAlone DEF Crash
<1>4. CASE Outage(p)
  <2>1. worker[p].stage \notin Ends \cup {"registered"}
    BY <1>4 DEF Outage, Ends
  <2>2. AloneHolds(Transient(p), Len(intents), receipts, remote)
    BY <2>1, AloneFacts, TransientAlone, Zenon
  <2>3. Running(p) /\ Set(p, Transient(p))
    BY <1>4, <2>1, SMTT(30) DEF Outage, Running
  <2> QED
    BY <1>0, <2>2, <2>3, MoveAlone
<1> QED
  BY <1>2, <1>3, <1>4

LEMMA StartAlone ==
  ASSUME Inv, Alone, ~overlap, NEW p \in Process,
         Register(p) \/ \E r \in Operations : Operate(p, r)
  PROVE  Alone'
<1>0. UNCHANGED << intents, receipts, remote >> /\ \A q \in Process : ~Running(q)
  BY Zenon DEF Register, Operate, Starts, UnchangedTables, UnchangedArchive
<1>1. CASE Register(p)
  <2>1. AloneHolds(Ended("registered"), Len(intents), receipts, remote)
    BY EndedAlone
  <2> QED
    BY <1>0, <1>1, <2>1, MoveAlone DEF Register
<1>2. ASSUME NEW r \in Operations, Operate(p, r) PROVE Alone'
  <2> DEFINE u == Moved(Ended("off"), Tips(head), TRUE)
             w == [u EXCEPT !.request = r]
  <2>1. "off" \in Stages /\ "prepare" \in Stages /\ "postcheck" \in Stages /\ "recover" \in Stages
    BY DEF Stages, Steps, Ends
  <2>2. r \in Requests /\ r.full = TRUE
    BY SMTT(30) DEF Requests, Operations, Enrollment, Recovery
  <2>3. Ended("off") \in Attempt /\ ~Ended("off").audited /\ ~Ended("off").recovered
    BY <2>1, EndedFields, SMTT(30) DEF Ended
  <2>4. /\ u \in Attempt /\ u.intents = Len(intents) /\ u.receipts = receipts
    BY <2>3, LoadedFacts, MovedFields, Zenon
  <2>5. u.audited = Ended("off").audited /\ u.recovered = Ended("off").recovered
    BY <2>3, MovedPresumes, ZenonT(40)
  <2>6. LET pending == Pending(Tips(head))
        IN  Set(p, IF r = Enrollment
                   THEN IF receipts # 0 THEN Ended("rejected")
                        ELSE IF pending THEN Ended("recovery_required")
                        ELSE Goes(w, "prepare")
                   ELSE IF receipts = 1 /\ ~pending THEN Goes(w, "postcheck")
                        ELSE IF receipts = 0 /\ pending THEN Goes(w, "recover")
                        ELSE Ended("rejected"))
    BY <1>2, Zenon DEF Operate
  <2> HIDE DEF u
  <2>7. /\ w \in Attempt /\ w.intents = Len(intents) /\ w.receipts = receipts
        /\ w.request = r /\ w.audited = FALSE /\ w.recovered = FALSE
    BY <2>2, <2>3, <2>4, <2>5, Zenon DEF Attempt
  <2> HIDE DEF w
  <2>8. Pending(Tips(head)) <=> Len(intents) # receipts
    BY LoadedFacts, Facts DEF Pending
  <2>9. ASSUME NEW stage \in {"prepare", "postcheck", "recover"},
               stage = "prepare" => Len(intents) = receipts,
               stage = "recover" => Len(intents) # receipts
        PROVE  AloneHolds(Goes(w, stage), Len(intents), receipts, remote)
    <3> DEFINE v == Goes(w, stage)
    <3>0. stage \in Stages
      BY <2>1
    <3>1. /\ v.stage = stage /\ v.intents = w.intents /\ v.receipts = w.receipts
          /\ v.request = w.request
      BY <2>7, <3>0, GoesFields, Zenon
    <3>2. v.audited = w.audited /\ v.recovered = w.recovered
      BY <2>7, <3>0, GoesPresumes, Zenon
    <3> HIDE DEF v
    <3> QED
      BY <2>2, <2>7, <2>9, <3>1, <3>2, Zenon DEF AloneHolds, Current, Presumes, Settled, v
  <2>10. \A stage \in {"rejected", "recovery_required"} :
          AloneHolds(Ended(stage), Len(intents), receipts, remote)
    BY EndedAlone DEF Ends
  <2>11. \E v : Set(p, v) /\ AloneHolds(v, Len(intents), receipts, remote)
    BY <2>6, <2>8, <2>9, <2>10
  <2> QED
    BY <1>0, <2>11, MoveAlone
<1> QED
  BY <1>1, <1>2

(* An object stored late, and a longer journal.                             *)
LEMMA GrowAlone ==
  ASSUME Inv, Alone, UNCHANGED << worker, intents, receipts >>, remote \subseteq remote'
  PROVE  Alone'
<1>1. ASSUME NEW q \in Process
      PROVE  AloneHolds(worker[q], Len(intents), receipts, remote')
  BY SMTT(30) DEF Alone, AloneHolds, Current
<1> QED
  BY <1>1 DEF Alone, Running

LEMMA OverlapFixed ==
  ASSUME [Next]_vars
  PROVE  overlap' = overlap
BY ZenonT(60) DEF Next, Work, vars, Prime, Begin, Recover, Prepare, Audit, Recheck, Commit, List,
   Upload, Settle, Refresh, Receipt, Postcheck, Register, Probe, Crash, Outage, Operate, Land,
   UnchangedJournal

LEMMA NextAlone ==
  ASSUME Inv, Alone, ~overlap, [Next]_vars
  PROVE  Alone' /\ ~overlap'
<1>1. overlap' = overlap
  BY OverlapFixed
<1>2. ASSUME NEW p \in Process, Work(p) PROVE Alone'
  BY <1>2, PrimeAlone, BeginAlone, RecoverAlone, PrepareAlone, AuditAlone, CommitAlone, ListAlone,
     UploadAlone, SettleAlone, RefreshAlone, ReceiptAlone, OtherAlone, SMTT(30) DEF Work
<1>3. ASSUME NEW p \in Process, Probe(p) PROVE Alone'
  BY <1>3, GrowAlone, SMTT(30) DEF Probe, UnchangedTables, UnchangedArchive
<1>4. ASSUME NEW o \in delayed, Land(o) PROVE Alone'
  BY <1>4, GrowAlone DEF Land, UnchangedTables
<1>5. CASE UNCHANGED vars
  BY <1>5, GrowAlone DEF vars
<1> QED
  BY <1>1, <1>2, <1>3, <1>4, <1>5, StartAlone, OtherAlone, SMTT(30) DEF Next

\* Processes that run one after the other, whatever crashes, outages and late
\* uploads each of them leaves behind, never latch a conflict: the fork and
\* tip checks of the audit, of commit_prepared_intent and of the receipt
\* object only to histories the code did not write itself.
THEOREM NoFalseConflict == Spec => []NeverConflicts
<1> DEFINE LoneInv == ~overlap => Alone
<1>1. Init => LoneInv
  <2>1. ASSUME Init PROVE \A p \in Process : worker[p] = Ended("off")
    BY <2>1 DEF Init
  <2>2. \A n, r, a : AloneHolds(Ended("off"), n, r, a) /\ Ended("off").stage = "off"
    BY EndedAlone, Zenon DEF Ends, Ended
  <2> QED
    BY <2>1, <2>2, SMTT(30) DEF Alone, Running, Ends
<1>2. Inv /\ LoneInv /\ [Next]_vars => LoneInv'
  BY OverlapFixed, NextAlone
<1>3. LoneInv => NeverConflicts
  BY SMTT(30) DEF NeverConflicts, Alone, AloneHolds
<1> QED
  BY <1>1, <1>2, <1>3, Invariance, PTL DEF Spec
=============================================================================
