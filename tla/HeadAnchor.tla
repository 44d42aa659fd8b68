------------------------------ MODULE HeadAnchor ------------------------------
(***************************************************************************)
(* The publication of signed checkpoints of the trusted-time journal.      *)
(*                                                                         *)
(* A supervisor registers a fresh epoch, appends probes to the local       *)
(* journal and lets one background worker anchor the journal's head in a   *)
(* remote write-once archive (apps/trusted_time_supervisor/                *)
(* head_anchor_attempt.py over packages/persistence and                    *)
(* packages/application trusted_time_head_anchor.py).  One checkpoint is   *)
(* an intent committed in SQL, an upload without overwrite, a readback and *)
(* a receipt committed in SQL.  A one-shot operator stores the first       *)
(* checkpoint.  Supervisors and operators may overlap, crash at any point  *)
(* and be started again; the archive may be unreachable, lose an answer or *)
(* store an object long after the call that sent it has failed.            *)
(*                                                                         *)
(* The SQL tables only grow, so a worker's cursor on them is three counts. *)
(* A record is determined by its sequence, its local head and its reason:  *)
(* intents[i] is the record of anchor sequence i, an object of the archive *)
(* is a pair of a sequence and a record.                                   *)
(***************************************************************************)
EXTENDS Naturals, Sequences, FiniteSets

CONSTANTS Process,      \* supervisors and operators
          MaxHeads,     \* bound: transitions of the local journal
          MaxShared,    \* bound: its transitions when processes overlap
          MaxOutages    \* bound: calls the archive does not answer

ASSUME AnchorAssumption ==
  MaxShared \in Nat \ {0} /\ MaxHeads \in Nat /\ MaxHeads >= MaxShared /\ MaxOutages \in Nat

VARIABLES overlap,    \* whether a process starts while another runs
          head,       \* number of transitions in the local journal
          owner,      \* the supervisor whose epoch is the newest
          intents,    \* committed intents, by anchor sequence
          receipts,   \* how many of them have a receipt
          remote,     \* objects stored in the archive
          delayed,    \* objects sent by a failed call, not stored yet
          outages,    \* calls the archive has not answered
          worker      \* the attempt object of each process

vars == << overlap, head, owner, intents, receipts, remote, delayed, outages, worker >>

-----------------------------------------------------------------------------
(* Requests *)

Startup     == [reason |-> "epoch_rotation", full |-> TRUE]
Periodic    == [reason |-> "periodic", full |-> FALSE]
OnDemand    == [reason |-> "on_demand", full |-> TRUE]
CleanStop   == [reason |-> "clean_stop", full |-> FALSE]
Enrollment  == [reason |-> "enrollment", full |-> TRUE]
Recovery    == [reason |-> "recovery", full |-> TRUE]

Operations == {Enrollment, Recovery}                  \* of the one-shot operator
Requests == {Startup, Periodic, OnDemand, CleanStop} \cup Operations

\* Where a worker stands: before its cursor is loaded, between two requests,
\* inside one, or at an end it does not leave by itself.
Steps == {"recover", "prepare", "audit", "recheck", "commit", "list", "upload",
          "settle", "doubt", "refresh", "receipt", "postcheck"}
Ends == {"off", "clean", "unclean", "unconfirmed", "unapproved", "conflict", "drift",
         "enrolled", "rejected", "unavailable", "recovery_required"}
Stages == {"registered", "idle"} \cup Steps \cup Ends

Records == [head : 1..MaxHeads, reason : {r.reason : r \in Requests}]

NoCandidate == << >>

Running(p) == worker[p].stage \notin Ends

Operator(p) == worker[p].request \in Operations

-----------------------------------------------------------------------------
(* Cursors *)

Cursor(p) == [local |-> worker[p].local, intents |-> worker[p].intents,
              receipts |-> worker[p].receipts]

Tips(h) == [local |-> h, intents |-> Len(intents), receipts |-> receipts]

Pending(cursor) == cursor.intents > cursor.receipts

\* The rows a cursor does not know: read and adopted by a load or a refresh.
Moved(w, cursor, complete) ==
  [w EXCEPT !.local = cursor.local, !.intents = cursor.intents,
            !.receipts = cursor.receipts, !.complete = complete]

\* _lock_and_assert_compact_snapshot: the head of the journal is compared
\* first; only a longer journal is a benign loss of the race.
HeadAdvanced(p) == head # worker[p].local

TipsChanged(p) == Len(intents) # worker[p].intents \/ receipts # worker[p].receipts

-----------------------------------------------------------------------------
(* How a request ends *)

Set(p, w) == worker' = [worker EXCEPT ![p] = w]

Goes(w, stage) == [w EXCEPT !.stage = stage]

\* A process that holds no cursor.
Ended(stage) ==
  [stage |-> stage, request |-> Startup, local |-> 0, intents |-> 0, receipts |-> 0,
   complete |-> FALSE, recovering |-> FALSE, recovered |-> FALSE,
   candidate |-> NoCandidate, seen |-> 0, audited |-> FALSE]

Committed(p) ==
  worker[p].stage \in {"list", "upload", "settle", "doubt", "refresh", "receipt"}

\* A failure no retry may cover.  The operator reports whether its intent can
\* have been committed; the worker latches the failure.
Fatal(p, kind) ==
  Ended(IF ~Operator(p) THEN kind
        ELSE IF worker[p].stage = "commit" \/ Committed(p) \/ worker[p].recovering
             THEN "recovery_required" ELSE "rejected")

\* The attempt is over, its cursor compacted, and the scheduler tries again;
\* a clean stop is not tried again.
Again(w) ==
  IF w.request = CleanStop THEN Ended("unclean")
  ELSE [w EXCEPT !.complete = FALSE, !.recovering = FALSE, !.recovered = FALSE,
                 !.candidate = NoCandidate, !.seen = 0, !.stage = "idle"]

\* A call the archive did not answer.
Transient(p) ==
  IF ~Operator(p) THEN Again(worker[p])
  ELSE Ended(IF Committed(p) \/ worker[p].recovering
             THEN "recovery_required" ELSE "unavailable")

\* The head moved under a commit of an intent or of a receipt.
Advanced(p, w) ==
  IF ~Operator(p) THEN Again(w)
  ELSE Ended(IF w.stage = "commit" THEN "rejected" ELSE "recovery_required")

\* The clean stop is confirmed by a record of its own that names the newest
\* transition the cursor knows and is not one of the first two.
TerminalConfirmed(w) ==
  /\ w.candidate # NoCandidate
  /\ w.candidate.head = w.local
  /\ w.intents >= 3

\* A request that needs no further step.
Succeeded(w) ==
  IF w.request \in Operations THEN Goes(w, "postcheck")
  ELSE IF w.request = CleanStop
       THEN Ended(IF TerminalConfirmed(w) THEN "clean" ELSE "unconfirmed")
       ELSE Again([w EXCEPT !.audited = @ \/ w.request.full])

\* A receipt is in: after a recovered intent the request itself is still due.
Completed(w) ==
  IF w.recovering /\ w.request \notin Operations
  THEN [w EXCEPT !.complete = FALSE, !.recovering = FALSE, !.recovered = TRUE,
                 !.candidate = NoCandidate, !.stage = "prepare"]
  ELSE Succeeded(w)

-----------------------------------------------------------------------------
(* The local journal *)

Init ==
  /\ overlap \in BOOLEAN
  /\ head = 1
  /\ owner = "none"
  /\ intents = << >>
  /\ receipts = 0
  /\ remote = {}
  /\ delayed = {}
  /\ outages = 0
  /\ worker = [p \in Process |-> Ended("off")]

UnchangedTables == UNCHANGED << intents, receipts >>
UnchangedJournal == UNCHANGED << overlap, head, owner >>
UnchangedArchive == UNCHANGED << remote, delayed, outages >>

\* The journal's bound, and who may start: nothing keeps supervisors and
\* operators from overlapping, and the code is written for one at a time.
Extends == head < IF overlap THEN MaxShared ELSE MaxHeads
Starts(p) == ~Running(p) /\ (overlap \/ \A q \in Process : ~Running(q))

\* register_new_epoch: a fresh epoch is a transition of the journal.
Register(p) ==
  /\ Starts(p)
  /\ Extends
  /\ head' = head + 1
  /\ owner' = p
  /\ UNCHANGED overlap
  /\ Set(p, Ended("registered"))
  /\ UnchangedTables /\ UnchangedArchive

\* prime_startup: the complete local replay, in one repeatable-read snapshot.
Prime(p) ==
  /\ worker[p].stage = "registered"
  /\ Set(p, Goes(Moved(worker[p], Tips(head), TRUE), "idle"))
  /\ UnchangedJournal /\ UnchangedTables /\ UnchangedArchive

\* The one-shot operator primes its cursor without an epoch of its own.
Operate(p, r) ==
  /\ Starts(p)
  /\ LET w == [Moved(Ended("off"), Tips(head), TRUE) EXCEPT !.request = r]
         pending == Pending(Tips(head))
     IN  Set(p, IF r = Enrollment
                THEN IF receipts # 0 THEN Ended("rejected")
                     ELSE IF pending THEN Ended("recovery_required")
                     ELSE Goes(w, "prepare")
                ELSE IF receipts = 1 /\ ~pending THEN Goes(w, "postcheck")
                     ELSE IF receipts = 0 /\ pending THEN Goes(w, "recover")
                     ELSE Ended("rejected"))
  /\ UnchangedJournal /\ UnchangedTables /\ UnchangedArchive

\* append_probe: only the newest epoch extends the journal, and the probe
\* loop has ended before a clean stop is requested.
Probe(p) ==
  /\ Running(p) /\ worker[p].stage # "registered" /\ ~Operator(p)
  /\ owner = p
  /\ worker[p].request # CleanStop
  /\ Extends
  /\ head' = head + 1
  /\ UNCHANGED << overlap, owner, worker >>
  /\ UnchangedTables /\ UnchangedArchive

Crash(p) ==
  /\ Running(p)
  /\ Set(p, Ended("off"))
  /\ UnchangedJournal /\ UnchangedTables /\ UnchangedArchive

-----------------------------------------------------------------------------
(* One request *)

Begin(p) ==
  /\ worker[p].stage = "idle"
  /\ \E r \in IF worker[p].audited THEN {Periodic, OnDemand, CleanStop} ELSE {Startup} :
       Set(p, [worker[p] EXCEPT !.request = r, !.recovered = FALSE,
                 !.stage = IF Pending(Cursor(p)) THEN "recover" ELSE "prepare"])
  /\ UnchangedJournal /\ UnchangedTables /\ UnchangedArchive

\* Mutation: a cursor that is not complete is compacted and tried again.
RecoverComplete(p) ==
  /\ worker[p].stage = "recover"
  /\ Set(p, IF worker[p].complete
            THEN [worker[p] EXCEPT !.recovering = TRUE, !.stage = "audit",
                                   !.candidate = intents[worker[p].intents]]
            ELSE Transient(p))
  /\ UnchangedJournal /\ UnchangedTables /\ UnchangedArchive

\* _prepare_recovery: a compact cursor is replaced by a complete one.
Recover(p) ==
  /\ worker[p].stage = "recover"
  /\ LET w == IF worker[p].complete THEN worker[p]
              ELSE Moved(worker[p], Tips(head), TRUE)
     IN  Set(p, IF w.intents = w.receipts THEN Fatal(p, "conflict")
                ELSE [w EXCEPT !.recovering = TRUE, !.candidate = intents[w.intents],
                               !.stage = "audit"])
  /\ UnchangedJournal /\ UnchangedTables /\ UnchangedArchive

\* A full audit is made once per request, by the recovery if there was one.
FullAudit(w) == w.request.full /\ ~w.recovered

\* _prepare_current: load for a full audit, refresh otherwise.
Prepare(p) ==
  /\ worker[p].stage = "prepare"
  /\ LET w == worker[p]
     IN  Set(p, Goes(IF FullAudit(w)
                     THEN IF w.complete THEN w ELSE Moved(w, Tips(head), TRUE)
                     ELSE Moved(w, Tips(head), w.complete /\ Cursor(p) = Tips(head)),
                     "audit"))
  /\ UnchangedJournal /\ UnchangedTables /\ UnchangedArchive

Object(i) == << i, intents[i] >>

At(i) == {o \in remote : o[1] = i}

\* A gap-free archive with one object for every sequence.
Chain == \A i \in 1..Cardinality(remote) : Cardinality(At(i)) = 1

\* The confirmed terminal is where the cursor says it is.
TerminalStored(w) == w.receipts = 0 \/ At(w.receipts) = {Object(w.receipts)}

\* Mutation: the audit of a recovery does not expect the pending object.
AuditAgreesConfirmed(w, count) == Chain /\ TerminalStored(w) /\ count = w.receipts

\* The archive of a full audit against the cursor.
AuditAgrees(w, count) ==
  /\ Chain
  /\ TerminalStored(w)
  /\ \/ count = w.receipts
     \/ w.recovering /\ count = w.receipts + 1 /\ At(count) = {<< count, w.candidate >>}

\* The archive of an incremental check: the terminal and the next sequence.
IncrementAgrees(w) ==
  /\ TerminalStored(w)
  /\ At(w.receipts + 1) \subseteq
       IF w.recovering THEN {<< w.receipts + 1, w.candidate >>} ELSE {}

\* Sign the journal head of the cursor, unless the terminal names it already.
Sign(w) ==
  LET terminal == IF w.receipts = 0 THEN NoCandidate ELSE intents[w.receipts]
  IN  IF w.recovering THEN [w EXCEPT !.seen = 0, !.stage = "list"]
      ELSE IF terminal # NoCandidate /\ terminal.head = w.local
           THEN Succeeded([w EXCEPT !.candidate = NoCandidate])
      ELSE [w EXCEPT !.candidate = [head |-> w.local, reason |-> w.request.reason],
                     !.seen = 0, !.stage = "commit"]

\* The first record is an enrollment, and only the operator stores it.
Enrolled(w) == (w.receipts = 0) = (w.request = Enrollment)

Judge(p, agrees) ==
  LET w == worker[p]
  IN  IF ~agrees THEN Fatal(p, "conflict")
      ELSE IF w.recovering \/ Enrolled(w) THEN Sign(w)
      ELSE IF FullAudit(w) /\ w.receipts = 0 THEN Fatal(p, "unapproved")
      ELSE Fatal(p, "conflict")

\* The first pass over the archive; an incremental check needs no second.
Audit(p) ==
  /\ worker[p].stage = "audit"
  /\ Set(p, IF FullAudit(worker[p])
            THEN [worker[p] EXCEPT !.seen = Cardinality(remote), !.stage = "recheck"]
            ELSE Judge(p, IncrementAgrees(worker[p])))
  /\ UnchangedJournal /\ UnchangedTables /\ UnchangedArchive

\* The second pass: the namespace may not have changed since the first.
Recheck(p) ==
  /\ worker[p].stage = "recheck"
  /\ Set(p, IF Cardinality(remote) # worker[p].seen THEN Fatal(p, "drift")
            ELSE Judge(p, AuditAgrees(worker[p], worker[p].seen)))
  /\ UnchangedJournal /\ UnchangedTables /\ UnchangedArchive

\* commit_prepared_intent, before any upload.  A cursor that already knows a
\* pending intent may only join the very same one.
Commit(p) ==
  /\ worker[p].stage = "commit"
  /\ LET w == worker[p]
         known == Pending(Cursor(p))
     IN  IF known /\ intents[w.intents] # w.candidate
         THEN Set(p, Fatal(p, "conflict")) /\ UNCHANGED intents
         ELSE IF HeadAdvanced(p)
         THEN Set(p, Advanced(p, Moved(w, Tips(head), FALSE))) /\ UNCHANGED intents
         ELSE IF TipsChanged(p)
         THEN Set(p, Fatal(p, "conflict")) /\ UNCHANGED intents
         ELSE IF known
         THEN Set(p, Goes(w, "list")) /\ UNCHANGED intents
         ELSE /\ intents' = Append(intents, w.candidate)
              /\ Set(p, [w EXCEPT !.intents = @ + 1, !.complete = FALSE, !.stage = "list"])
  /\ UNCHANGED receipts /\ UnchangedJournal /\ UnchangedArchive

Target(w) == << w.receipts + 1, w.candidate >>

\* _complete_candidate_upload, up to the upload: an exact object is taken as
\* it is, a different one of the same sequence is a fork.
List(p) ==
  /\ worker[p].stage = "list"
  /\ LET w == worker[p]
         found == At(w.receipts + 1)
     IN  Set(p, IF ~TerminalStored(w) \/ ~(found \subseteq {Target(w)})
                THEN Fatal(p, "conflict")
                ELSE Goes(w, IF found = {} THEN "upload" ELSE "refresh"))
  /\ UnchangedJournal /\ UnchangedTables /\ UnchangedArchive

\* The upload stores the object, or it fails; the object of a failed call may
\* have been stored, may be stored later, or never.
Upload(p) ==
  /\ worker[p].stage = "upload"
  /\ \/ /\ remote' = remote \cup {Target(worker[p])}
        /\ Set(p, Goes(worker[p], "settle"))
        /\ UNCHANGED << delayed, outages >>
     \/ /\ outages < MaxOutages
        /\ Set(p, Goes(worker[p], "doubt"))
        /\ outages' = outages + 1
        /\ delayed' = delayed \cup ({Target(worker[p])} \ remote)
        /\ UNCHANGED remote
  /\ UnchangedJournal /\ UnchangedTables

\* The archive stores an object of a call that failed long ago.
Land(o) ==
  /\ o \in delayed
  /\ remote' = remote \cup {o}
  /\ delayed' = delayed \ {o}
  /\ UNCHANGED << outages, worker >>
  /\ UnchangedJournal /\ UnchangedTables

\* The listing after the upload, the download and the second provider GET.
\* Only after a failed upload may the object be missing.
Settle(p) ==
  /\ worker[p].stage \in {"settle", "doubt"}
  /\ LET w == worker[p]
     IN  Set(p, IF At(w.receipts + 1) = {Target(w)} THEN Goes(w, "refresh")
                ELSE IF w.stage = "doubt" THEN Transient(p)
                ELSE Fatal(p, "conflict"))
  /\ UnchangedJournal /\ UnchangedTables /\ UnchangedArchive

\* confirm_remote_readback_from_snapshot refreshes the cursor first; the
\* receipt may be in already.
Refresh(p) ==
  /\ worker[p].stage = "refresh"
  /\ LET i == worker[p].receipts + 1
         w == Moved(worker[p], Tips(head), FALSE)
     IN  Set(p, IF w.receipts = w.intents /\ w.intents = i THEN Completed(w)
                ELSE IF w.receipts < w.intents /\ w.intents = i THEN Goes(w, "receipt")
                ELSE Fatal(p, "conflict"))
  /\ UnchangedJournal /\ UnchangedTables /\ UnchangedArchive

\* Mutation: the receipt is written without comparing the tips.
ReceiptUnchecked(p) ==
  /\ worker[p].stage = "receipt"
  /\ receipts' = receipts + 1
  /\ Set(p, Completed([worker[p] EXCEPT !.receipts = @ + 1]))
  /\ UNCHANGED intents /\ UnchangedJournal /\ UnchangedArchive

\* The receipt, under the same comparison of tips as the intent.
Receipt(p) ==
  /\ worker[p].stage = "receipt"
  /\ LET w == worker[p]
     IN  IF HeadAdvanced(p)
         THEN Set(p, Advanced(p, w)) /\ UNCHANGED receipts
         ELSE IF TipsChanged(p)
         THEN Set(p, Fatal(p, "conflict")) /\ UNCHANGED receipts
         ELSE /\ receipts' = receipts + 1
              /\ Set(p, Completed([w EXCEPT !.receipts = @ + 1]))
  /\ UNCHANGED intents /\ UnchangedJournal /\ UnchangedArchive

\* Mutation: the enrollment is confirmed for the head it was made for.
PostcheckStale(p) ==
  /\ worker[p].stage = "postcheck"
  /\ \/ /\ Set(p, Ended(IF /\ Tips(head) = [local |-> head, intents |-> 1, receipts |-> 1]
                           /\ remote = {Object(1)}
                        THEN "enrolled" ELSE "unconfirmed"))
        /\ UNCHANGED outages
     \/ /\ outages < MaxOutages
        /\ outages' = outages + 1
        /\ Set(p, Ended("unconfirmed"))
  /\ UNCHANGED << remote, delayed >>
  /\ UnchangedJournal /\ UnchangedTables

\* reauthenticate_first_enrollment_postcondition: journal, tables and archive
\* still hold the first checkpoint of the newest transition and nothing else.
Postcheck(p) ==
  /\ worker[p].stage = "postcheck"
  /\ \/ /\ Set(p, Ended(IF /\ Tips(head) = [local |-> head, intents |-> 1, receipts |-> 1]
                           /\ intents[1].head = head
                           /\ remote = {Object(1)}
                        THEN "enrolled" ELSE "unconfirmed"))
        /\ UNCHANGED outages
     \/ /\ outages < MaxOutages
        /\ outages' = outages + 1
        /\ Set(p, Ended("unconfirmed"))
  /\ UNCHANGED << remote, delayed >>
  /\ UnchangedJournal /\ UnchangedTables

\* A call that only reads the archive is not answered.
Outage(p) ==
  /\ worker[p].stage \in {"audit", "recheck", "list", "settle", "doubt"}
  /\ outages < MaxOutages
  /\ outages' = outages + 1
  /\ Set(p, Transient(p))
  /\ UNCHANGED << remote, delayed >>
  /\ UnchangedJournal /\ UnchangedTables

Work(p) ==
  \/ Prime(p) \/ Begin(p) \/ Recover(p) \/ Prepare(p) \/ Audit(p) \/ Recheck(p)
  \/ Commit(p) \/ List(p) \/ Upload(p) \/ Settle(p) \/ Refresh(p) \/ Receipt(p)
  \/ Postcheck(p)

Next ==
  \/ \E p \in Process :
       \/ Work(p) \/ Register(p) \/ Probe(p) \/ Crash(p) \/ Outage(p)
       \/ \E r \in Operations : Operate(p, r)
  \/ \E o \in delayed : Land(o)

Spec == Init /\ [][Next]_vars

\* The background thread runs, and a restart is not needed to be anchored.
FairSpec == Spec /\ \A p \in Process : WF_vars(~overlap /\ Work(p))

-----------------------------------------------------------------------------
(* Properties *)

Attempt ==
  [stage : Stages, request : Requests, local : Nat, intents : Nat, receipts : Nat,
   complete : BOOLEAN, recovering : BOOLEAN, recovered : BOOLEAN,
   candidate : Records \cup {NoCandidate}, seen : Nat, audited : BOOLEAN]

\* Every variable keeps its type.
TypeOK ==
  /\ head \in 1..MaxHeads
  /\ owner \in Process \cup {"none"}
  /\ intents \in Seq(Records)
  /\ receipts \in Nat
  /\ remote \subseteq (Nat \X Records)
  /\ delayed \subseteq (Nat \X Records)
  /\ outages \in 0..MaxOutages
  /\ worker \in [Process -> Attempt]

\* Nothing reaches the archive, not even long after its call has failed, that
\* is not the committed intent of its sequence: no crash, retry or overlap of
\* processes lets two different objects claim one sequence
\* (commit_prepared_intent before _complete_candidate_upload).
NoFork ==
  \A o \in remote \cup delayed : o[1] \in DOMAIN intents /\ o[2] = intents[o[1]]

\* A receipt stands for an object the archive really holds, whoever uploaded it
\* and whichever process wrote the receipt
\* (confirm_remote_readback_from_snapshot).
ReceiptIsReadBack == \A i \in 1..receipts : Object(i) \in remote

\* The tables replay as _BoundedAnchorReplay demands: at most the last intent
\* lacks its receipt, each record names a later transition than the one before
\* it, and the enrollment comes first and only once.
ChainReplays ==
  /\ receipts \in {Len(intents), Len(intents) - 1}
  /\ \A i \in DOMAIN intents :
       /\ intents[i].head \in 1..head
       /\ i > 1 => intents[i - 1].head < intents[i].head
       /\ (intents[i].reason = Enrollment.reason) = (i = 1)

\* With one process at a time, whatever crashes, outages and late uploads its
\* predecessors left behind never look like a conflict to it: the fatal latch
\* is kept for histories the code did not write itself.
NeverConflicts == ~overlap => \A p \in Process : worker[p].stage # "conflict"

\* An operator told to recover finds an intent to recover
\* (TrustedTimeHeadAnchorFirstEnrollmentRecoveryRequired).
RecoveryHasIntent ==
  \A p \in Process : worker[p].stage = "recovery_required" => intents # << >>

\* A stop reported clean, and an enrollment reported complete, leave the newest
\* transition of the journal anchored and acknowledged
\* (_issue_current_clean_stop_terminal_result,
\* reauthenticate_first_enrollment_postcondition).
CoversHead ==
  [][\A p \in Process :
       (Running(p) /\ worker'[p].stage \in {"clean", "enrolled"}) =>
         receipts' > 0 /\ intents'[receipts'].head = head']_vars

\* The archive is the write-once list AnchorArchive promises.
Archive == INSTANCE AnchorArchive
             WITH Heads <- 1..MaxHeads, acknowledged <- receipts,
                  archive <- [i \in 1..Cardinality(remote) |-> intents[i].head]

\* Intents, uploads and receipts of all processes together implement it.
KeepsArchive == Archive!Spec

Anchored == IF receipts = 0 THEN 0 ELSE intents[receipts].head

\* Every transition is anchored in the end, unless the worker has stopped or
\* latched a failure: bounded outages and a journal that comes to rest never
\* leave the worker retrying forever.
EveryHeadAnchored ==
  \A h \in 1..MaxHeads :
    ~overlap /\ head >= h ~> (Anchored >= h \/ \A p \in Process : ~Running(p))

\* Intents, receipts and objects agree, whoever wrote them.
AnchorsAgree ==
  TypeOK /\ NoFork /\ ReceiptIsReadBack /\ ChainReplays /\ RecoveryHasIntent

\* They agree at all times, and a clean stop or an enrollment is reported only
\* when the newest head is anchored.
AnchorsHold == []AnchorsAgree /\ CoversHead
=============================================================================
