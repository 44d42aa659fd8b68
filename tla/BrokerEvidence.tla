---------------------------- MODULE BrokerEvidence ----------------------------
(***************************************************************************)
(* From a broker's answer to a retained decision: the four append-only     *)
(* chains of one account, and the workers that carry a lookup through      *)
(* them.                                                                   *)
(*                                                                         *)
(*   ingress    raw bytes, before they are decoded                         *)
(*              (packages/persistence/broker_ingress.py)                   *)
(*   lookups    authenticated lookup receipts                              *)
(*              (packages/persistence/alpaca_paper_lookup_observation.py)  *)
(*   facts      normalized reconciliation facts                            *)
(*              (packages/persistence/broker_reconciliation.py)            *)
(*   decisions  non-application decisions                                  *)
(*              (packages/persistence/broker_inbox.py)                     *)
(*                                                                         *)
(* Each append is a transaction of its own under the account's lock, so a  *)
(* worker may stop between any two; the next run resumes from the durable  *)
(* prefix (packages/application/alpaca_paper_unknown_recovery_pipeline.py).*)
(* Workers are processes: each reads its own clock, and they share only    *)
(* the database.  When a lookup is due, and which run may ask, is module   *)
(* UnknownRecovery's subject; here a run asks for the next one there is.   *)
(***************************************************************************)
EXTENDS Integers, Sequences, FiniteSets, FiniteSetsExt, SequencesExt

CONSTANTS
    Worker,       \* processes running the pipeline
    Of,           \* the submission attempt each worker recovers
    Answers,      \* what the broker may answer
    MaxLookups,   \* bound: lookups of one attempt
    Skew,         \* how far each worker's clock is ahead
    MaxTime,      \* bound: every clock
    MaxTroubles   \* bound: renewals of the account's lease and stopped workers

ASSUME EvidenceAssumption ==
    /\ Answers \subseteq {"order", "other_economics", "other_asset", "not_found", "undecodable"}
    /\ Skew \in [Worker -> Nat]
    /\ {MaxLookups, MaxTime, MaxTroubles} \subseteq Nat

VARIABLES
    now, revision, troubles,                \* time, lease revision, troubles so far
    ingress, lookups, facts, decisions,    \* the account's chains
    asked, attached,                       \* the schedule: dispatches, observations
    pc, pass, held, todo, seen             \* a run: step, accounting pass, lookup, observations

chains == <<ingress, lookups, facts, decisions>>
schedule == <<asked, attached>>
run == <<pc, pass, held, todo, seen>>
vars == <<now, revision, troubles, chains, schedule, run>>

Attempt == {Of[w] : w \in Worker}
Delivery == Attempt \X (1 .. MaxLookups)
NoLookup == [delivery |-> << >>, answer |-> "none", pre |-> 0, post |-> 0, authenticated |-> 0]

-----------------------------------------------------------------------------
(* _lookup_outcome: what an answer that decodes says.                       *)
LookupOutcome == [order |-> "found_matched", other_economics |-> "found_mismatch",
                  other_asset |-> "security_identity_mismatch",
                  not_found |-> "not_visible_inconclusive"]

(* _outcome, _require_closed_outcome                                        *)
ReconciliationOutcome ==
    [found_matched |-> "order_observed_candidate",
     found_mismatch |-> "quarantined_economic_mismatch",
     security_identity_mismatch |-> "quarantined_security_mismatch",
     not_visible_inconclusive |-> "inconclusive_not_visible"]

(* _expected_disposition                                                    *)
Disposition ==
    [order_observed_candidate |-> "withheld_unqualified_revision_identity",
     quarantined_economic_mismatch |-> "quarantined_economic_mismatch",
     quarantined_security_mismatch |-> "quarantined_security_mismatch",
     inconclusive_not_visible |-> "inconclusive_not_visible"]

-----------------------------------------------------------------------------
Clock(w) == Min({now + Skew[w], MaxTime})

RowsOf(chain, d) == {i \in DOMAIN chain : chain[i].delivery = d}
Has(chain, d) == RowsOf(chain, d) # {}
RowOf(chain, d) == chain[CHOOSE i \in RowsOf(chain, d) : TRUE]
StreamOf(a) == SelectSeq(lookups, LAMBDA r : r.delivery[1] = a)
NeverBack(chain) == \A i \in 1 .. Len(chain) - 1 : chain[i].at <= chain[i + 1].at

(* _validate_stream of one attempt's lookups, with the raw sources.         *)
LookupsVerify(a) ==
    LET stream == StreamOf(a)
    IN  /\ NeverBack(stream)
        /\ \A i \in 1 .. Len(stream) - 1 : stream[i].authenticated <= stream[i + 1].authenticated
        /\ \A i \in DOMAIN stream :
              LET r == stream[i]
              IN  /\ Has(ingress, r.delivery)
                  /\ RowOf(ingress, r.delivery).at <= r.authenticated
                  /\ r.authenticated <= r.at
                  /\ r.outcome = LookupOutcome[RowOf(ingress, r.delivery).answer]

(* _validate_history, _authenticate_durable_sources: the raw bytes are      *)
(* decoded again.                                                           *)
FactsVerify ==
    /\ NeverBack(facts)
    /\ \A i \in DOMAIN facts :
          LET d == facts[i].delivery
          IN  /\ Has(lookups, d) /\ Has(ingress, d)
              /\ RowOf(lookups, d).at <= facts[i].at
              /\ facts[i].outcome =
                    ReconciliationOutcome[LookupOutcome[RowOf(ingress, d).answer]]

(* _history, _authenticate_request_sources                                  *)
DecisionsVerify ==
    /\ NeverBack(decisions)
    /\ \A i \in DOMAIN decisions :
          LET d == decisions[i].delivery
          IN  /\ Has(facts, d)
              /\ RowOf(facts, d).at <= decisions[i].at
              /\ decisions[i].disposition = Disposition[RowOf(facts, d).outcome]

-----------------------------------------------------------------------------
Init ==
    /\ now = 0 /\ revision = 0 /\ troubles = 0
    /\ ingress = << >> /\ lookups = << >> /\ facts = << >> /\ decisions = << >>
    /\ asked = [a \in Attempt |-> 0]
    /\ attached = {}
    /\ pc = [w \in Worker |-> "idle"]
    /\ pass = [w \in Worker |-> "prefix"]
    /\ held = [w \in Worker |-> NoLookup]
    /\ todo = [w \in Worker |-> << >>]
    /\ seen = [w \in Worker |-> {}]

Tick ==
    /\ now < MaxTime
    /\ now' = now + 1
    /\ UNCHANGED <<revision, troubles, chains, schedule, run>>

(* The owner's heartbeat.                                                   *)
Renew ==
    /\ troubles < MaxTroubles
    /\ troubles' = troubles + 1
    /\ revision' = revision + 1
    /\ UNCHANGED <<now, chains, schedule, run>>

Goto(w, label) == pc' = [pc EXCEPT ![w] = label]

(* The run ends, with a result or with an exception.                        *)
Leave(w) ==
    /\ Goto(w, "idle")
    /\ pass' = [pass EXCEPT ![w] = "prefix"]
    /\ held' = [held EXCEPT ![w] = NoLookup]
    /\ todo' = [todo EXCEPT ![w] = << >>]
    /\ seen' = [seen EXCEPT ![w] = {}]

Crash(w) ==
    /\ troubles < MaxTroubles /\ pc[w] # "idle"
    /\ troubles' = troubles + 1
    /\ Leave(w)
    /\ UNCHANGED <<now, revision, chains, schedule>>

-----------------------------------------------------------------------------
(* Mutation: only the latest observation is looked at.                      *)
ObservationsLatest(a) ==
    {d \in attached : d[1] = a /\ \A e \in attached : e[1] = a => e[2] <= d[2]}

(* The observations of attempt a, in the order of their dispatches.         *)
Observations(a) == {d \in attached : d[1] = a}
InOrder(ds) == SetToSortSeq(ds, LAMBDA c, d : c[2] < d[2])

(* Receipts the schedule has not acknowledged; a receipt whose request and  *)
(* answer saw different revisions of the lease is refused.                  *)
Unacknowledged(a) == {i \in DOMAIN lookups : lookups[i].delivery[1] = a
                                             /\ lookups[i].delivery \notin attached}
Attachable(r) == r.pre = r.post

Begin(w) ==
    /\ pc[w] = "idle"
    /\ Goto(w, "repair")
    /\ UNCHANGED <<now, revision, troubles, chains, schedule, pass, held, todo, seen>>

(* _recover_unacknowledged_lookup_receipts, before the schedule step and    *)
(* after it: one receipt; and the progress reloaded when there is none.     *)
Repair(w) ==
    LET missing == Unacknowledged(Of[w])
        first == lookups[Min(missing)]
    IN  /\ pc[w] = "repair"
        /\ IF missing = {}
           THEN /\ seen' = [seen EXCEPT ![w] = Observations(Of[w])]
                /\ todo' = [todo EXCEPT ![w] = InOrder(Observations(Of[w]))]
                /\ Goto(w, "account")
                /\ UNCHANGED <<pass, held, attached>>
           ELSE IF Attachable(first)
           THEN attached' = attached \union {first.delivery} /\ UNCHANGED run
           ELSE Leave(w) /\ UNCHANGED attached
        /\ UNCHANGED <<now, revision, troubles, chains, asked>>

-----------------------------------------------------------------------------
(* The schedule step: the next lookup is dispatched, or there is none.      *)
Ask(w) ==
    LET a == Of[w]
    IN  /\ pc[w] = "evaluate"
        /\ IF asked[a] < MaxLookups
           THEN /\ asked' = [asked EXCEPT ![a] = @ + 1]
                /\ held' = [held EXCEPT ![w] = [NoLookup EXCEPT !.delivery = <<a, asked[a] + 1>>,
                                                                !.pre = revision]]
                /\ Goto(w, "transport")
           ELSE Goto(w, "repair") /\ UNCHANGED <<asked, held>>
        /\ pass' = [pass EXCEPT ![w] = "final"]
        /\ UNCHANGED <<now, revision, troubles, chains, attached, todo, seen>>

TransportFails(w) ==
    /\ pc[w] = "transport"
    /\ Leave(w)
    /\ UNCHANGED <<now, revision, troubles, chains, schedule>>

(* _persist_then_decode_lookup, SqlBrokerIngressRepository.record: the raw  *)
(* bytes are committed, whatever they are.                                  *)
Receive(w, answer) ==
    /\ pc[w] = "transport"
    /\ ingress' = Append(ingress, [delivery |-> held[w].delivery, answer |-> answer,
                                   at |-> Clock(w)])
    /\ held' = [held EXCEPT ![w].answer = answer]
    /\ Goto(w, "decode")
    /\ UNCHANGED <<now, revision, troubles, lookups, facts, decisions, schedule, pass, todo, seen>>

(* Decoding, and the checks after the answer: fence, attempt, account.      *)
Authenticate(w) ==
    /\ pc[w] = "decode"
    /\ IF held[w].answer \in DOMAIN LookupOutcome
       THEN /\ held' = [held EXCEPT ![w].post = revision, ![w].authenticated = Clock(w)]
            /\ Goto(w, "commit")
            /\ UNCHANGED <<pass, todo, seen>>
       ELSE Leave(w)
    /\ UNCHANGED <<now, revision, troubles, chains, schedule>>

(* SqlAlpacaPaperLookupObservationRepository.record: the lease is still the *)
(* one the answer was authenticated under, and the stream does not regress. *)
Committable(w) ==
    LET stream == StreamOf(Of[w])
    IN  /\ held[w].post = revision
        /\ stream # << >> => /\ Last(stream).authenticated <= held[w].authenticated
                             /\ Last(stream).at <= Clock(w)

Commit(w) ==
    /\ pc[w] = "commit"
    /\ IF Committable(w)
       THEN /\ lookups' = Append(lookups, [delivery |-> held[w].delivery,
                                           outcome |-> LookupOutcome[held[w].answer],
                                           pre |-> held[w].pre, post |-> held[w].post,
                                           authenticated |-> held[w].authenticated,
                                           at |-> Clock(w)])
            /\ Goto(w, "attach")
            /\ UNCHANGED <<pass, held, todo, seen>>
       ELSE Leave(w) /\ UNCHANGED lookups
    /\ UNCHANGED <<now, revision, troubles, ingress, facts, decisions, schedule>>

Attach(w) ==
    LET d == held[w].delivery
    IN  /\ pc[w] = "attach"
        /\ IF Attachable(RowOf(lookups, d))
           THEN /\ attached' = attached \union {d}
                /\ held' = [held EXCEPT ![w] = NoLookup]
                /\ Goto(w, "repair")
                /\ UNCHANGED <<pass, todo, seen>>
           ELSE Leave(w) /\ UNCHANGED attached
        /\ UNCHANGED <<now, revision, troubles, chains, asked>>

-----------------------------------------------------------------------------
(* Mutation: an observation whose fact exists is taken to be accounted.     *)
AccountedByFact(d) == Has(facts, d)

Accounted(d) == Has(facts, d) /\ Has(decisions, d)

(* _account_observation for the first observation to account: the crash-    *)
(* prefix read of each stage, then its transaction.  A run accounts once    *)
(* before the schedule step and once after it.                              *)
Account(w) ==
    /\ pc[w] = "account"
    /\ IF todo[w] = << >>
       THEN IF pass[w] = "final" THEN Leave(w)
            ELSE Goto(w, "evaluate") /\ UNCHANGED <<pass, held, todo, seen>>
       ELSE /\ LET d == Head(todo[w])
               IN  IF Accounted(d)
                   THEN todo' = [todo EXCEPT ![w] = Tail(@)] /\ UNCHANGED pc
                   ELSE /\ Goto(w, IF Has(facts, d) THEN "admit" ELSE "normalize")
                        /\ UNCHANGED todo
            /\ UNCHANGED <<pass, held, seen>>
    /\ UNCHANGED <<now, revision, troubles, chains, schedule>>

Follows(chain, source, t) == source.at <= t /\ (chain # << >> => Last(chain).at <= t)

(* SqlBrokerReconciliationRepository.record                                 *)
Normalize(w, d) ==
    IF Has(facts, d) THEN Goto(w, "admit") /\ UNCHANGED <<facts, pass, held, todo, seen>>
    ELSE IF FactsVerify /\ Follows(facts, RowOf(lookups, d), Clock(w))
    THEN /\ facts' = Append(facts, [delivery |-> d, at |-> Clock(w),
                                    outcome |-> ReconciliationOutcome[RowOf(lookups, d).outcome]])
         /\ Goto(w, "admit")
         /\ UNCHANGED <<pass, held, todo, seen>>
    ELSE Leave(w) /\ UNCHANGED facts

(* SqlBrokerInboxRepository.record                                          *)
Admit(w, d) ==
    IF Has(decisions, d) THEN Goto(w, "account") /\ UNCHANGED <<decisions, pass, held, todo, seen>>
    ELSE IF FactsVerify /\ DecisionsVerify /\ Follows(decisions, RowOf(facts, d), Clock(w))
    THEN /\ decisions' = Append(decisions, [delivery |-> d, at |-> Clock(w),
                                            disposition |-> Disposition[RowOf(facts, d).outcome]])
         /\ Goto(w, "account")
         /\ UNCHANGED <<pass, held, todo, seen>>
    ELSE Leave(w) /\ UNCHANGED decisions

RecordFact(w) ==
    /\ pc[w] = "normalize"
    /\ Normalize(w, Head(todo[w]))
    /\ UNCHANGED <<now, revision, troubles, ingress, lookups, decisions, schedule>>

RecordDecision(w) ==
    /\ pc[w] = "admit"
    /\ Admit(w, Head(todo[w]))
    /\ UNCHANGED <<now, revision, troubles, ingress, lookups, facts, schedule>>

-----------------------------------------------------------------------------
Step(w) ==
    \/ Begin(w)
    \/ Repair(w)
    \/ Ask(w)
    \/ TransportFails(w)
    \/ \E answer \in Answers : Receive(w, answer)
    \/ Authenticate(w)
    \/ Commit(w)
    \/ Attach(w)
    \/ Account(w)
    \/ RecordFact(w)
    \/ RecordDecision(w)

Next ==
    \/ Tick
    \/ Renew
    \/ \E w \in Worker : Crash(w) \/ Step(w)

Spec == Init /\ [][Next]_vars

(* Time passes, and every worker is started again and runs on.              *)
FairSpec == Spec /\ WF_vars(Tick) /\ \A w \in Worker : WF_vars(Step(w))

-----------------------------------------------------------------------------
TypeOK ==
    /\ attached \subseteq {lookups[i].delivery : i \in DOMAIN lookups}
    /\ \A d \in Delivery : Has(ingress, d) => d[2] <= asked[d[1]]
    /\ \A w \in Worker :
          /\ held[w] # NoLookup <=> pc[w] \in {"transport", "decode", "commit", "attach"}
          /\ ToSet(todo[w]) \subseteq seen[w]
          /\ seen[w] \subseteq attached

(* What the workers committed passes the authentication that every later    *)
(* read, write and start begins with: each chain runs forward in time, and  *)
(* each row follows from its raw source and is not older than it.           *)
ChainsVerify == (\A a \in Attempt : LookupsVerify(a)) /\ FactsVerify /\ DecisionsVerify

(* Two workers that find the same stage of the same lookup missing produce  *)
(* one row: ADR 0048, item 8, "Concurrent exact replay produces one fact".  *)
OneRowEach ==
    \A d \in Delivery : \A chain \in {ingress, lookups, facts, decisions} :
        Cardinality(RowsOf(chain, d)) <= 1

(* ADR 0069, item 7: the schedule step is invoked "only after that durable  *)
(* prefix is fully accounted", whoever recorded it and wherever the run     *)
(* that did stopped; and a run's result holds a decision for each           *)
(* observation.                                                             *)
PrefixAccounted ==
    \A w \in Worker :
        pc[w] \in {"account", "evaluate"} =>
            \A d \in seen[w] \ ToSet(todo[w]) : Has(facts, d) /\ Has(decisions, d)

(* The durable prefix is sound: its chains verify, each stage of a lookup   *)
(* has one row, and the schedule step is only reached over accounted        *)
(* observations.                                                            *)
PrefixIsSound == TypeOK /\ ChainsVerify /\ OneRowEach /\ PrefixAccounted

(* An observation the schedule holds ends in a decision, although workers   *)
(* stop, raise when a faster clock has appended before them, and start      *)
(* again; unless a receipt of its attempt can never be attached, on which   *)
(* every later run raises first.                                            *)
Blocked(a) == \E i \in Unacknowledged(a) : ~Attachable(lookups[i])
EveryObservationDecided ==
    \A d \in Delivery : d \in attached ~> Has(decisions, d) \/ Blocked(d[1])

=============================================================================
