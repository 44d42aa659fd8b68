------------------------ MODULE ReservationLifecycle ------------------------
(***************************************************************************)
(* How the capacity an approved batch reserved is released again           *)
(* (packages/persistence/reservation_lifecycle.py and its domain module).  *)
(* Each child order of the batch has its authorized quantity reserved,     *)
(* plus a fee allowance.  Capacity returns through append-only release     *)
(* facts: the order expired unsent, was rejected, was executed and the     *)
(* execution accounted in the ledger, or its simulation ended.  Executions *)
(* may be corrected by the broker afterwards.                              *)
(*                                                                         *)
(* Every transaction first replays the whole release history against the   *)
(* attempts and order events it was written from; Verifies is that replay. *)
(* A handler whose caller stamps it earlier than the evidence it brings    *)
(* is possible when Lag > 0.                                               *)
(***************************************************************************)
EXTENDS OrderReducer

CONSTANTS
    Auth,       \* authorizations (child orders) of the batch
    Fee,        \* maximum_fee, reserved in cash beside the shares
    Lag,        \* by how much recorded_at may lie in the past
    MaxEvents,  \* bound: broker events of the batch
    MaxTime     \* bound: clock

ASSUME CapacityAssumption == {Fee, Lag, MaxEvents, MaxTime} \subseteq Nat

VARIABLES
    now,       \* trusted clock
    observed,  \* updated_at of the account coordinator's head
    attempt,   \* state of the latest submission attempt of each child
    broker,    \* events received from the broker, by order
    durable,   \* how many of them are persisted
    ledger,    \* persisted ledger entries, one per execution event
    history,   \* release facts
    head       \* the reservation row: state and remaining counters

vars == <<now, observed, attempt, broker, durable, ledger, history, head>>

Reserved == Quantity + Fee
IsExecution(e) == e.kind \in {"execution", "execution_correction"}

-----------------------------------------------------------------------------
(* Release facts.                                                           *)
FactsOf(h, a) == {i \in DOMAIN h : h[i].auth = a}
SumOver(S, value(_)) == FoldSet(LAMBDA i, sum : sum + value(i), 0, S)
Released(h, a) == SumOver(FactsOf(h, a), LAMBDA i : h[i].released)
Remaining(h, a) == Reserved - Released(h, a)

AccountedFacts(h, a, x) ==
    {i \in FactsOf(h, a) : h[i].reason = "execution_accounted" /\ h[i].execution = x}
Accounted(h, a, x) == SumOver(AccountedFacts(h, a, x), LAMBDA i : h[i].accounted)

Unknown == {a \in Auth : attempt[a] = "unknown"}

(* project_reservation_capacity: what it refuses, and what it returns.      *)
Consistent(h, unknown) ==
    /\ \A i \in DOMAIN h :
          LET f == h[i]
              prior == SubSeq(h, 1, i - 1)
          IN  IF f.reason = "execution_accounted"
              THEN /\ \A j \in AccountedFacts(prior, f.auth, f.execution) :
                         h[j].revision < f.revision
                   /\ f.quantity = Accounted(prior, f.auth, f.execution) + f.accounted
                   /\ f.released = f.accounted
                   /\ SumOver(FactsOf(prior, f.auth), LAMBDA j : h[j].accounted) + f.accounted
                        <= Quantity
                   /\ f.released <= Remaining(prior, f.auth)
              ELSE /\ f.released = Remaining(prior, f.auth)
                   /\ f.reason # "simulation_horizon_final" => FactsOf(prior, f.auth) = {}
    /\ \A a \in unknown : FactsOf(h, a) = {}

Projection(h, unknown) ==
    [state |-> IF unknown # {} THEN "frozen"
               ELSE IF \A a \in Auth : Remaining(h, a) = 0 THEN "released"
               ELSE IF h # << >> THEN "partially_released" ELSE "active",
     count |-> Cardinality({a \in Auth : Remaining(h, a) > 0}),
     remaining |-> SumOver(Auth, LAMBDA a : Remaining(h, a))]

-----------------------------------------------------------------------------
(* Order events.                                                            *)
Persisted(events, n, a) == SubSeq(events[a], 1, n[a])
Predecessor(e, events) == events[e.supersedes]

(* Mutation: only the state the order has now is possible.                  *)
PossibleNow(f, n) == f.event <= f.seen /\ f.seen = n[f.auth]

(* _possible_order_state_digests: the fact was written from a durable       *)
(* prefix that holds its event and that was received by then.               *)
Possible(f, n) ==
    /\ f.event <= f.seen /\ f.seen <= n[f.auth]
    /\ broker[f.auth][f.seen].received <= f.recorded

(* _authenticate_correction_accounting_order                                *)
FollowsPredecessor(h, i, events) ==
    LET f == h[i]
        p == Predecessor(events[f.event], events)
        prior == AccountedFacts(SubSeq(h, 1, i - 1), f.auth, f.execution)
    IN  /\ Cardinality({j \in prior : h[j].event = p.sequence}) = 1
        /\ \A j \in prior : h[j].revision <= p.revision
        /\ SumOver(prior, LAMBDA j : h[j].accounted) = p.quantity
        /\ f.accounted = events[f.event].quantity - p.quantity
        /\ f.accounted > 0

(* _verify_broker_effect_release_integrity.  Expiry facts are replayed in   *)
(* module ExpiryReplay.                                                     *)
Integrity(h, n) ==
    \A i \in DOMAIN h :
        LET f == h[i]
            events == Persisted(broker, n, f.auth)
        IN  f.reason # "approval_expired_unsent" =>
                /\ attempt[f.auth] = "confirmed"
                /\ Possible(f, n)
                /\ f.reason = "broker_rejected" =>
                      events[f.event].kind = "rejected" /\ f.event = Len(events)
                /\ f.reason = "execution_accounted" =>
                      /\ IsExecution(events[f.event])
                      /\ f.quantity = events[f.event].quantity

(* _is_exact_correction_closure: of two outcomes that are not "no".         *)
Closes(f, c, a) == f.auth = a /\ f.reason = "simulation_horizon_final" /\ f.recorded >= c.received
ClosureFails(f, c, a, n) == Closes(f, c, a) /\ (f.event < c.sequence \/ ~Possible(f, n))

Corrections(n, a) ==
    {i \in 1 .. n[a] : broker[a][i].kind = "execution_correction"}
AccountingOf(h, a, i) ==
    {j \in FactsOf(h, a) : h[j].reason = "execution_accounted" /\ h[j].event = i}

(* Mutation: the comparison is turned round.                                *)
UnsafeIfGrown(a, i) == broker[a][i].quantity >= Predecessor(broker[a][i], broker[a]).quantity

Unsafe(a, i) == broker[a][i].quantity <= Predecessor(broker[a][i], broker[a]).quantity

(* _correction_freeze_material: whether it raises, and the corrections that *)
(* took shares back, are not accounted and not closed.                      *)
MaterialFails(h, n) ==
    \E a \in Auth : \E i \in Corrections(n, a) :
        \/ Cardinality(AccountingOf(h, a, i)) > 1
        \/ \E j \in AccountingOf(h, a, i) : ~FollowsPredecessor(h, j, broker[a])
        \/ /\ Unsafe(a, i) /\ AccountingOf(h, a, i) = {}
           /\ \E j \in DOMAIN h : ClosureFails(h[j], broker[a][i], a, n)

Material(h, n) ==
    {<<a, i>> \in Auth \X (1 .. MaxEvents) :
        /\ i \in Corrections(n, a)
        /\ Unsafe(a, i)
        /\ AccountingOf(h, a, i) = {}
        /\ \A j \in DOMAIN h : ~Closes(h[j], broker[a][i], a)}

(* _snapshot_from_head                                                      *)
HeadAgrees ==
    LET projection == Projection(history, Unknown)
    IN  /\ head.count = projection.count
        /\ head.remaining = projection.remaining
        /\ head.state = IF Material(history, durable) # {} /\ projection.state # "released"
                        THEN "frozen" ELSE projection.state
        /\ Unknown # {} <=> projection.state = "frozen"

(* _lifecycle_from_locked_row                                               *)
Verifies ==
    /\ Integrity(history, durable)
    /\ Consistent(history, Unknown)
    /\ ~MaterialFails(history, durable)
    /\ HeadAgrees

-----------------------------------------------------------------------------
Init ==
    /\ now = 1
    /\ observed = 1
    /\ attempt = [a \in Auth |-> "unsent"]
    /\ broker = [a \in Auth |-> << >>]
    /\ durable = [a \in Auth |-> 0]
    /\ ledger = {}
    /\ history = << >>
    /\ head = Projection(<< >>, {})

Tick ==
    /\ now < MaxTime
    /\ now' = now + 1
    /\ UNCHANGED <<observed, attempt, broker, durable, ledger, history, head>>

(* Any other transaction on the account, a retry of a recorded release      *)
(* included: the coordinator's head is advanced to the clock.               *)
Observe ==
    /\ observed' = now
    /\ UNCHANGED <<now, attempt, broker, durable, ledger, history, head>>

(* The broker reports an event; the process receives it now.                *)
Receive(a, kind, x, quantity) ==
    LET sequence == Len(broker[a]) + 1
        execution == kind \in {"execution", "execution_correction"}
        previous == Fold(broker[a], NoCancel).heads[x]
        correction == kind = "execution_correction" /\ previous # NoEvent
        event == [id |-> sequence, sequence |-> sequence, kind |-> kind,
                  execution |-> IF execution THEN x ELSE "none",
                  revision |-> IF correction THEN previous.revision + 1 ELSE 1,
                  supersedes |-> IF correction THEN previous.id ELSE 0,
                  quantity |-> IF execution THEN quantity ELSE 0,
                  occurred |-> now, received |-> now]
    IN  /\ attempt[a] # "unsent"
        /\ SumOver(Auth, LAMBDA b : Len(broker[b])) < MaxEvents
        /\ kind = "execution" => quantity > 0
        /\ State(Append(broker[a], event), NoCancel) # Invalid
        /\ broker' = [broker EXCEPT ![a] = Append(@, event)]
        /\ UNCHANGED <<now, observed, attempt, durable, ledger, history, head>>

(* The submission attempts, in the detail this component tells apart        *)
(* (module SubmissionAttempt).                                              *)
Dispatch(a) ==
    /\ attempt[a] = "unsent"
    /\ head.state # "released"
    /\ Unknown = {} /\ Material(history, durable) = {}
    /\ Remaining(history, a) > 0
    /\ attempt' = [attempt EXCEPT ![a] = "in_flight"]
    /\ UNCHANGED <<now, observed, broker, durable, ledger, history, head>>

Settle(a, outcome) ==
    /\ attempt[a] = "in_flight"
    /\ head.state # "released"
    /\ attempt' = [attempt EXCEPT ![a] = outcome]
    /\ head' = [head EXCEPT !.state = IF outcome = "unknown" THEN "frozen" ELSE @]
    /\ UNCHANGED <<now, observed, broker, durable, ledger, history>>

-----------------------------------------------------------------------------
(* _lock: the instants a caller may have recorded a fact at, and the        *)
(* verification of the whole history under the lock.                        *)
Recordable == {recorded \in observed .. now : now - recorded <= Lag}

Lock ==
    /\ Verifies
    /\ observed' = now
    /\ UNCHANGED <<now, attempt, broker>>

(* Mutation: a correction that took shares back does not stop a release.    *)
MutableDespiteCorrection ==
    /\ Unknown = {}
    /\ head.state # "released"

_require_mutable ==
    /\ Unknown = {}
    /\ Material(history, durable) = {}
    /\ head.state # "released"

(* _persist_order_state: the caller's order state must extend what is       *)
(* durable; the first k events are durable afterwards.                      *)
Persist(a, k) == [durable EXCEPT ![a] = k]
Extends(a, k) == k \in durable[a] .. Len(broker[a])

(* _insert_release, the head's update and its re-reading included.          *)
_insert_release(fact, n) ==
    LET h == Append(history, fact)
    IN  /\ history # << >> => fact.recorded >= Last(history).recorded
        /\ Consistent(h, {})
        /\ ~MaterialFails(h, n)
        /\ Material(h, n) # {} => Projection(h, {}).state = "released"
        /\ history' = h
        /\ head' = Projection(h, {})

TerminalFact(a, reason, k, recorded) ==
    [auth |-> a, reason |-> reason, event |-> k, seen |-> k, execution |-> "none",
     revision |-> 0, quantity |-> 0, accounted |-> 0,
     released |-> Remaining(history, a), recorded |-> recorded]

expire_unsent(a, recorded) ==
    /\ attempt[a] = "unsent"
    /\ _require_mutable
    /\ Remaining(history, a) > 0
    /\ Lock
    /\ _insert_release(TerminalFact(a, "approval_expired_unsent", 0, recorded), durable)
    /\ UNCHANGED <<durable, ledger>>

broker_rejected(a, k, recorded) ==
    /\ attempt[a] = "confirmed"
    /\ Extends(a, k) /\ k > 0
    /\ broker[a][k].received <= recorded
    /\ State(SubSeq(broker[a], 1, k), NoCancel).status = "rejected"
    /\ _require_mutable
    /\ Remaining(history, a) > 0
    /\ Lock
    /\ durable' = Persist(a, k)
    /\ _insert_release(TerminalFact(a, "broker_rejected", k, recorded), durable')
    /\ UNCHANGED ledger

(* _require_simulation_execution_coverage                                   *)
Covered(a, k) ==
    LET heads == Fold(SubSeq(broker[a], 1, k), NoCancel).heads
    IN  \A x \in Execution : heads[x] # NoEvent =>
            /\ Accounted(history, a, x) = heads[x].quantity
            /\ Cardinality(AccountingOf(history, a, heads[x].sequence)) = 1
            /\ \A j \in AccountedFacts(history, a, x) : <<a, history[j].event>> \in ledger

simulation_horizon_final(a, k, recorded) ==
    /\ attempt[a] = "confirmed"
    /\ Extends(a, k) /\ k > 0
    /\ broker[a][k].received <= recorded
    /\ Covered(a, k)
    /\ _require_mutable
    /\ Remaining(history, a) > 0
    /\ Lock
    /\ durable' = Persist(a, k)
    /\ _insert_release(TerminalFact(a, "simulation_horizon_final", k, recorded), durable')
    /\ UNCHANGED ledger

-----------------------------------------------------------------------------
(* Accounting an execution.  An execution event that changes the quantity   *)
(* has a ledger entry; a correction to the same quantity has none.          *)
HasEntry(a, i) ==
    broker[a][i].kind = "execution_correction" =>
        broker[a][i].quantity # Predecessor(broker[a][i], broker[a]).quantity

Chain(a, k, x) ==
    {i \in 1 .. k : IsExecution(broker[a][i]) /\ broker[a][i].execution = x /\ HasEntry(a, i)}

(* record_execution_accounted_release: the current revision, after exactly  *)
(* its predecessor has been accounted, and for more shares.                 *)
Baseline(a, i) ==
    LET e == broker[a][i]
        facts == AccountedFacts(history, a, e.execution)
        p == Predecessor(e, broker[a])
    IN  IF e.kind = "execution"
        THEN facts = {}
        ELSE /\ Cardinality(AccountingOf(history, a, p.sequence)) = 1
             /\ \A j \in facts : history[j].revision <= p.revision
             /\ Accounted(history, a, e.execution) = p.quantity

Delta(a, i) ==
    broker[a][i].quantity
        - IF broker[a][i].kind = "execution" THEN 0 ELSE Predecessor(broker[a][i], broker[a]).quantity

AccountExecution(a, k, i, recorded) ==
    LET e == broker[a][i]
    IN  /\ Extends(a, k) /\ i \in 1 .. k /\ IsExecution(e)
        /\ attempt[a] = "confirmed"
        /\ AccountingOf(history, a, i) = {}
        /\ HasEntry(a, i) /\ e.received <= recorded
        /\ _require_mutable
        /\ durable' = Persist(a, k)
        /\ ~MaterialFails(history, durable') /\ Material(history, durable') = {}
        /\ Lock
        /\ Fold(SubSeq(broker[a], 1, k), NoCancel).heads[e.execution] = e
        /\ Baseline(a, i) /\ Delta(a, i) > 0
        /\ ledger' = ledger \union {<<a, i>>}
        /\ _insert_release([auth |-> a, reason |-> "execution_accounted", event |-> i, seen |-> k,
                            execution |-> e.execution, revision |-> e.revision,
                            quantity |-> e.quantity, accounted |-> Delta(a, i),
                            released |-> Delta(a, i), recorded |-> recorded], durable')

(* _unsafe_correction_accounting_is_complete                                *)
Completes(a, k, i) ==
    /\ HasEntry(a, i)
    /\ \A j \in Chain(a, k, broker[a][i].execution) \ {i} : <<a, j>> \in ledger

(* _freeze_for_correction                                                   *)
Frozen(state) == IF state = "released" THEN state ELSE "frozen"

(* A correction took shares back: the order events stay durable, the ledger *)
(* may be completed, nothing is released and the reservation is frozen.     *)
FreezeForCorrection(a, k, i, recorded) ==
    LET e == broker[a][i]
        chain == Chain(a, k, e.execution)
        persisted == {j \in chain : <<a, j>> \in ledger}
    IN  /\ Extends(a, k) /\ i \in 1 .. k /\ IsExecution(e)
        /\ durable' = Persist(a, k)
        /\ ~MaterialFails(history, durable') /\ Material(history, durable') # {}
        /\ Lock
        /\ \/ /\ Completes(a, k, i) /\ e.received <= recorded
              /\ ledger' = ledger \union {<<a, i>>}
           \/ /\ ~Completes(a, k, i) /\ persisted \in {{}, chain}
              /\ UNCHANGED ledger
        /\ head' = [head EXCEPT !.state = Frozen(@)]
        /\ UNCHANGED history

execution_accounted(a, k, i, recorded) ==
    AccountExecution(a, k, i, recorded) \/ FreezeForCorrection(a, k, i, recorded)

-----------------------------------------------------------------------------
Kind == {"accepted", "rejected", "execution", "execution_correction"}

Next ==
    \/ Tick
    \/ Observe
    \/ \E a \in Auth, kind \in Kind, x \in Execution, quantity \in 0 .. Quantity :
          Receive(a, kind, x, quantity)
    \/ \E a \in Auth : Dispatch(a)
    \/ \E a \in Auth, outcome \in {"confirmed", "unknown"} : Settle(a, outcome)
    \/ \E a \in Auth, recorded \in Recordable : expire_unsent(a, recorded)
    \/ \E a \in Auth, k \in 1 .. MaxEvents, recorded \in Recordable : broker_rejected(a, k, recorded)
    \/ \E a \in Auth, k \in 1 .. MaxEvents, recorded \in Recordable :
          simulation_horizon_final(a, k, recorded)
    \/ \E a \in Auth, k \in 1 .. MaxEvents, i \in 1 .. MaxEvents, recorded \in Recordable :
          i <= Len(broker[a]) /\ execution_accounted(a, k, i, recorded)

Spec == Init /\ [][Next]_vars

-----------------------------------------------------------------------------
(* The reservation row, its facts and the persisted prefixes have their     *)
(* types; no child releases more than was reserved for it.                  *)
TypeOK ==
    /\ observed \in 1 .. now
    /\ attempt \in [Auth -> {"unsent", "in_flight", "confirmed", "unknown"}]
    /\ \A a \in Auth : durable[a] \in 0 .. Len(broker[a]) /\ Remaining(history, a) \in 0 .. Reserved
    /\ \A entry \in ledger : entry[2] \in 1 .. durable[entry[1]]
    /\ head.state \in {"active", "partially_released", "frozen", "released"}

(* Whatever the handlers committed passes the replay the next transaction   *)
(* starts with (_lifecycle_from_locked_row); otherwise the reservation      *)
(* could not be touched again.                                              *)
HistoryVerifies == TypeOK /\ Verifies

(* No child has more shares accounted than its durable executions, as       *)
(* corrected, filled, unless the reservation is frozen or was already       *)
(* released in full.                                                        *)
AccountedIsFilled ==
    \/ head.state \in {"frozen", "released"}
    \/ \A a \in Auth, x \in Execution :
          Accounted(history, a, x)
              <= Fold(Persisted(broker, durable, a), NoCancel).heads[x].quantity

(* An entry of the execution ledger is never persisted before the entries   *)
(* of the earlier revisions of its execution, in quarantine either.         *)
LedgerChainsComplete ==
    \A a \in Auth : \A i \in 1 .. durable[a] :
        <<a, i>> \in ledger =>
            \A j \in Chain(a, i, broker[a][i].execution) : <<a, j>> \in ledger

(* Releases, broker executions and execution ledger agree in both respects. *)
AccountsAgree == AccountedIsFilled /\ LedgerChainsComplete

(* While an attempt is UNKNOWN or a correction took shares back, no capacity *)
(* is released and the reservation stays frozen, or released.               *)
FreezeBlocksRelease ==
    [][Unknown # {} \/ Material(history, durable) # {} =>
          history' = history /\ head'.state \in {"frozen", "released"}]_vars
=============================================================================
