------------------------- MODULE SubmissionAttempt -------------------------
(***************************************************************************)
(* The submission attempts of one approved parent batch, as the SQL        *)
(* repository of packages/persistence/submission_attempt.py keeps them,    *)
(* with the lifecycle of packages/domain/submission_attempt.py, the state  *)
(* of the parent reservation, and the dispatchers that place orders        *)
(* through FencedBrokerPort.                                               *)
(*                                                                         *)
(* Every repository method is one transaction that locks the account head, *)
(* so it is one action and waits while a fenced effect holds that lock.    *)
(* The account head itself is the FencedOwnership that AccountCoordinator  *)
(* is proved to implement.                                                 *)
(*                                                                         *)
(* Instants are left out: they are supplied by callers, and whether an     *)
(* approval has expired or an event is stale at such an instant is a free  *)
(* choice here, so a guard on an instant may pass or fail in any state.    *)
(* The advanced-risk admission check may pass or fail likewise.  A method  *)
(* that raises rolls back and is a stuttering step.                        *)
(***************************************************************************)
EXTENDS Integers

CONSTANTS
    Auth,           \* authorizations (one logical order each) of the batch
    Worker,         \* dispatchers
    Owner, NoOwner, \* owners of the account, as in FencedOwnership
    MaxAttempts,    \* bound: attempts per logical order
    MaxGeneration   \* bound: fencing generations

ASSUME AttemptAssumption == MaxAttempts \in Nat \ {0}
ASSUME GenerationAssumption == MaxGeneration \in Nat
ASSUME OwnerAssumption == NoOwner \notin Owner

VARIABLES
    generation, owner, lapsed, running,  \* the account head
    attempt,      \* state of the last event of each attempt, "none" if not prepared
    prepared,     \* fencing generation an attempt was prepared under
    reservation,  \* phase2_batch_reservations.state, "none" before approval
    authorized,   \* fencing generation of the batch authorizations
    released,     \* authorizations whose whole capacity has been released
    corrected,    \* a non-monotone execution correction is durable
    dispatch,     \* what each dispatcher is doing
    scan,         \* the candidates of a running recovery transaction
    calls         \* calls of the broker adapter made for each attempt

fenceVars == <<generation, owner, lapsed, running>>
attemptVars == <<attempt, prepared>>
parentVars == <<reservation, authorized, released, corrected>>
vars == <<fenceVars, attemptVars, parentVars, dispatch, scan, calls>>

Account == INSTANCE FencedOwnership

Number == 1 .. MaxAttempts
Slot == Auth \X Number

AttemptState == {"pending", "in_flight", "abandoned", "confirmed", "unknown"}

Idle == [pc |-> "idle"]
At(pc, s) == [pc |-> pc, slot |-> s]

NoScan == [state |-> "none", slots |-> {}]

-----------------------------------------------------------------------------
(* revalidate_in_transaction succeeds for the current generation g only.    *)
Fenced(g) ==
    /\ owner # NoOwner
    /\ ~lapsed
    /\ running = {}
    /\ g = generation

(* lock_account_capacity_serialization needs the head row, not the fence.   *)
Serialized == generation > 0 /\ running = {}

unknown_attempts == {s \in Slot : attempt[s] = "unknown"}

(* _assert_freeze_consistency, which every method evaluates before it acts. *)
FreezeConsistent ==
    /\ unknown_attempts # {} => reservation = "frozen"
    /\ corrected => reservation \in {"frozen", "released"}
    /\ reservation = "frozen" => unknown_attempts # {} \/ corrected

(* The next attempt number of an order and the blind-resubmission rule:     *)
(* every earlier attempt must be provably unsent.                           *)
NextAttempt(a, n) ==
    /\ attempt[<<a, n>>] = "none"
    /\ \A m \in 1 .. n - 1 : attempt[<<a, m>>] # "none"

(* Mutation: an attempt in flight may be retried.                           *)
MayResubmitBlindly(s) == attempt[s] \in {"abandoned", "in_flight"}

may_resubmit(s) == attempt[s] = "abandoned"

-----------------------------------------------------------------------------
Init ==
    /\ Account!Init
    /\ attempt = [s \in Slot |-> "none"]
    /\ prepared = [s \in Slot |-> 0]
    /\ reservation = "none"
    /\ authorized = 0
    /\ released = {}
    /\ corrected = FALSE
    /\ dispatch = [w \in Worker |-> Idle]
    /\ scan = NoScan
    /\ calls = [s \in Slot |-> 0]

(* The account changes hands, is given back or lapses.                      *)
AccountStep ==
    /\ \/ \E o \in Owner : generation < MaxGeneration /\ Account!Grant(o)
       \/ Account!Surrender
       \/ Account!Lapse
    /\ UNCHANGED <<attemptVars, parentVars, dispatch, scan, calls>>

(* The batch decision, its authorizations and its reservation are recorded. *)
Approve ==
    /\ reservation = "none"
    /\ Fenced(generation)
    /\ reservation' = "active"
    /\ authorized' = generation
    /\ UNCHANGED <<fenceVars, attemptVars, released, corrected, dispatch, scan, calls>>

prepare(a, n, g) ==
    /\ Fenced(g)
    /\ reservation \in {"active", "partially_released", "frozen"}
    /\ FreezeConsistent
    /\ ~corrected
    /\ a \notin released
    /\ unknown_attempts = {}
    /\ NextAttempt(a, n)
    /\ n > 1 => may_resubmit(<<a, n - 1>>)
    /\ n = 1 => g = authorized
    /\ attempt' = [attempt EXCEPT ![<<a, n>>] = "pending"]
    /\ prepared' = [prepared EXCEPT ![<<a, n>>] = g]
    /\ UNCHANGED <<fenceVars, parentVars, dispatch, scan, calls>>

(* Mutation: the UNKNOWN barrier of the parent batch is not consulted.       *)
MarkInFlightPastBarrier(w, s, g) ==
    /\ dispatch[w] = Idle
    /\ Fenced(g)
    /\ FreezeConsistent
    /\ g = prepared[s]
    /\ reservation # "released"
    /\ ~corrected
    /\ s[1] \notin released
    /\ attempt[s] = "pending"
    /\ attempt' = [attempt EXCEPT ![s] = "in_flight"]
    /\ dispatch' = [dispatch EXCEPT ![w] = At("cleared", s)]
    /\ UNCHANGED <<fenceVars, prepared, parentVars, scan, calls>>

(* A dispatcher, idle or restarted, makes IN_FLIGHT durable before it may    *)
(* call the broker.                                                          *)
mark_in_flight(w, s, g) ==
    /\ dispatch[w] = Idle
    /\ Fenced(g)
    /\ FreezeConsistent
    /\ g = prepared[s]
    /\ reservation # "released"
    /\ unknown_attempts = {}
    /\ ~corrected
    /\ s[1] \notin released
    /\ attempt[s] = "pending"
    /\ attempt' = [attempt EXCEPT ![s] = "in_flight"]
    /\ dispatch' = [dispatch EXCEPT ![w] = At("cleared", s)]
    /\ UNCHANGED <<fenceVars, prepared, parentVars, scan, calls>>

(* Mutation: the call is made under whatever fence is current.               *)
SubmitUnderAnyFence(w) ==
    /\ dispatch[w].pc = "cleared"
    /\ Account!Begin
    /\ calls' = [calls EXCEPT ![dispatch[w].slot] = @ + 1]
    /\ dispatch' = [dispatch EXCEPT ![w] = At("calling", dispatch[w].slot)]
    /\ UNCHANGED <<attemptVars, parentVars, scan>>

(* FencedBrokerPort.submit inside run_fenced: the adapter is called while    *)
(* the head stays locked.  From here on the order may exist at the broker.   *)
submit(w) ==
    /\ dispatch[w].pc = "cleared"
    /\ Fenced(prepared[dispatch[w].slot])
    /\ Account!Begin
    /\ calls' = [calls EXCEPT ![dispatch[w].slot] = @ + 1]
    /\ dispatch' = [dispatch EXCEPT ![w] = At("calling", dispatch[w].slot)]
    /\ UNCHANGED <<attemptVars, parentVars, scan>>

(* run_fenced refuses a fence that is no longer current: no call is made.   *)
SubmitRefused(w) ==
    /\ dispatch[w].pc = "cleared"
    /\ running = {}
    /\ ~Fenced(prepared[dispatch[w].slot])
    /\ dispatch' = [dispatch EXCEPT ![w] = At("failed", dispatch[w].slot)]
    /\ UNCHANGED <<fenceVars, attemptVars, parentVars, scan, calls>>

(* The call returns with a broker order id, or raises or times out.         *)
SubmitReturns(w, pc) ==
    /\ dispatch[w].pc = "calling"
    /\ pc \in {"answered", "failed"}
    /\ Account!End
    /\ dispatch' = [dispatch EXCEPT ![w] = At(pc, dispatch[w].slot)]
    /\ UNCHANGED <<attemptVars, parentVars, scan, calls>>

(* _append_outcome: an outcome is recorded without the fence, unless the    *)
(* reservation is released or the attempt is no longer IN_FLIGHT.           *)
OutcomeAccepted(s) ==
    /\ Serialized
    /\ FreezeConsistent
    /\ reservation # "released"
    /\ attempt[s] = "in_flight"

confirm(w) ==
    LET s == dispatch[w].slot
    IN  /\ dispatch[w].pc = "answered"
        /\ OutcomeAccepted(s)
        /\ attempt' = [attempt EXCEPT ![s] = "confirmed"]
        /\ dispatch' = [dispatch EXCEPT ![w] = Idle]
        /\ UNCHANGED <<fenceVars, prepared, parentVars, scan, calls>>

mark_unknown(w) ==
    LET s == dispatch[w].slot
    IN  /\ dispatch[w].pc = "failed"
        /\ OutcomeAccepted(s)
        /\ attempt' = [attempt EXCEPT ![s] = "unknown"]
        /\ reservation' = "frozen"
        /\ dispatch' = [dispatch EXCEPT ![w] = Idle]
        /\ UNCHANGED <<fenceVars, prepared, authorized, released, corrected, scan, calls>>

(* The outcome came too late: recovery recorded UNKNOWN first and the        *)
(* reducer refuses any transition from it.                                   *)
OutcomeRefused(w) ==
    /\ dispatch[w].pc \in {"answered", "failed"}
    /\ Serialized
    /\ ~OutcomeAccepted(dispatch[w].slot)
    /\ dispatch' = [dispatch EXCEPT ![w] = Idle]
    /\ UNCHANGED <<fenceVars, attemptVars, parentVars, scan, calls>>

(* A dispatcher dies.  An open run_fenced transaction is rolled back, the    *)
(* request it had sent is not.                                               *)
Crash(w) ==
    /\ dispatch[w] # Idle
    /\ IF dispatch[w].pc = "calling" THEN Account!End ELSE UNCHANGED fenceVars
    /\ dispatch' = [dispatch EXCEPT ![w] = Idle]
    /\ UNCHANGED <<attemptVars, parentVars, scan, calls>>

-----------------------------------------------------------------------------
(* recover_stale_pending and recover_stale_in_flight read their candidates   *)
(* before they lock the account.                                             *)
RecoverScan(state, slots) ==
    /\ scan = NoScan
    /\ slots # {}
    /\ \A s \in slots : attempt[s] = state
    /\ scan' = [state |-> state, slots |-> slots]
    /\ UNCHANGED <<fenceVars, attemptVars, parentVars, dispatch, calls>>

(* Mutation: candidates are not read again under the lock.                   *)
ScannedCandidates == scan.slots

(* Under the lock a candidate that has moved on is skipped; one candidate    *)
(* under a released reservation would abort the whole batch.                 *)
StillCandidates == {s \in scan.slots : attempt[s] = scan.state}

recover_stale_pending ==
    /\ scan.state = "pending"
    /\ Serialized
    /\ FreezeConsistent
    /\ StillCandidates # {} => reservation # "released"
    /\ attempt' = [s \in Slot |-> IF s \in StillCandidates THEN "abandoned" ELSE attempt[s]]
    /\ scan' = NoScan
    /\ UNCHANGED <<fenceVars, prepared, parentVars, dispatch, calls>>

recover_stale_in_flight ==
    /\ scan.state = "in_flight"
    /\ Serialized
    /\ FreezeConsistent
    /\ StillCandidates # {} => reservation # "released"
    /\ attempt' = [s \in Slot |-> IF s \in StillCandidates THEN "unknown" ELSE attempt[s]]
    /\ reservation' = IF StillCandidates # {} THEN "frozen" ELSE reservation
    /\ scan' = NoScan
    /\ UNCHANGED <<fenceVars, prepared, authorized, released, corrected, dispatch, calls>>

(* The recovery transaction raises or its process dies: nothing is written.  *)
RecoverAborts ==
    /\ scan # NoScan
    /\ scan' = NoScan
    /\ UNCHANGED <<fenceVars, attemptVars, parentVars, dispatch, calls>>

-----------------------------------------------------------------------------
(* The reservation lifecycle, reduced to what it does to the whole capacity  *)
(* of an authorization; quantities are the subject of ReservationLifecycle.  *)

(* _require_mutable under a current fence.                                   *)
Mutable ==
    /\ Fenced(generation)
    /\ reservation \in {"active", "partially_released", "frozen"}
    /\ FreezeConsistent
    /\ unknown_attempts = {}
    /\ ~corrected

Attempts(a) == {s \in Slot : s[1] = a /\ attempt[s] # "none"}

Confirmed(a) == \E s \in Attempts(a) : attempt[s] = "confirmed"

AfterRelease(done) == IF done = Auth THEN "released" ELSE "partially_released"

ReleaseAll(a) ==
    /\ a \notin released
    /\ released' = released \cup {a}
    /\ reservation' = AfterRelease(released \cup {a})
    /\ UNCHANGED <<fenceVars, attemptVars, authorized, corrected, dispatch, scan, calls>>

(* expire_unsent: every attempt of the order is proved unsent.               *)
expire_unsent(a) ==
    /\ Mutable
    /\ \A s \in Attempts(a) : attempt[s] = "abandoned"
    /\ ReleaseAll(a)

(* broker_rejected, the last execution_accounted, simulation_horizon_final.  *)
ReleaseConfirmed(a) ==
    /\ Mutable
    /\ Confirmed(a)
    /\ ReleaseAll(a)

(* execution_accounted of a part of the order.                               *)
ReleasePart(a) ==
    /\ Mutable
    /\ Confirmed(a)
    /\ a \notin released
    /\ reservation' = "partially_released"
    /\ UNCHANGED <<fenceVars, attemptVars, authorized, released, corrected, dispatch, scan,
                   calls>>

(* execution_accounted meets a non-monotone correction: it freezes, also     *)
(* when an UNKNOWN sibling has frozen the reservation already.               *)
FreezeForCorrection(a) ==
    /\ Fenced(generation)
    /\ Confirmed(a)
    /\ FreezeConsistent
    /\ corrected' = TRUE
    /\ reservation' = IF reservation = "released" THEN "released" ELSE "frozen"
    /\ UNCHANGED <<fenceVars, attemptVars, authorized, released, dispatch, scan, calls>>

Next ==
    \/ AccountStep
    \/ Approve
    \/ \E a \in Auth, n \in Number, g \in 1 .. MaxGeneration : prepare(a, n, g)
    \/ \E w \in Worker, s \in Slot, g \in 1 .. MaxGeneration : mark_in_flight(w, s, g)
    \/ \E w \in Worker : submit(w)
    \/ \E w \in Worker : SubmitRefused(w)
    \/ \E w \in Worker, pc \in {"answered", "failed"} : SubmitReturns(w, pc)
    \/ \E w \in Worker : confirm(w)
    \/ \E w \in Worker : mark_unknown(w)
    \/ \E w \in Worker : OutcomeRefused(w)
    \/ \E w \in Worker : Crash(w)
    \/ \E state \in {"pending", "in_flight"}, slots \in SUBSET Slot : RecoverScan(state, slots)
    \/ recover_stale_pending
    \/ recover_stale_in_flight
    \/ RecoverAborts
    \/ \E a \in Auth : expire_unsent(a)
    \/ \E a \in Auth : ReleaseConfirmed(a)
    \/ \E a \in Auth : ReleasePart(a)
    \/ \E a \in Auth : FreezeForCorrection(a)

Spec == Init /\ [][Next]_vars

-----------------------------------------------------------------------------
(* Attempts, reservation, dispatchers, recovery and counters have their     *)
(* types.                                                                   *)
TypeOK ==
    /\ generation \in 0 .. MaxGeneration
    /\ owner \in Owner \cup {NoOwner}
    /\ lapsed \in BOOLEAN
    /\ running \subseteq 1 .. MaxGeneration
    /\ attempt \in [Slot -> AttemptState \cup {"none"}]
    /\ prepared \in [Slot -> 0 .. MaxGeneration]
    /\ reservation \in {"none", "active", "partially_released", "frozen", "released"}
    /\ authorized \in 0 .. MaxGeneration
    /\ released \subseteq Auth
    /\ corrected \in BOOLEAN
    /\ dispatch \in [Worker -> {Idle} \cup
                        [pc : {"cleared", "calling", "answered", "failed"}, slot : Slot]]
    /\ scan \in [state : {"none", "pending", "in_flight"}, slots : SUBSET Slot]
    /\ calls \in [Slot -> Nat]

(* Place at most once: whatever dispatchers, crashes, handovers of the      *)
(* account and recoveries do, the broker adapter is called at most once for *)
(* one logical order over all of its attempts.                              *)
AtMostOnePlace ==
    \A a \in Auth, n, m \in Number :
        /\ calls[<<a, n>>] <= 1
        /\ n # m => calls[<<a, n>>] = 0 \/ calls[<<a, m>>] = 0

(* An order that may exist at the broker is never recorded as unsent, and   *)
(* its capacity is given back only on the strength of a confirmed outcome.  *)
SentIsHeld ==
    \A s \in Slot : calls[s] > 0 =>
        /\ attempt[s] \in {"in_flight", "confirmed", "unknown"}
        /\ s[1] \in released => attempt[s] = "confirmed"

(* The repository never writes a reservation state that its own             *)
(* _assert_freeze_consistency refuses; if it did, every later method on the *)
(* batch, recovery included, would raise.                                   *)
FreezeNeverInconsistent == FreezeConsistent

(* Released capacity leaves no attempt open: the refusals "after            *)
(* reservation release", which would abort a whole recovery batch, are      *)
(* never met.                                                               *)
ReleasedIsSettled ==
    /\ reservation = "released" => released = Auth
    /\ \A s \in Slot : s[1] \in released => attempt[s] \in {"none", "abandoned", "confirmed"}

(* What may have been sent is never written off, and the state written for  *)
(* it can still be read.                                                    *)
NothingIsWrittenOff == SentIsHeld /\ FreezeNeverInconsistent /\ ReleasedIsSettled

(* While an attempt of the batch is UNKNOWN, it stays UNKNOWN, nothing is   *)
(* prepared or marked IN_FLIGHT and no capacity of the batch is released.   *)
UnknownFencesParent ==
    [][unknown_attempts # {} =>
          /\ unknown_attempts \subseteq unknown_attempts'
          /\ \A s \in Slot : attempt'[s] # attempt[s] =>
                attempt'[s] \in {"abandoned", "confirmed", "unknown"}
          /\ released' = released]_vars

(* The broker adapter is called only after a durable IN_FLIGHT, only under  *)
(* the fence the attempt was prepared with, and only while that fence holds *)
(* the account lock.                                                        *)
PlaceOnlyAfterDurableDispatch ==
    [][\A s \in Slot : calls'[s] # calls[s] =>
          /\ attempt[s] \in {"in_flight", "unknown"}
          /\ prepared[s] = generation
          /\ running' = {generation}]_vars
=============================================================================
