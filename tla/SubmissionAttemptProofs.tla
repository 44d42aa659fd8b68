---------------------- MODULE SubmissionAttemptProofs ----------------------
(***************************************************************************)
(* Proofs about SubmissionAttempt for every batch, every set of            *)
(* dispatchers and every bound on attempts and generations.                *)
(***************************************************************************)
EXTENDS SubmissionAttempt, TLAPS

USE AttemptAssumption, GenerationAssumption, OwnerAssumption DEF Number

(* Generations start at one, so a running effect has a positive generation. *)
OwnedIsGranted == owner # NoOwner => generation > 0

(* Attempts of one order are prepared one after the other, each after the   *)
(* previous one was proved unsent.                                          *)
Chain ==
    \A a \in Auth, n, m \in Number :
        m < n /\ attempt[<<a, n>>] # "none" => attempt[<<a, m>>] = "abandoned"

(* A dispatcher works on an attempt it alone has marked IN_FLIGHT, and has  *)
(* not called the broker while it is only cleared to do so.                 *)
DispatcherHolds ==
    /\ \A w \in Worker : dispatch[w] # Idle =>
          /\ attempt[dispatch[w].slot] \in {"in_flight", "confirmed", "unknown"}
          /\ dispatch[w].pc = "cleared" =>
                /\ calls[dispatch[w].slot] = 0
                /\ attempt[dispatch[w].slot] \in {"in_flight", "unknown"}
    /\ \A w, v \in Worker :
          dispatch[w] # Idle /\ dispatch[v] # Idle /\ dispatch[w].slot = dispatch[v].slot
             => w = v

(* No attempt is called twice.                                              *)
CalledOnce ==
    \A s \in Slot : calls[s] <= 1

Inv ==
    /\ TypeOK
    /\ OwnedIsGranted
    /\ Chain
    /\ DispatcherHolds
    /\ CalledOnce
    /\ SentIsHeld
    /\ FreezeConsistent
    /\ ReleasedIsSettled

(* The account may change hands at any time.                                  *)
LEMMA AccountKeeps ==
  ASSUME Inv,
         AccountStep
  PROVE  Inv'
<1>1. TypeOK' /\ OwnedIsGranted'
  <2>1. CASE \E o \in Owner : generation < MaxGeneration /\ Account!Grant(o)
    BY <2>1 DEF Inv, TypeOK, OwnedIsGranted, AccountStep, Account!Grant, attemptVars,
       parentVars
  <2>2. CASE Account!Surrender
    BY <2>2 DEF Inv, TypeOK, OwnedIsGranted, AccountStep, Account!Surrender, attemptVars,
       parentVars
  <2>3. CASE Account!Lapse
    BY <2>3 DEF Inv, TypeOK, OwnedIsGranted, AccountStep, Account!Lapse, attemptVars,
       parentVars
  <2> QED
    BY <2>1, <2>2, <2>3 DEF AccountStep
<1>2. Chain'
  BY DEF Inv, Chain, AccountStep, attemptVars
<1>3. DispatcherHolds'
  BY DEF Inv, DispatcherHolds, AccountStep, attemptVars
<1>4. CalledOnce'
  BY DEF Inv, CalledOnce, AccountStep
<1>5. SentIsHeld'
  BY DEF Inv, SentIsHeld, AccountStep, attemptVars, parentVars
<1>6. FreezeConsistent'
  BY DEF Inv, FreezeConsistent, unknown_attempts, AccountStep, attemptVars, parentVars
<1>7. ReleasedIsSettled'
  BY DEF Inv, ReleasedIsSettled, AccountStep, attemptVars, parentVars
<1> QED
  BY <1>1, <1>2, <1>3, <1>4, <1>5, <1>6, <1>7 DEF Inv

(* Approval creates the reservation before there is any attempt.              *)
LEMMA ApproveKeeps ==
  ASSUME Inv,
         Approve
  PROVE  Inv'
<1>1. TypeOK' /\ OwnedIsGranted'
  BY DEF Inv, TypeOK, OwnedIsGranted, Approve, fenceVars, attemptVars
<1>2. Chain'
  BY DEF Inv, Chain, Approve, attemptVars
<1>3. DispatcherHolds'
  BY DEF Inv, DispatcherHolds, Approve, attemptVars
<1>4. CalledOnce'
  BY DEF Inv, CalledOnce, Approve
<1>5. SentIsHeld'
  BY DEF Inv, SentIsHeld, Approve, attemptVars
<1>6. FreezeConsistent'
  BY DEF Inv, FreezeConsistent, unknown_attempts, Approve, attemptVars
<1>7. ReleasedIsSettled'
  BY DEF Inv, ReleasedIsSettled, Approve, attemptVars
<1> QED
  BY <1>1, <1>2, <1>3, <1>4, <1>5, <1>6, <1>7 DEF Inv

(* A new attempt is the successor of abandoned ones.                          *)
LEMMA PrepareKeeps ==
  ASSUME Inv, NEW a \in Auth, NEW n \in Number, NEW g \in 1 .. MaxGeneration,
         prepare(a, n, g)
  PROVE  Inv'
<1>1. TypeOK' /\ OwnedIsGranted'
  BY DEF Inv, TypeOK, OwnedIsGranted, AttemptState, Slot, prepare, fenceVars, parentVars
<1>2. Chain'
  <2> SUFFICES ASSUME NEW b \in Auth, NEW k \in Number, NEW m \in Number,
                      m < k, attempt'[<<b, k>>] # "none"
               PROVE  attempt'[<<b, m>>] = "abandoned"
    BY DEF Chain
  <2>1. /\ <<a, n>> \in Slot /\ <<b, k>> \in Slot /\ <<b, m>> \in Slot
        /\ attempt' = [attempt EXCEPT ![<<a, n>>] = "pending"]
        /\ attempt \in [Slot -> AttemptState \cup {"none"}]
        /\ attempt[<<a, n>>] = "none"
    BY DEF Inv, TypeOK, Slot, prepare, NextAttempt
  <2>2. <<b, m>> # <<a, n>>
    <3> SUFFICES ASSUME b = a, m = n PROVE FALSE
      OBVIOUS
    <3>1. attempt[<<b, k>>] # "none"
      BY <2>1
    <3>2. attempt[<<b, m>>] = "abandoned"
      BY <3>1 DEF Inv, Chain
    <3> QED
      BY <2>1, <3>2
  <2>3. CASE <<b, k>> # <<a, n>>
    BY <2>1, <2>2, <2>3 DEF Inv, Chain
  <2>4. CASE b = a /\ k = n
    <3>1. n > 1 /\ n - 1 \in Number /\ attempt[<<a, n - 1>>] = "abandoned"
      BY <2>4 DEF prepare, may_resubmit
    <3>2. CASE m = n - 1
      BY <2>1, <2>2, <2>4, <3>1, <3>2
    <3>3. CASE m < n - 1
      BY <2>1, <2>2, <2>4, <3>1, <3>3 DEF Inv, Chain
    <3> QED
      BY <2>4, <3>2, <3>3
  <2> QED
    BY <2>3, <2>4
<1>a. attempt[<<a, n>>] = "none" /\ \A s \in Slot : s # <<a, n>> => attempt'[s] = attempt[s]
  BY DEF Inv, TypeOK, prepare, NextAttempt
<1>3. DispatcherHolds'
  <2>1. \A w \in Worker : dispatch[w] # Idle => dispatch[w].slot \in Slot
    BY DEF Inv, TypeOK, Idle
  <2>2. \A w \in Worker : dispatch[w] # Idle =>
           attempt'[dispatch[w].slot] = attempt[dispatch[w].slot]
    BY <1>a, <2>1 DEF Inv, DispatcherHolds
  <2> QED
    BY <2>2 DEF Inv, DispatcherHolds, prepare
<1>4. CalledOnce'
  BY DEF Inv, CalledOnce, prepare
<1>5. SentIsHeld'
  BY <1>a DEF Inv, SentIsHeld, prepare, parentVars
<1>6. FreezeConsistent'
  BY DEF FreezeConsistent, unknown_attempts, prepare, parentVars
<1>7. ReleasedIsSettled'
  BY DEF Inv, ReleasedIsSettled, prepare, parentVars
<1> QED
  BY <1>1, <1>2, <1>3, <1>4, <1>5, <1>6, <1>7 DEF Inv

(* A pending attempt has no dispatcher yet.                                   *)
LEMMA MarkInFlightKeeps ==
  ASSUME Inv, NEW w \in Worker, NEW s \in Slot, NEW g \in 1 .. MaxGeneration,
         mark_in_flight(w, s, g)
  PROVE  Inv'
<1>1. TypeOK' /\ OwnedIsGranted'
  BY DEF Inv, TypeOK, OwnedIsGranted, AttemptState, mark_in_flight, At, fenceVars,
     parentVars
<1>2. Chain'
  BY DEF Inv, Chain, mark_in_flight
<1>3. DispatcherHolds'
  <2>1. /\ attempt' = [attempt EXCEPT ![s] = "in_flight"]
        /\ dispatch' = [dispatch EXCEPT ![w] = At("cleared", s)]
        /\ calls' = calls
        /\ attempt[s] = "pending"
        /\ attempt \in [Slot -> AttemptState \cup {"none"}]
        /\ DOMAIN dispatch = Worker
    BY DEF Inv, TypeOK, mark_in_flight
  <2>2. calls[s] = 0
    BY <2>1 DEF Inv, TypeOK, SentIsHeld
  <2>3. At("cleared", s).slot = s /\ At("cleared", s).pc = "cleared"
    BY DEF At
  <2>4. \A v \in Worker : dispatch[v] # Idle =>
          dispatch[v].slot \in Slot /\ dispatch[v].slot # s
    BY <2>1 DEF Inv, TypeOK, DispatcherHolds
  <2>5. \A v \in Worker : v # w => dispatch'[v] = dispatch[v]
    BY <2>1
  <2>6. \A v \in Worker : dispatch[v] # Idle =>
          attempt'[dispatch[v].slot] = attempt[dispatch[v].slot]
    BY <2>1, <2>4
  <2>7. dispatch'[w] = At("cleared", s) /\ attempt'[s] = "in_flight"
    BY <2>1
  <2>8. ASSUME NEW v \in Worker, dispatch'[v] # Idle
        PROVE  /\ attempt'[dispatch'[v].slot] \in {"in_flight", "confirmed", "unknown"}
               /\ dispatch'[v].pc = "cleared" =>
                     /\ calls'[dispatch'[v].slot] = 0
                     /\ attempt'[dispatch'[v].slot] \in {"in_flight", "unknown"}
    <3>1. CASE v = w
      BY <2>1, <2>2, <2>3, <2>7, <3>1
    <3>2. CASE v # w
      BY <2>1, <2>5, <2>6, <2>8, <3>2 DEF Inv, DispatcherHolds
    <3> QED
      BY <3>1, <3>2
  <2>9. ASSUME NEW v \in Worker, NEW u \in Worker, dispatch'[v] # Idle, dispatch'[u] # Idle,
               dispatch'[v].slot = dispatch'[u].slot
        PROVE  v = u
    BY <2>3, <2>4, <2>5, <2>7, <2>9 DEF Inv, DispatcherHolds
  <2> QED
    BY <2>8, <2>9 DEF DispatcherHolds
<1>4. CalledOnce'
  BY DEF Inv, CalledOnce, mark_in_flight
<1>5. SentIsHeld'
  BY DEF Inv, SentIsHeld, mark_in_flight, parentVars
<1>6. FreezeConsistent'
  BY DEF FreezeConsistent, unknown_attempts, mark_in_flight, parentVars
<1>7. ReleasedIsSettled'
  BY DEF Inv, ReleasedIsSettled, mark_in_flight, parentVars
<1> QED
  BY <1>1, <1>2, <1>3, <1>4, <1>5, <1>6, <1>7 DEF Inv

(* Only the cleared dispatcher of an uncalled attempt calls the broker.       *)
LEMMA SubmitKeeps ==
  ASSUME Inv, NEW w \in Worker,
         submit(w)
  PROVE  Inv'
<1>1. TypeOK' /\ OwnedIsGranted'
  BY DEF Inv, TypeOK, OwnedIsGranted, Idle, submit, Account!Begin, At, attemptVars,
     parentVars
<1>2. Chain'
  BY DEF Inv, Chain, submit, attemptVars
<1>3. DispatcherHolds'
  BY DEF Inv, TypeOK, DispatcherHolds, Idle, submit, At, attemptVars
<1>4. CalledOnce'
  BY DEF Inv, CalledOnce, DispatcherHolds, Idle, submit
<1>5. SentIsHeld'
  <2> DEFINE s == dispatch[w].slot
  <2>1. dispatch[w] # Idle /\ s \in Slot
    BY DEF Inv, TypeOK, submit, Idle
  <2>2. attempt[s] \in {"in_flight", "unknown"}
    BY <2>1 DEF Inv, DispatcherHolds, submit
  <2>3. s[1] \notin released
    BY <2>1, <2>2 DEF Inv, ReleasedIsSettled
  <2>4. /\ \A t \in Slot : t # s => calls'[t] = calls[t]
        /\ attempt' = attempt /\ released' = released
    BY <2>1 DEF submit, attemptVars, parentVars
  <2> QED
    BY <2>2, <2>3, <2>4 DEF Inv, SentIsHeld
<1>6. FreezeConsistent'
  BY DEF Inv, FreezeConsistent, unknown_attempts, submit, attemptVars, parentVars
<1>7. ReleasedIsSettled'
  BY DEF Inv, ReleasedIsSettled, submit, attemptVars, parentVars
<1> QED
  BY <1>1, <1>2, <1>3, <1>4, <1>5, <1>6, <1>7 DEF Inv

(* A refused call changes the dispatcher only.                                *)
LEMMA SubmitRefusedKeeps ==
  ASSUME Inv, NEW w \in Worker,
         SubmitRefused(w)
  PROVE  Inv'
<1>1. TypeOK' /\ OwnedIsGranted'
  BY DEF Inv, TypeOK, OwnedIsGranted, Idle, SubmitRefused, At, fenceVars, attemptVars,
     parentVars
<1>2. Chain'
  BY DEF Inv, Chain, SubmitRefused, attemptVars
<1>3. DispatcherHolds'
  BY DEF Inv, DispatcherHolds, Idle, SubmitRefused, At, attemptVars
<1>4. CalledOnce'
  BY DEF Inv, CalledOnce, SubmitRefused
<1>5. SentIsHeld'
  BY DEF Inv, SentIsHeld, SubmitRefused, attemptVars, parentVars
<1>6. FreezeConsistent'
  BY DEF Inv, FreezeConsistent, unknown_attempts, SubmitRefused, attemptVars, parentVars
<1>7. ReleasedIsSettled'
  BY DEF Inv, ReleasedIsSettled, SubmitRefused, attemptVars, parentVars
<1> QED
  BY <1>1, <1>2, <1>3, <1>4, <1>5, <1>6, <1>7 DEF Inv

(* The answer ends the effect.                                                *)
LEMMA SubmitReturnsKeeps ==
  ASSUME Inv, NEW w \in Worker, NEW pc \in {"answered", "failed"},
         SubmitReturns(w, pc)
  PROVE  Inv'
<1>1. TypeOK' /\ OwnedIsGranted'
  BY DEF Inv, TypeOK, OwnedIsGranted, Idle, SubmitReturns, Account!End, At, attemptVars,
     parentVars
<1>2. Chain'
  BY DEF Inv, Chain, SubmitReturns, attemptVars
<1>3. DispatcherHolds'
  BY DEF Inv, DispatcherHolds, Idle, SubmitReturns, At, attemptVars
<1>4. CalledOnce'
  BY DEF Inv, CalledOnce, SubmitReturns
<1>5. SentIsHeld'
  BY DEF Inv, SentIsHeld, SubmitReturns, attemptVars, parentVars
<1>6. FreezeConsistent'
  BY DEF Inv, FreezeConsistent, unknown_attempts, SubmitReturns, attemptVars, parentVars
<1>7. ReleasedIsSettled'
  BY DEF Inv, ReleasedIsSettled, SubmitReturns, attemptVars, parentVars
<1> QED
  BY <1>1, <1>2, <1>3, <1>4, <1>5, <1>6, <1>7 DEF Inv

(* A confirmation ends the attempt.                                           *)
LEMMA ConfirmKeeps ==
  ASSUME Inv, NEW w \in Worker,
         confirm(w)
  PROVE  Inv'
<1>1. TypeOK' /\ OwnedIsGranted'
  BY DEF Inv, TypeOK, OwnedIsGranted, AttemptState, Idle, confirm, fenceVars, parentVars
<1>2. Chain'
  BY DEF Inv, Chain, confirm, OutcomeAccepted
<1>3. DispatcherHolds'
  BY DEF Inv, DispatcherHolds, Idle, confirm
<1>4. CalledOnce'
  BY DEF Inv, CalledOnce, confirm
<1>5. SentIsHeld'
  BY DEF Inv, SentIsHeld, confirm, parentVars
<1>6. FreezeConsistent'
  BY DEF FreezeConsistent, unknown_attempts, confirm, OutcomeAccepted, parentVars
<1>7. ReleasedIsSettled'
  BY DEF Inv, ReleasedIsSettled, confirm, parentVars
<1> QED
  BY <1>1, <1>2, <1>3, <1>4, <1>5, <1>6, <1>7 DEF Inv

(* An UNKNOWN outcome freezes the reservation with it.                        *)
LEMMA MarkUnknownKeeps ==
  ASSUME Inv, NEW w \in Worker,
         mark_unknown(w)
  PROVE  Inv'
<1>1. TypeOK' /\ OwnedIsGranted'
  BY DEF Inv, TypeOK, OwnedIsGranted, AttemptState, Idle, mark_unknown, fenceVars
<1>2. Chain'
  BY DEF Inv, Chain, mark_unknown, OutcomeAccepted
<1>3. DispatcherHolds'
  BY DEF Inv, DispatcherHolds, mark_unknown
<1>4. CalledOnce'
  BY DEF Inv, CalledOnce, mark_unknown
<1>5. SentIsHeld'
  BY DEF Inv, SentIsHeld, mark_unknown, OutcomeAccepted
<1>6. FreezeConsistent'
  <2> DEFINE s == dispatch[w].slot
  <2>1. s \in Slot
    BY DEF Inv, TypeOK, mark_unknown, Idle
  <2>2. attempt'[s] = "unknown"
    BY <2>1 DEF Inv, TypeOK, mark_unknown
  <2>3. unknown_attempts' # {}
    BY <2>1, <2>2 DEF unknown_attempts
  <2> QED
    BY <2>3 DEF FreezeConsistent, mark_unknown
<1>7. ReleasedIsSettled'
  BY DEF Inv, ReleasedIsSettled, mark_unknown, OutcomeAccepted
<1> QED
  BY <1>1, <1>2, <1>3, <1>4, <1>5, <1>6, <1>7 DEF Inv

(* A refused outcome changes the dispatcher only.                             *)
LEMMA OutcomeRefusedKeeps ==
  ASSUME Inv, NEW w \in Worker,
         OutcomeRefused(w)
  PROVE  Inv'
<1>1. TypeOK' /\ OwnedIsGranted'
  BY DEF Inv, TypeOK, OwnedIsGranted, OutcomeRefused, fenceVars, attemptVars, parentVars
<1>2. Chain'
  BY DEF Inv, Chain, OutcomeRefused, attemptVars
<1>3. DispatcherHolds'
  BY DEF Inv, DispatcherHolds, OutcomeRefused, attemptVars
<1>4. CalledOnce'
  BY DEF Inv, CalledOnce, OutcomeRefused
<1>5. SentIsHeld'
  BY DEF Inv, SentIsHeld, OutcomeRefused, attemptVars, parentVars
<1>6. FreezeConsistent'
  BY DEF Inv, FreezeConsistent, unknown_attempts, OutcomeRefused, attemptVars, parentVars
<1>7. ReleasedIsSettled'
  BY DEF Inv, ReleasedIsSettled, OutcomeRefused, attemptVars, parentVars
<1> QED
  BY <1>1, <1>2, <1>3, <1>4, <1>5, <1>6, <1>7 DEF Inv

(* A crash frees the dispatcher and its effect.                               *)
LEMMA CrashKeeps ==
  ASSUME Inv, NEW w \in Worker,
         Crash(w)
  PROVE  Inv'
<1>1. TypeOK' /\ OwnedIsGranted'
  <2>1. UNCHANGED <<generation, owner, lapsed>> /\ running' \subseteq running
    BY DEF Crash, Account!End, fenceVars
  <2>2. dispatch' \in [Worker -> {Idle} \cup
                        [pc : {"cleared", "calling", "answered", "failed"}, slot : Slot]]
    BY DEF Inv, TypeOK, Crash
  <2> QED
    BY <2>1, <2>2 DEF Inv, TypeOK, OwnedIsGranted, Crash, attemptVars, parentVars
<1>2. Chain'
  BY DEF Inv, Chain, Crash, attemptVars
<1>3. DispatcherHolds'
  BY DEF Inv, DispatcherHolds, Crash, attemptVars
<1>4. CalledOnce'
  BY DEF Inv, CalledOnce, Crash
<1>5. SentIsHeld'
  BY DEF Inv, SentIsHeld, Crash, attemptVars, parentVars
<1>6. FreezeConsistent'
  BY DEF Inv, FreezeConsistent, unknown_attempts, Crash, attemptVars, parentVars
<1>7. ReleasedIsSettled'
  BY DEF Inv, ReleasedIsSettled, Crash, attemptVars, parentVars
<1> QED
  BY <1>1, <1>2, <1>3, <1>4, <1>5, <1>6, <1>7 DEF Inv

(* Reading candidates changes no durable state.                               *)
LEMMA ScanKeeps ==
  ASSUME Inv, NEW state \in {"pending", "in_flight"}, NEW slots \in SUBSET Slot,
         RecoverScan(state, slots)
  PROVE  Inv'
<1>1. TypeOK' /\ OwnedIsGranted'
  BY DEF Inv, TypeOK, OwnedIsGranted, RecoverScan, fenceVars, attemptVars, parentVars
<1>2. Chain'
  BY DEF Inv, Chain, RecoverScan, attemptVars
<1>3. DispatcherHolds'
  BY DEF Inv, DispatcherHolds, RecoverScan, attemptVars
<1>4. CalledOnce'
  BY DEF Inv, CalledOnce, RecoverScan
<1>5. SentIsHeld'
  BY DEF Inv, SentIsHeld, RecoverScan, attemptVars, parentVars
<1>6. FreezeConsistent'
  BY DEF Inv, FreezeConsistent, unknown_attempts, RecoverScan, attemptVars, parentVars
<1>7. ReleasedIsSettled'
  BY DEF Inv, ReleasedIsSettled, RecoverScan, attemptVars, parentVars
<1> QED
  BY <1>1, <1>2, <1>3, <1>4, <1>5, <1>6, <1>7 DEF Inv

(* Abandoned attempts were pending under the lock.                            *)
LEMMA RecoverPendingKeeps ==
  ASSUME Inv,
         recover_stale_pending
  PROVE  Inv'
<1>1. TypeOK' /\ OwnedIsGranted'
  BY DEF Inv, TypeOK, OwnedIsGranted, AttemptState, NoScan, recover_stale_pending,
     fenceVars, parentVars
<1>2. Chain'
  BY DEF Inv, Chain, Slot, recover_stale_pending, StillCandidates
<1>3. DispatcherHolds'
  BY DEF Inv, TypeOK, DispatcherHolds, recover_stale_pending, StillCandidates
<1>4. CalledOnce'
  BY DEF Inv, CalledOnce, recover_stale_pending
<1>5. SentIsHeld'
  BY DEF Inv, SentIsHeld, recover_stale_pending, StillCandidates, parentVars
<1>6. FreezeConsistent'
  <2>1. unknown_attempts' = unknown_attempts
    BY DEF unknown_attempts, recover_stale_pending, StillCandidates
  <2> QED
    BY <2>1 DEF FreezeConsistent, recover_stale_pending, parentVars
<1>7. ReleasedIsSettled'
  BY DEF Inv, ReleasedIsSettled, recover_stale_pending, parentVars
<1> QED
  BY <1>1, <1>2, <1>3, <1>4, <1>5, <1>6, <1>7 DEF Inv

(* Attempts recovered to UNKNOWN were in flight under the lock.               *)
LEMMA RecoverInFlightKeeps ==
  ASSUME Inv,
         recover_stale_in_flight
  PROVE  Inv'
<1>1. TypeOK' /\ OwnedIsGranted'
  BY DEF Inv, TypeOK, OwnedIsGranted, AttemptState, NoScan, recover_stale_in_flight,
     fenceVars
<1>2. Chain'
  BY DEF Inv, Chain, Slot, recover_stale_in_flight, StillCandidates
<1>3. DispatcherHolds'
  BY DEF Inv, TypeOK, DispatcherHolds, recover_stale_in_flight
<1>4. CalledOnce'
  BY DEF Inv, CalledOnce, recover_stale_in_flight
<1>5. SentIsHeld'
  BY DEF Inv, SentIsHeld, recover_stale_in_flight, StillCandidates
<1>6. FreezeConsistent'
  <2>1. unknown_attempts' = unknown_attempts \cup (StillCandidates \cap Slot)
    BY DEF unknown_attempts, recover_stale_in_flight, StillCandidates
  <2>2. StillCandidates \subseteq Slot
    BY DEF Inv, TypeOK, StillCandidates
  <2>3. CASE StillCandidates = {}
    BY <2>1, <2>3 DEF FreezeConsistent, recover_stale_in_flight
  <2>4. CASE StillCandidates # {}
    BY <2>1, <2>2, <2>4 DEF FreezeConsistent, recover_stale_in_flight
  <2> QED
    BY <2>3, <2>4
<1>7. ReleasedIsSettled'
  BY DEF Inv, ReleasedIsSettled, recover_stale_in_flight, StillCandidates
<1> QED
  BY <1>1, <1>2, <1>3, <1>4, <1>5, <1>6, <1>7 DEF Inv

(* An aborted recovery writes nothing.                                        *)
LEMMA AbortKeeps ==
  ASSUME Inv,
         RecoverAborts
  PROVE  Inv'
<1>1. TypeOK' /\ OwnedIsGranted'
  BY DEF Inv, TypeOK, OwnedIsGranted, NoScan, RecoverAborts, NoScan, fenceVars, attemptVars,
     parentVars
<1>2. Chain'
  BY DEF Inv, Chain, RecoverAborts, attemptVars
<1>3. DispatcherHolds'
  BY DEF Inv, DispatcherHolds, Idle, RecoverAborts, attemptVars
<1>4. CalledOnce'
  BY DEF Inv, CalledOnce, RecoverAborts
<1>5. SentIsHeld'
  BY DEF Inv, SentIsHeld, RecoverAborts, attemptVars, parentVars
<1>6. FreezeConsistent'
  BY DEF Inv, FreezeConsistent, unknown_attempts, RecoverAborts, attemptVars, parentVars
<1>7. ReleasedIsSettled'
  BY DEF Inv, ReleasedIsSettled, RecoverAborts, attemptVars, parentVars
<1> QED
  BY <1>1, <1>2, <1>3, <1>4, <1>5, <1>6, <1>7 DEF Inv

(* Capacity of an unsent order is released.                                   *)
LEMMA ExpireKeeps ==
  ASSUME Inv, NEW a \in Auth,
         expire_unsent(a)
  PROVE  Inv'
<1>1. TypeOK' /\ OwnedIsGranted'
  BY DEF Inv, TypeOK, OwnedIsGranted, expire_unsent, ReleaseAll, AfterRelease, fenceVars,
     attemptVars
<1>2. Chain'
  BY DEF Inv, Chain, expire_unsent, ReleaseAll, attemptVars
<1>3. DispatcherHolds'
  BY DEF Inv, DispatcherHolds, expire_unsent, ReleaseAll, attemptVars
<1>4. CalledOnce'
  BY DEF Inv, CalledOnce, expire_unsent, ReleaseAll
<1>5. SentIsHeld'
  BY DEF Inv, SentIsHeld, expire_unsent, Attempts, ReleaseAll, attemptVars
<1>6. FreezeConsistent'
  BY DEF FreezeConsistent, unknown_attempts, expire_unsent, Mutable, ReleaseAll,
     AfterRelease, attemptVars
<1>7. ReleasedIsSettled'
  BY DEF Inv, ReleasedIsSettled, expire_unsent, Attempts, ReleaseAll, AfterRelease,
     attemptVars
<1> QED
  BY <1>1, <1>2, <1>3, <1>4, <1>5, <1>6, <1>7 DEF Inv

(* When an attempt of an order is confirmed, the others were abandoned or    *)
(* never prepared.                                                          *)
LEMMA ConfirmedIsLast ==
  ASSUME Inv, NEW a \in Auth, Confirmed(a), NEW s \in Slot, s[1] = a
  PROVE  attempt[s] \in {"none", "abandoned", "confirmed"}
<1>1. PICK t \in Slot : t[1] = a /\ attempt[t] = "confirmed"
  BY DEF Confirmed, Attempts
<1>2. PICK n \in Number : t = <<a, n>>
  BY <1>1 DEF Slot
<1>3. PICK m \in Number : s = <<a, m>>
  BY DEF Slot
<1>4. CASE m = n
  BY <1>1, <1>2, <1>3, <1>4
<1>5. CASE m < n
  BY <1>1, <1>2, <1>3, <1>5 DEF Inv, Chain
<1>6. CASE n < m
  <2>1. attempt[<<a, m>>] = "none"
    BY <1>1, <1>2, <1>6 DEF Inv, Chain
  <2> QED
    BY <1>3, <2>1
<1> QED
  BY <1>4, <1>5, <1>6

(* Capacity of a confirmed order is released.                                 *)
LEMMA ReleaseConfirmedKeeps ==
  ASSUME Inv, NEW a \in Auth,
         ReleaseConfirmed(a)
  PROVE  Inv'
<1>1. TypeOK' /\ OwnedIsGranted'
  BY DEF Inv, TypeOK, OwnedIsGranted, ReleaseConfirmed, ReleaseAll, AfterRelease, fenceVars,
     attemptVars
<1>2. Chain'
  BY DEF Inv, Chain, ReleaseConfirmed, ReleaseAll, attemptVars
<1>3. DispatcherHolds'
  BY DEF Inv, DispatcherHolds, ReleaseConfirmed, ReleaseAll, attemptVars
<1>4. CalledOnce'
  BY DEF Inv, CalledOnce, ReleaseConfirmed, ReleaseAll
<1>5. SentIsHeld'
  <2> SUFFICES ASSUME NEW s \in Slot, calls[s] > 0
               PROVE  /\ attempt[s] \in {"in_flight", "confirmed", "unknown"}
                      /\ s[1] \in released \cup {a} => attempt[s] = "confirmed"
    BY DEF SentIsHeld, ReleaseConfirmed, ReleaseAll, attemptVars
  <2>1. s[1] = a => attempt[s] \in {"none", "abandoned", "confirmed"}
    BY ConfirmedIsLast DEF ReleaseConfirmed
  <2> QED
    BY <2>1 DEF Inv, SentIsHeld
<1>6. FreezeConsistent'
  BY DEF FreezeConsistent, unknown_attempts, ReleaseConfirmed, Mutable, ReleaseAll,
     AfterRelease, attemptVars
<1>7. ReleasedIsSettled'
  <2>1. reservation' = "released" => released' = Auth
    BY DEF ReleaseConfirmed, ReleaseAll, AfterRelease
  <2>2. ASSUME NEW s \in Slot, s[1] \in released \cup {a}
        PROVE  attempt[s] \in {"none", "abandoned", "confirmed"}
    BY <2>2, ConfirmedIsLast DEF Inv, ReleasedIsSettled, ReleaseConfirmed
  <2>3. attempt' = attempt /\ released' = released \cup {a}
    BY DEF ReleaseConfirmed, ReleaseAll, attemptVars
  <2> QED
    BY <2>1, <2>2, <2>3 DEF ReleasedIsSettled
<1> QED
  BY <1>1, <1>2, <1>3, <1>4, <1>5, <1>6, <1>7 DEF Inv

(* Part of the capacity of a confirmed order is released.                     *)
LEMMA ReleasePartKeeps ==
  ASSUME Inv, NEW a \in Auth,
         ReleasePart(a)
  PROVE  Inv'
<1>1. TypeOK' /\ OwnedIsGranted'
  BY DEF Inv, TypeOK, OwnedIsGranted, ReleasePart, fenceVars, attemptVars
<1>2. Chain'
  BY DEF Inv, Chain, ReleasePart, attemptVars
<1>3. DispatcherHolds'
  BY DEF Inv, DispatcherHolds, ReleasePart, attemptVars
<1>4. CalledOnce'
  BY DEF Inv, CalledOnce, ReleasePart
<1>5. SentIsHeld'
  BY DEF Inv, SentIsHeld, ReleasePart, attemptVars
<1>6. FreezeConsistent'
  BY DEF FreezeConsistent, unknown_attempts, ReleasePart, Mutable, attemptVars
<1>7. ReleasedIsSettled'
  BY DEF Inv, ReleasedIsSettled, ReleasePart, attemptVars
<1> QED
  BY <1>1, <1>2, <1>3, <1>4, <1>5, <1>6, <1>7 DEF Inv

(* A correction freezes whatever is not released.                             *)
LEMMA FreezeKeeps ==
  ASSUME Inv, NEW a \in Auth,
         FreezeForCorrection(a)
  PROVE  Inv'
<1>1. TypeOK' /\ OwnedIsGranted'
  BY DEF Inv, TypeOK, OwnedIsGranted, FreezeForCorrection, fenceVars, attemptVars
<1>2. Chain'
  BY DEF Inv, Chain, FreezeForCorrection, attemptVars
<1>3. DispatcherHolds'
  BY DEF Inv, DispatcherHolds, FreezeForCorrection, attemptVars
<1>4. CalledOnce'
  BY DEF Inv, CalledOnce, FreezeForCorrection
<1>5. SentIsHeld'
  BY DEF Inv, SentIsHeld, FreezeForCorrection, attemptVars
<1>6. FreezeConsistent'
  BY DEF FreezeConsistent, unknown_attempts, FreezeForCorrection, attemptVars
<1>7. ReleasedIsSettled'
  BY DEF Inv, ReleasedIsSettled, FreezeForCorrection, attemptVars
<1> QED
  BY <1>1, <1>2, <1>3, <1>4, <1>5, <1>6, <1>7 DEF Inv

(* The invariant holds before anything is approved.                         *)
LEMMA InvInit == Init => Inv
<1> SUFFICES ASSUME Init PROVE Inv
  OBVIOUS
<1>1. TypeOK /\ OwnedIsGranted
  <2>1. dispatch \in [Worker -> {Idle} \cup
                       [pc : {"cleared", "calling", "answered", "failed"}, slot : Slot]]
    BY DEF Init
  <2>2. scan \in [state : {"none", "pending", "in_flight"}, slots : SUBSET Slot]
    BY DEF Init, NoScan
  <2>3. generation \in 0 .. MaxGeneration /\ authorized \in 0 .. MaxGeneration
    BY DEF Init, Account!Init
  <2>4. prepared \in [Slot -> 0 .. MaxGeneration] /\ calls \in [Slot -> Nat]
    BY DEF Init
  <2>5. attempt \in [Slot -> AttemptState \cup {"none"}]
    BY DEF Init
  <2>6. lapsed \in BOOLEAN /\ corrected \in BOOLEAN
    BY Zenon DEF Init, Account!Init
  <2>7. running \subseteq 1 .. MaxGeneration /\ owner \in Owner \cup {NoOwner}
    BY DEF Init, Account!Init
  <2> QED
    BY <2>1, <2>2, <2>3, <2>4, <2>5, <2>6, <2>7, Zenon DEF Init, Account!Init, TypeOK,
       OwnedIsGranted
<1>2. Chain /\ CalledOnce /\ SentIsHeld /\ ReleasedIsSettled
  BY DEF Init, Chain, CalledOnce, SentIsHeld, ReleasedIsSettled, Slot
<1>3. DispatcherHolds
  BY DEF Init, DispatcherHolds
<1>4. FreezeConsistent
  BY DEF Init, FreezeConsistent, unknown_attempts
<1> QED
  BY <1>1, <1>2, <1>3, <1>4 DEF Inv

(* Every transaction, call, crash and recovery preserves the invariant.     *)
LEMMA InvStep ==
  ASSUME Inv, [Next]_vars
  PROVE  Inv'
<1>1. CASE AccountStep
  BY <1>1, AccountKeeps
<1>2. CASE Approve
  BY <1>2, ApproveKeeps
<1>3. CASE \E a \in Auth, n \in Number, g \in 1 .. MaxGeneration : prepare(a, n, g)
  BY <1>3, PrepareKeeps
<1>4. CASE \E w \in Worker, s \in Slot, g \in 1 .. MaxGeneration : mark_in_flight(w, s, g)
  BY <1>4, MarkInFlightKeeps
<1>5. CASE \E w \in Worker : submit(w)
  BY <1>5, SubmitKeeps
<1>6. CASE \E w \in Worker : SubmitRefused(w)
  BY <1>6, SubmitRefusedKeeps
<1>7. CASE \E w \in Worker, pc \in {"answered", "failed"} : SubmitReturns(w, pc)
  BY <1>7, SubmitReturnsKeeps
<1>8. CASE \E w \in Worker : confirm(w)
  BY <1>8, ConfirmKeeps
<1>9. CASE \E w \in Worker : mark_unknown(w)
  BY <1>9, MarkUnknownKeeps
<1>10. CASE \E w \in Worker : OutcomeRefused(w)
  BY <1>10, OutcomeRefusedKeeps
<1>11. CASE \E w \in Worker : Crash(w)
  BY <1>11, CrashKeeps
<1>12. CASE \E state \in {"pending", "in_flight"}, slots \in SUBSET Slot :
             RecoverScan(state, slots)
  BY <1>12, ScanKeeps
<1>13. CASE recover_stale_pending
  BY <1>13, RecoverPendingKeeps
<1>14. CASE recover_stale_in_flight
  BY <1>14, RecoverInFlightKeeps
<1>15. CASE RecoverAborts
  BY <1>15, AbortKeeps
<1>16. CASE \E a \in Auth : expire_unsent(a)
  BY <1>16, ExpireKeeps
<1>17. CASE \E a \in Auth : ReleaseConfirmed(a)
  BY <1>17, ReleaseConfirmedKeeps
<1>18. CASE \E a \in Auth : ReleasePart(a)
  BY <1>18, ReleasePartKeeps
<1>19. CASE \E a \in Auth : FreezeForCorrection(a)
  BY <1>19, FreezeKeeps
<1>20. CASE UNCHANGED vars
  BY <1>20 DEF Inv, vars, fenceVars, attemptVars, parentVars, TypeOK, OwnedIsGranted, Chain,
     DispatcherHolds, CalledOnce, SentIsHeld, FreezeConsistent, unknown_attempts,
     ReleasedIsSettled
<1> QED
  BY <1>1, <1>2, <1>3, <1>4, <1>5, <1>6, <1>7, <1>8, <1>9, <1>10, <1>11, <1>12, <1>13,
     <1>14, <1>15, <1>16, <1>17, <1>18, <1>19, <1>20 DEF Next

(* The invariant holds in every reachable state.                            *)
LEMMA InvAlways == Spec => []Inv
<1> QED
  BY InvInit, InvStep, PTL DEF Spec

(* The type invariant holds for every batch, set of dispatchers and bound.  *)
THEOREM TypeCorrect == Spec => []TypeOK
<1>1. Inv => TypeOK
  BY DEF Inv
<1> QED
  BY <1>1, InvAlways, PTL

(* Place at most once per logical order, hold the capacity of what may      *)
(* exist at the broker, never write an inconsistent freeze and never leave  *)
(* an attempt open under released capacity.                                 *)
THEOREM Safety ==
  Spec => [](AtMostOnePlace /\ SentIsHeld /\ FreezeNeverInconsistent /\ ReleasedIsSettled)
<1>1. ASSUME Inv PROVE AtMostOnePlace
  <2> SUFFICES ASSUME NEW a \in Auth, NEW n \in Number, NEW m \in Number
               PROVE  /\ calls[<<a, n>>] <= 1
                      /\ n # m => calls[<<a, n>>] = 0 \/ calls[<<a, m>>] = 0
    BY Zenon DEF AtMostOnePlace
  <2>1. <<a, n>> \in Slot /\ <<a, m>> \in Slot
    BY DEF Slot
  <2>2. calls[<<a, n>>] \in Nat /\ calls[<<a, m>>] \in Nat /\ calls[<<a, n>>] <= 1
    BY <1>1, <2>1 DEF Inv, TypeOK, CalledOnce
  <2>3. ASSUME NEW k \in Number, NEW l \in Number, l < k,
               calls[<<a, k>>] > 0, calls[<<a, l>>] > 0
        PROVE  FALSE
    <3>1. <<a, k>> \in Slot /\ <<a, l>> \in Slot
      BY DEF Slot
    <3>2. attempt[<<a, k>>] # "none" /\ attempt[<<a, l>>] # "abandoned"
      BY <1>1, <2>3, <3>1 DEF Inv, SentIsHeld
    <3> QED
      BY <1>1, <2>3, <3>2 DEF Inv, Chain
  <2>4. n # m => n < m \/ m < n
    OBVIOUS
  <2> QED
    BY <2>2, <2>3, <2>4
<1>2. Inv => SentIsHeld /\ FreezeNeverInconsistent /\ ReleasedIsSettled
  BY DEF Inv, FreezeNeverInconsistent
<1> QED
  BY <1>1, <1>2, InvAlways, PTL

(* Whatever dispatchers, crashes and recoveries do, an order that may have  *)
(* reached the broker keeps its capacity, the reservation stays readable,   *)
(* and released capacity leaves nothing open (recover_in_flight,            *)
(* expire_unsent, _assert_freeze_consistency).                              *)
THEOREM Held == Spec => []NothingIsWrittenOff
<1>1. Inv => NothingIsWrittenOff
  BY DEF Inv, FreezeNeverInconsistent, NothingIsWrittenOff
<1> QED
  BY <1>1, InvAlways, PTL

(* A step taken while the batch has an UNKNOWN attempt respects the barrier.  *)
LEMMA BarrierStep ==
  ASSUME Inv, Next, unknown_attempts # {}
  PROVE  /\ unknown_attempts \subseteq unknown_attempts'
         /\ \A s \in Slot : attempt'[s] # attempt[s] =>
               attempt'[s] \in {"abandoned", "confirmed", "unknown"}
         /\ released' = released
<1>0. attempt \in [Slot -> AttemptState \cup {"none"}]
  BY DEF Inv, TypeOK
<1>1. ~Mutable
  BY DEF Mutable
<1>2. CASE UNCHANGED <<attemptVars, released>>
  BY <1>2 DEF attemptVars, unknown_attempts
<1>3. CASE \E w \in Worker : confirm(w)
  BY <1>0, <1>3 DEF confirm, OutcomeAccepted, parentVars, unknown_attempts
<1>4. CASE \E w \in Worker : mark_unknown(w)
  BY <1>0, <1>4 DEF mark_unknown, unknown_attempts
<1>5. CASE recover_stale_pending
  BY <1>5 DEF recover_stale_pending, StillCandidates, parentVars, unknown_attempts
<1>6. CASE recover_stale_in_flight
  BY <1>6 DEF recover_stale_in_flight, unknown_attempts
<1>7. CASE \/ AccountStep
           \/ Approve
           \/ RecoverAborts
           \/ \E a \in Auth : FreezeForCorrection(a)
           \/ \E state \in {"pending", "in_flight"}, slots \in SUBSET Slot :
                 RecoverScan(state, slots)
  <2>1. UNCHANGED <<attemptVars, released>>
    BY <1>7 DEF AccountStep, Approve, RecoverScan, RecoverAborts, FreezeForCorrection,
       parentVars
  <2> QED
    BY <1>2, <2>1, Zenon
<1>8. CASE \/ \E w \in Worker : submit(w)
           \/ \E w \in Worker : SubmitRefused(w)
           \/ \E w \in Worker, pc \in {"answered", "failed"} : SubmitReturns(w, pc)
           \/ \E w \in Worker : OutcomeRefused(w)
           \/ \E w \in Worker : Crash(w)
  <2>1. UNCHANGED <<attemptVars, released>>
    BY <1>8 DEF submit, SubmitRefused, SubmitReturns, OutcomeRefused, Crash, parentVars
  <2> QED
    BY <1>2, <2>1, Zenon
<1>9. /\ \A a \in Auth, n \in Number, g \in 1 .. MaxGeneration : ~prepare(a, n, g)
      /\ \A w \in Worker, s \in Slot, g \in 1 .. MaxGeneration : ~mark_in_flight(w, s, g)
  BY Zenon DEF prepare, mark_in_flight
<1>10. \A a \in Auth : ~expire_unsent(a) /\ ~ReleaseConfirmed(a) /\ ~ReleasePart(a)
  BY <1>1, Zenon DEF expire_unsent, ReleaseConfirmed, ReleasePart
<1> QED
  BY <1>3, <1>4, <1>5, <1>6, <1>7, <1>8, <1>9, <1>10, Zenon DEF Next

(* An UNKNOWN attempt is permanent and bars the batch from new attempts,      *)
(* dispatches and releases, for every batch.                                  *)
THEOREM Barrier == Spec => UnknownFencesParent
<1>1. ASSUME Inv, [Next]_vars
      PROVE  [unknown_attempts # {} =>
                /\ unknown_attempts \subseteq unknown_attempts'
                /\ \A s \in Slot : attempt'[s] # attempt[s] =>
                      attempt'[s] \in {"abandoned", "confirmed", "unknown"}
                /\ released' = released]_vars
  BY <1>1, BarrierStep
<1> QED
  BY <1>1, InvAlways, PTL DEF Spec, UnknownFencesParent

(* Only submit calls the broker.                                              *)
LEMMA CallsStep ==
  ASSUME Inv, Next, calls' # calls
  PROVE  \E w \in Worker : submit(w)
  BY Zenon DEF Next, AccountStep, Approve, prepare, mark_in_flight, SubmitRefused,
     SubmitReturns, confirm, mark_unknown, OutcomeRefused, Crash, RecoverScan,
     recover_stale_pending, recover_stale_in_flight, RecoverAborts, expire_unsent,
     ReleaseConfirmed, ReleaseAll, ReleasePart, FreezeForCorrection

(* The broker is called only for a durable IN_FLIGHT attempt, under the fence *)
(* it was prepared with and with the account lock held.                       *)
THEOREM DurableFirst == Spec => PlaceOnlyAfterDurableDispatch
<1>1. ASSUME Inv, [Next]_vars
      PROVE  [\A s \in Slot : calls'[s] # calls[s] =>
                /\ attempt[s] \in {"in_flight", "unknown"}
                /\ prepared[s] = generation
                /\ running' = {generation}]_vars
  <2> SUFFICES ASSUME Next, NEW s \in Slot, calls'[s] # calls[s]
               PROVE  /\ attempt[s] \in {"in_flight", "unknown"}
                      /\ prepared[s] = generation
                      /\ running' = {generation}
    BY <1>1
  <2>1. PICK w \in Worker : submit(w)
    BY <1>1, CallsStep
  <2>2. dispatch[w] # Idle
    BY <2>1 DEF submit, Idle
  <2>3. s = dispatch[w].slot
    <3>1. calls \in [Slot -> Nat]
      BY <1>1 DEF Inv, TypeOK
    <3> QED
      BY <2>1, <3>1 DEF submit
  <2> QED
    BY <1>1, <2>1, <2>2, <2>3, Zenon DEF Inv, DispatcherHolds, submit, Fenced, Account!Begin
<1> QED
  BY <1>1, InvAlways, PTL DEF Spec, PlaceOnlyAfterDurableDispatch
=============================================================================
