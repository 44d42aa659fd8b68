---------------------- MODULE OperationalControlProofs ----------------------
(***************************************************************************)
(* Proofs about OperationalControl for every set of callers and keys,      *)
(* every bound on the projected blockers and every clock.                  *)
(***************************************************************************)
EXTENDS OperationalControl, FiniteSetTheorems, SequenceTheorems, WellFoundedInduction, TLAPS

USE BlockersAssumption, BoundAssumption

(* A command asks for the state its kind stands for.                        *)
Formed(command) ==
    /\ command.kind = "rearm" => command.target = Running
    /\ command.kind = "drain" => command.target = Draining
    /\ command.kind = "flatten" => command.target = Flattening

CallsFormed == \A c \in Caller : calls[c] # Idle => Formed(calls[c].command)

(* A transition carries an attempt while it drains or flattens, and the row *)
(* that opened the attempt is of the same epoch and state.                  *)
AttemptsBind ==
    \A i \in DOMAIN history :
        /\ history[i].active # 0 <=> InOperation(history[i].effective)
        /\ history[i].active # 0 =>
              /\ history[history[i].active].active = history[i].active
              /\ history[history[i].active].epoch = history[i].epoch
              /\ history[history[i].active].effective = history[i].effective

(* Without overflow the projection holds all that stopped the account.      *)
ProjectionComplete ==
    \A i \in DOMAIN history : ~history[i].overflow => history[i].blockers = StoppedSince(i)

(* A completion was recorded with the facts its outcome demands.            *)
OutcomesAllowed ==
    \A d \in completions :
        OutcomeAllowed(OperationOf(history[d.head].effective), d.outcome, d.settled, d.flat)

KeysDiffer ==
    \A i, j \in DOMAIN history : history[i].command.key = history[j].command.key => i = j

StoreHolds ==
    /\ Verifies
    /\ DecisionsAreOrdered
    /\ KeysDiffer
    /\ RearmIsEarned
    /\ AttemptsBind
    /\ ProjectionComplete
    /\ OutcomesAllowed

Inv == TypeOK /\ CallsFormed /\ StoreHolds

-----------------------------------------------------------------------------
(* The fields of a command, and of a call that has one.                     *)
LEMMA CommandFields ==
  ASSUME NEW x \in CommandType
  PROVE  /\ x.key \in Key /\ x.target \in State /\ x.requested \in Instant
         /\ x.evidence \in {NoEvidence} \union Evidence
         /\ x.kind \in DOMAIN OperatorTarget \union {"initialize", "trip", "rearm"}
BY DEF CommandType

LEMMA CallFields ==
  ASSUME NEW x \in Call
  PROVE  /\ x.stage \in {"requested", "verifying", "decided"} => x # Idle
         /\ x # Idle => x.command \in CommandType
         /\ x.stage = "decided" => x.decided \in Instant
<1>1. CASE x = Idle
  BY <1>1 DEF Idle
<1>2. CASE x \in [stage : {"requested", "verifying"}, command : CommandType]
  BY <1>2 DEF Idle
<1>3. CASE x \in [stage : {"decided"}, command : CommandType, decided : Instant]
  BY <1>3 DEF Idle
<1> QED
  BY <1>1, <1>2, <1>3 DEF Call

(* Steps that leave the two tables alone.                                   *)
LEMMA StoreKeeps ==
  ASSUME StoreHolds, UNCHANGED <<history, completions>>
  PROVE  StoreHolds'
<1>1. history' = history /\ completions' = completions
  OBVIOUS
<1>2. \A a : OutcomeOf(a)' = OutcomeOf(a)
  BY <1>1 DEF OutcomeOf
<1>3. \A i : StoppedSince(i)' = StoppedSince(i)
  BY <1>1 DEF StoppedSince
<1>4. Verifies'
  <2>1. \A d : CompletionBinds(d)' <=> CompletionBinds(d)
    BY <1>1 DEF CompletionBinds
  <2>2. \A i : RowVerifies(i)' <=> RowVerifies(i)
    BY <1>1, <1>2 DEF RowVerifies
  <2> QED
    BY <1>1, <2>1, <2>2 DEF StoreHolds, Verifies
<1>5. RearmDisposesAll'
  BY <1>1, <1>3 DEF StoreHolds, RearmIsEarned, RearmDisposesAll
<1>6. RearmFollowsCompletion'
  BY <1>1 DEF StoreHolds, RearmIsEarned, RearmFollowsCompletion
<1>7. AttemptsFollowFailures'
  BY <1>1, <1>2 DEF StoreHolds, RearmIsEarned, AttemptsFollowFailures
<1>8. DecisionsAreOrdered' /\ KeysDiffer' /\ AttemptsBind'
  BY <1>1, Zenon DEF StoreHolds, DecisionsAreOrdered, KeysDiffer, AttemptsBind
<1>9. ProjectionComplete' /\ OutcomesAllowed'
  BY <1>1, Zenon DEF StoreHolds, ProjectionComplete, OutcomesAllowed, StoppedSince
<1> QED
  BY <1>4, <1>5, <1>6, <1>7, <1>8, <1>9 DEF StoreHolds, RearmIsEarned

(* A call of c becomes v.                                                   *)
LEMMA CallKeeps ==
  ASSUME Inv, NEW c \in Caller, NEW v \in Call, v # Idle => Formed(v.command),
         calls' = [calls EXCEPT ![c] = v], UNCHANGED <<now, history, completions>>
  PROVE  Inv'
<1>1. StoreHolds'
  BY StoreKeeps DEF Inv
<1>2. TypeOK'
  BY DEF Inv, TypeOK
<1>3. CallsFormed'
  <2>1. SUFFICES ASSUME NEW b \in Caller, calls'[b] # Idle PROVE Formed(calls'[b].command)
    BY DEF CallsFormed
  <2>2. CASE b = c
    BY <2>1, <2>2 DEF Inv, TypeOK
  <2>3. CASE b # c
    BY <2>1, <2>3 DEF Inv, TypeOK, CallsFormed
  <2> QED
    BY <2>2, <2>3
<1> QED
  BY <1>1, <1>2, <1>3 DEF Inv

LEMMA TickKeeps ==
  ASSUME Inv, Tick
  PROVE  Inv'
<1>1. StoreHolds'
  BY StoreKeeps DEF Inv, Tick
<1>2. TypeOK' /\ CallsFormed'
  BY DEF Inv, TypeOK, CallsFormed, Tick, Instant
<1> QED
  BY <1>1, <1>2 DEF Inv

(* An operator's target is the state of its kind.                           *)
LEMMA OperatorTargets ==
  ASSUME NEW kind \in {"pause", "drain", "flatten", "halt"}
  PROVE  /\ OperatorTarget[kind] \in State /\ kind \in DOMAIN OperatorTarget
         /\ kind = "drain" => OperatorTarget[kind] = Draining
         /\ kind = "flatten" => OperatorTarget[kind] = Flattening
BY DEF OperatorTarget, State, Running, Paused, Draining, Flattening, Halted

(* A command that is requested now.                                         *)
LEMMA NewCommand ==
  ASSUME now \in Instant, NEW k \in Key, NEW target \in State,
         NEW kind \in DOMAIN OperatorTarget \union {"initialize", "trip", "rearm"}
  PROVE  /\ Command(k, kind, target) \in CommandType
         /\ Command(k, kind, target).kind = kind /\ Command(k, kind, target).target = target
BY DEF Command, CommandType

LEMMA RequestKeeps ==
  ASSUME Inv, NEW c \in Caller, NEW k \in Key, NEW target \in State,
         NEW kind \in DOMAIN OperatorTarget \union {"initialize", "trip", "rearm"},
         NEW stage \in {"requested", "verifying"},
         kind = "rearm" => target = Running,
         kind = "drain" => target = Draining,
         kind = "flatten" => target = Flattening,
         calls' = [calls EXCEPT ![c] = [stage |-> stage, command |-> Command(k, kind, target)]],
         UNCHANGED <<now, history, completions>>
  PROVE  Inv'
<1> DEFINE x == Command(k, kind, target)
           v == [stage |-> stage, command |-> x]
<1>1. now \in Instant
  BY DEF Inv, TypeOK
<1>2. x \in CommandType /\ x.kind = kind /\ x.target = target
  BY <1>1, NewCommand
<1> HIDE DEF x
<1>3. v \in Call /\ v.command = x
  BY <1>2 DEF Call
<1>4. Formed(v.command)
  BY <1>2, <1>3 DEF Formed
<1>5. calls' = [calls EXCEPT ![c] = v]
  BY DEF x
<1> HIDE DEF v
<1> QED
  BY <1>3, <1>4, <1>5, CallKeeps, Zenon

LEMMA ExecuteKeeps ==
  ASSUME Inv, NEW c \in Caller, NEW k \in OperatorKey, NEW kind \in Offered, Execute(c, k, kind)
  PROVE  Inv'
<1>1. kind \in {"pause", "drain", "flatten", "halt"} /\ k \in Key
  BY OfferedAssumption DEF Key
<1>2. /\ OperatorTarget[kind] \in State /\ kind \in DOMAIN OperatorTarget
      /\ kind = "drain" => OperatorTarget[kind] = Draining
      /\ kind = "flatten" => OperatorTarget[kind] = Flattening
      /\ kind # "rearm"
  BY <1>1, OperatorTargets
<1> QED
  BY <1>1, <1>2, RequestKeeps, Zenon DEF Execute

LEMMA ExecuteRearmKeeps ==
  ASSUME Inv, NEW c \in Caller, NEW k \in OperatorKey, ExecuteRearm(c, k)
  PROVE  Inv'
<1>1. k \in Key /\ Running \in State
  BY DEF Key, State, Running, Halted
<1>2. "rearm" # "drain" /\ "rearm" # "flatten"
  OBVIOUS
<1> QED
  BY <1>1, <1>2, RequestKeeps, Zenon DEF ExecuteRearm

LEMMA TripKeeps ==
  ASSUME Inv, NEW c \in Caller, NEW k \in BreakerKey, NEW kind \in {"initialize", "trip"},
         NEW target \in {Paused, Halted}, Trip(c, k, kind, target)
  PROVE  Inv'
<1>1. k \in Key /\ target \in State
  BY DEF Key, State, Running, Paused, Halted
<1> QED
  BY <1>1, RequestKeeps, Zenon DEF Trip

LEMMA EndKeeps ==
  ASSUME Inv, NEW c \in Caller, calls' = [calls EXCEPT ![c] = Idle],
         UNCHANGED <<now, history, completions>>
  PROVE  Inv'
<1>1. Idle \in Call
  BY DEF Call
<1> QED
  BY <1>1, CallKeeps, Zenon

LEMMA DecideKeeps ==
  ASSUME Inv, NEW c \in Caller, Decide(c)
  PROVE  Inv'
<1> DEFINE x == calls[c].command
           v == [stage |-> "decided", command |-> x, decided |-> now]
<1>1. now \in Instant /\ x \in CommandType /\ Formed(x)
  BY CallFields DEF Inv, TypeOK, CallsFormed, Decide
<1>2. v \in Call /\ v.command = x
  BY <1>1 DEF Call
<1>3. calls' = [calls EXCEPT ![c] = v]
  BY DEF Decide
<1> HIDE DEF v, x
<1> QED
  BY <1>1, <1>2, <1>3, CallKeeps, Zenon DEF Decide

LEMMA VerifyKeeps ==
  ASSUME Inv, NEW c \in Caller, NEW facts \in Facts, NEW completion \in completions \union {NoOutcome},
         NEW expires \in Instant \union {MaxTime + 1},
         Verify(c, facts.healthy, facts.disposed, completion, expires)
  PROVE  Inv'
<1> DEFINE x == calls[c].command
           e == [head |-> Len(history), checked |-> x.requested, expires |-> expires,
                 healthy |-> facts.healthy, disposed |-> facts.disposed, completion |-> completion]
           y == [x EXCEPT !.evidence = e]
           v == [stage |-> "requested", command |-> y]
<1>1. x \in CommandType /\ Formed(x) /\ x.requested \in Instant
  BY CallFields, CommandFields DEF Inv, TypeOK, CallsFormed, Verify
<1>2. facts.healthy \in BOOLEAN /\ facts.disposed \in SUBSET Nat
  <2>1. Outstanding \in SUBSET Nat
    BY DEF Outstanding, Verify, Inv, TypeOK, Row, Last
  <2>2. {} \in SUBSET Nat
    OBVIOUS
  <2>3. CASE facts = [healthy |-> TRUE, disposed |-> Outstanding]
    BY <2>1, <2>3
  <2>4. CASE facts = [healthy |-> FALSE, disposed |-> Outstanding]
    BY <2>1, <2>4
  <2>5. CASE facts = [healthy |-> TRUE, disposed |-> {}]
    BY <2>2, <2>5
  <2> QED
    BY <2>3, <2>4, <2>5 DEF Facts
<1>3. e \in Evidence
  <2>1. Len(history) \in Nat /\ expires \in Nat /\ completion \in {NoOutcome} \union Completion
    BY DEF Inv, TypeOK, Instant
  <2> QED
    BY <1>1, <1>2, <2>1 DEF Evidence
<1> HIDE DEF e
<1>4. y \in CommandType /\ y.kind = x.kind /\ y.target = x.target
  BY <1>1, <1>3 DEF CommandType
<1> HIDE DEF x, y
<1>5. v \in Call /\ v.command = y
  BY <1>4 DEF Call
<1>6. Formed(y)
  BY <1>1, <1>4 DEF Formed
<1>7. calls' = [calls EXCEPT ![c] = v]
  BY DEF Verify, x, y, e
<1> HIDE DEF v
<1> QED
  BY <1>5, <1>6, <1>7, CallKeeps, Zenon DEF Verify

-----------------------------------------------------------------------------
(* A non-empty set of transitions has an oldest one.                        *)
LEMMA OldestIsMember ==
  ASSUME NEW n \in Nat, NEW S \in SUBSET (1..n), S # {}
  PROVE  Min(S) \in S
<1>1. S \subseteq Nat
  OBVIOUS
<1>2. PICK x \in S : \A y \in S : ~(<<y, x>> \in OpToRel(<, Nat))
  BY <1>1, NatLessThanWellFounded, WFMin, Zenon
<1>3. ASSUME NEW q \in S PROVE x <= q
  <2>1. ~(q < x)
    BY <1>1, <1>2, Zenon DEF OpToRel
  <2> QED
    BY <1>1, <2>1
<1> QED
  BY <1>3, Zenon DEF Min

(* What the bounded projection holds after one more transition.             *)
LEMMA BlockersFacts ==
  ASSUME NEW n \in Nat, NEW prior, NEW effective,
         prior.blockers \in SUBSET (1..n), Cardinality(prior.blockers) <= MaxBlockers,
         prior.overflow \in BOOLEAN
  PROVE  LET b == Blockers(prior, n + 1, effective)
         IN  /\ b.set \in SUBSET (1..(n + 1)) /\ Cardinality(b.set) <= MaxBlockers
             /\ b.overflow \in BOOLEAN
             /\ effective = Running => b.set = {}
             /\ effective # Running /\ ~b.overflow =>
                   ~prior.overflow /\ b.set = prior.blockers \union {n + 1}
<1> DEFINE pending == prior.blockers \union {n + 1}
           over == Cardinality(pending) > MaxBlockers
           b == Blockers(prior, n + 1, effective)
<1>1. /\ IsFiniteSet(prior.blockers) /\ Cardinality(prior.blockers) \in Nat
  <2>1. IsFiniteSet(1..n)
    BY FS_Interval
  <2> QED
    BY <2>1, FS_Subset, FS_CardinalityType, Zenon
<1>2. /\ IsFiniteSet(pending) /\ Cardinality(pending) \in Nat
      /\ Cardinality(pending) <= MaxBlockers + 1
  <2>1. IsFiniteSet(pending) /\ Cardinality(pending) =
            IF n + 1 \in prior.blockers THEN Cardinality(prior.blockers) ELSE Cardinality(prior.blockers) + 1
    BY <1>1, FS_AddElement, Zenon
  <2> QED
    BY <1>1, <2>1
<1>3. n + 1 \in Nat /\ pending \in SUBSET (1..(n + 1)) /\ pending # {}
  OBVIOUS
<1>4. Min(pending) \in pending
  BY <1>3, OldestIsMember, Zenon
<1>5. Cardinality(pending \ {Min(pending)}) <= MaxBlockers
  <2> DEFINE oldest == Min(pending)
  <2> HIDE DEF oldest, pending
  <2>1. Cardinality(pending \ {oldest}) = Cardinality(pending) - 1
    BY <1>2, <1>4, FS_RemoveElement, Zenon DEF oldest
  <2> QED
    BY <1>2, <2>1 DEF oldest
<1>6. CASE effective = Running
  <2>1. b = [set |-> {}, overflow |-> FALSE]
    BY <1>6 DEF Blockers
  <2> HIDE DEF b
  <2>2. b.set = {} /\ b.overflow = FALSE /\ Cardinality({}) = 0
    BY <2>1, FS_EmptySet
  <2>3. Cardinality(b.set) = 0 /\ 0 <= MaxBlockers
    BY <2>2
  <2>4. b.set \in SUBSET (1..(n + 1)) /\ b.overflow \in BOOLEAN /\ b.set = {}
    BY <2>2, Zenon
  <2> QED
    BY <1>6, <2>3, <2>4 DEF b
<1>7. CASE effective # Running /\ over
  <2>1. b = [set |-> pending \ {Min(pending)}, overflow |-> prior.overflow \/ over]
    BY <1>7 DEF Blockers
  <2> HIDE DEF b
  <2>2. b.set = pending \ {Min(pending)} /\ b.overflow = TRUE
    BY <1>7, <2>1, Zenon
  <2> QED
    BY <1>3, <1>5, <1>7, <2>2, Zenon DEF b
<1>8. CASE effective # Running /\ ~over
  <2>1. b = [set |-> pending, overflow |-> prior.overflow \/ over]
    BY <1>8 DEF Blockers
  <2> HIDE DEF b
  <2>2. b.set = pending /\ b.overflow = prior.overflow
    BY <1>8, <2>1
  <2> QED
    BY <1>2, <1>3, <1>8, <2>2 DEF b
<1> QED
  BY <1>6, <1>7, <1>8

(* The last transition, or that there is none.                              *)
LEMMA PriorFacts ==
  ASSUME TypeOK
  PROVE  LET n == Len(history) prior == Prior(history)
         IN  /\ n \in Nat /\ DOMAIN history = 1..n
             /\ prior.blockers \in SUBSET (1..n) /\ Cardinality(prior.blockers) <= MaxBlockers
             /\ prior.overflow \in BOOLEAN
             /\ prior.active \in 0..n /\ prior.epoch \in 0..n
             /\ history = << >> => n = 0 /\ prior = NoRow /\ prior.effective = -1
             /\ history # << >> => /\ n \in 1..n /\ prior = history[n] /\ Last(history) = history[n]
                                   /\ prior.effective \in State /\ prior.epoch \in 1..n
<1> DEFINE n == Len(history)
           prior == Prior(history)
<1>1. history \in Seq(Row) /\ n \in Nat /\ DOMAIN history = 1..n
  BY DEF TypeOK
<1>2. CASE history = << >>
  BY <1>1, <1>2, FS_EmptySet DEF Prior, NoRow
<1>3. CASE history # << >>
  <2>1. n \in 1..n /\ prior = history[n] /\ Last(history) = history[n]
    BY <1>1, <1>3 DEF Prior, Last
  <2>2. history[n] \in Row
    BY <1>1, <2>1
  <2>3. history[n].overflow \in BOOLEAN /\ history[n].effective \in State
    BY <2>2 DEF Row
  <2>4. /\ history[n].epoch \in 1..n /\ history[n].active \in 0..n
        /\ history[n].blockers \in SUBSET (1..n)
        /\ Cardinality(history[n].blockers) <= MaxBlockers
    BY <1>1, <2>1 DEF TypeOK
  <2> HIDE DEF prior, n
  <2> QED
    BY <1>1, <1>3, <2>1, <2>3, <2>4 DEF prior, n
<1> QED
  BY <1>2, <1>3

(* The transition that a command appends.                                   *)
LEMMA RowFacts ==
  ASSUME TypeOK, NEW x \in CommandType, NEW dec \in Instant, NEW o
  PROVE  LET t == Transition(history, x, dec, o) n == Len(history) prior == Prior(history)
         IN  /\ t \in Row
             /\ t.command = x /\ t.decided = dec
             /\ t.effective \in State /\ t.effective = Joined(prior.effective, x)
             /\ t.epoch = IF t.effective # prior.effective THEN n + 1 ELSE prior.epoch
             /\ t.active = Attempt(prior, n + 1, t.effective, x, o)
             /\ t.epoch \in 1..(n + 1) /\ t.active \in 0..(n + 1)
             /\ t.blockers \in SUBSET (1..(n + 1)) /\ Cardinality(t.blockers) <= MaxBlockers
             /\ t.effective = Running => t.blockers = {}
             /\ t.effective # Running /\ ~t.overflow =>
                   ~prior.overflow /\ t.blockers = prior.blockers \union {n + 1}
<1> DEFINE n == Len(history)
           prior == Prior(history)
           effective == Joined(prior.effective, x)
           b == Blockers(prior, n + 1, effective)
           epoch == IF effective # prior.effective THEN n + 1 ELSE prior.epoch
           active == Attempt(prior, n + 1, effective, x, o)
           t == Transition(history, x, dec, o)
<1>1. /\ n \in Nat
      /\ prior.blockers \in SUBSET (1..n) /\ Cardinality(prior.blockers) <= MaxBlockers
      /\ prior.overflow \in BOOLEAN
      /\ prior.active \in 0..n
      /\ prior.effective = -1 \/ (prior.effective \in State /\ prior.epoch \in 1..n)
  BY PriorFacts, SMTT(30)
<1>2. t = [command |-> x, effective |-> effective, epoch |-> epoch, blockers |-> b.set,
           overflow |-> b.overflow, active |-> active, decided |-> dec]
  BY DEF Transition
<1> HIDE DEF n, prior
<1>3. effective \in State /\ effective # -1
  BY <1>1, CommandFields DEF Joined, State, Running, Halted
<1>4. active \in 0..(n + 1)
  BY <1>1 DEF Attempt
<1> HIDE DEF effective, active
<1>5. epoch \in 1..(n + 1)
  BY <1>1, <1>3
<1>6. /\ b.set \in SUBSET (1..(n + 1)) /\ Cardinality(b.set) <= MaxBlockers
      /\ b.overflow \in BOOLEAN
      /\ effective = Running => b.set = {}
      /\ effective # Running /\ ~b.overflow =>
            ~prior.overflow /\ b.set = prior.blockers \union {n + 1}
  BY <1>1, BlockersFacts
<1> HIDE DEF b, t
<1>7. /\ t.command = x /\ t.effective = effective /\ t.epoch = epoch /\ t.blockers = b.set
      /\ t.overflow = b.overflow /\ t.active = active /\ t.decided = dec
  BY <1>2
<1>8. t \in Row
  <2>1. epoch \in Nat /\ active \in Nat /\ b.set \in SUBSET Nat
    BY <1>1, <1>4, <1>5, <1>6
  <2> HIDE DEF epoch
  <2> QED
    BY <1>2, <1>3, <1>6, <2>1 DEF Row
<1> QED
  BY <1>3, <1>4, <1>5, <1>6, <1>7, <1>8 DEF t, effective, active, n, prior

(* Appending a row leaves the rows before it where they are.                *)
LEMMA AppendFacts ==
  ASSUME NEW s \in Seq(Row), NEW e \in Row
  PROVE  LET n == Len(s) h == Append(s, e)
         IN  /\ h \in Seq(Row) /\ Len(h) = n + 1 /\ DOMAIN h = 1..(n + 1)
             /\ \A i \in 1..n : h[i] = s[i]
             /\ h[n + 1] = e
             /\ \A i \in 1..(n + 1) : SubSeq(h, 1, i - 1) = SubSeq(s, 1, i - 1)
             /\ SubSeq(h, 1, n) = s
<1> DEFINE n == Len(s)
           h == Append(s, e)
<1>1. /\ h \in Seq(Row) /\ Len(h) = n + 1 /\ \A i \in 1..n : h[i] = s[i]
      /\ h[n + 1] = e /\ n \in Nat
  BY AppendProperties, LenProperties
<1> HIDE DEF h
<1>2. ASSUME NEW i \in 1..(n + 1) PROVE SubSeq(h, 1, i - 1) = SubSeq(s, 1, i - 1)
  BY <1>1, <1>2
<1>3. SubSeq(s, 1, n) = s
  BY SubSeqFull
<1>4. SubSeq(h, 1, n) = s
  BY <1>1, <1>2, <1>3
<1> QED
  BY <1>1, <1>2, <1>4 DEF h

-----------------------------------------------------------------------------
(* A command x, decided at dec, appends the transition t.                   *)
Appending(x, dec, t) ==
    /\ x \in CommandType /\ Formed(x) /\ dec \in Instant
    /\ Recorded(x.key) = {} /\ EvidenceIsDurable(x)
    /\ Admissible(history, x, dec, ActiveOutcome(x))
    /\ t = Transition(history, x, dec, ActiveOutcome(x))
    /\ history' = Append(history, t)
    /\ UNCHANGED completions

(* The row that is appended.                                                *)
LEMMA AppendedRow ==
  ASSUME TypeOK, NEW x, NEW dec, NEW t, Appending(x, dec, t)
  PROVE  /\ history \in Seq(Row) /\ t \in Row /\ history' = Append(history, t)
         /\ t.command = x /\ t.decided = dec
         /\ t.effective \in State /\ t.effective = Joined(Prior(history).effective, x)
         /\ t.epoch = IF t.effective # Prior(history).effective THEN Len(history) + 1 ELSE Prior(history).epoch
         /\ t.active = Attempt(Prior(history), Len(history) + 1, t.effective, x, ActiveOutcome(x))
         /\ t.epoch \in 1..(Len(history) + 1) /\ t.active \in 0..(Len(history) + 1)
         /\ t.blockers \in SUBSET (1..(Len(history) + 1)) /\ Cardinality(t.blockers) <= MaxBlockers
         /\ t.effective = Running => t.blockers = {}
         /\ t.effective # Running /\ ~t.overflow =>
               /\ ~Prior(history).overflow
               /\ t.blockers = Prior(history).blockers \union {Len(history) + 1}
<1>1. PICK o : o = ActiveOutcome(x)
  OBVIOUS
<1>2. /\ x \in CommandType /\ dec \in Instant /\ history' = Append(history, t)
      /\ t = Transition(history, x, dec, o)
  BY <1>1 DEF Appending
<1>3. history \in Seq(Row)
  BY DEF TypeOK
<1> QED
  BY <1>1, <1>2, <1>3, RowFacts, SMTT(30)

(* The history has grown by t; n is its length before.                      *)
Grown(n, t) ==
    /\ n = Len(history) /\ n \in Nat /\ DOMAIN history = 1..n
    /\ history' \in Seq(Row) /\ Len(history') = n + 1 /\ DOMAIN history' = 1..(n + 1)
    /\ \A i \in 1..n : history'[i] = history[i]
    /\ history'[n + 1] = t
    /\ history = << >> <=> n = 0
    /\ n # 0 => Last(history) = history[n] /\ Prior(history) = history[n] /\ history[n] \in Row
    /\ n = 0 => Prior(history) = NoRow

LEMMA HistoryGrows ==
  ASSUME TypeOK, NEW x, NEW dec, NEW t, Appending(x, dec, t)
  PROVE  Grown(Len(history), t)
<1> DEFINE n == Len(history)
<1>1. history \in Seq(Row) /\ t \in Row /\ history' = Append(history, t)
  BY AppendedRow
<1>2. /\ n \in Nat /\ DOMAIN history = 1..n
      /\ history' \in Seq(Row) /\ Len(history') = n + 1 /\ DOMAIN history' = 1..(n + 1)
      /\ \A i \in 1..n : history'[i] = history[i]
      /\ history'[n + 1] = t
  BY <1>1, AppendFacts, LenProperties
<1>3. history = << >> <=> n = 0
  BY <1>1
<1>4. n # 0 => Last(history) = history[n] /\ Prior(history) = history[n] /\ history[n] \in Row
  BY <1>1, <1>2, <1>3 DEF Last, Prior
<1>5. n = 0 => Prior(history) = NoRow
  BY <1>3 DEF Prior
<1> HIDE DEF n
<1> QED
  BY <1>2, <1>3, <1>4, <1>5 DEF Grown, n

(* The row a transition adds has its type.                                  *)
LEMMA AppendTypes ==
  ASSUME TypeOK, NEW x, NEW dec, NEW t, Appending(x, dec, t),
         now' = now, calls' \in [Caller -> Call]
  PROVE  TypeOK'
<1> DEFINE n == Len(history)
<1>1. Grown(n, t)
  BY HistoryGrows
<1>2. /\ t.epoch \in 1..(n + 1) /\ t.active \in 0..(n + 1)
      /\ t.blockers \in SUBSET (1..(n + 1)) /\ Cardinality(t.blockers) <= MaxBlockers
  BY AppendedRow
<1> HIDE DEF n
<1>3. ASSUME NEW i \in 1..(n + 1)
      PROVE  /\ history'[i].epoch \in 1..i /\ history'[i].active \in 0..i
             /\ history'[i].blockers \subseteq 1..i
             /\ Cardinality(history'[i].blockers) <= MaxBlockers
  <2>1. CASE i = n + 1
    BY <1>1, <1>2, <2>1 DEF Grown
  <2>2. CASE i \in 1..n
    BY <1>1, <2>2, Zenon DEF Grown, TypeOK
  <2> QED
    BY <1>1, <2>1, <2>2 DEF Grown
<1>4. history' \in Seq(Row) /\ DOMAIN history' = 1..(n + 1)
  BY <1>1 DEF Grown
<1>5. now' \in Instant /\ completions' \subseteq Completion
  BY DEF TypeOK, Appending
<1> QED
  BY <1>3, <1>4, <1>5 DEF TypeOK

(* Decisions stay in order: a command was requested after the last one.     *)
LEMMA AppendOrdered ==
  ASSUME TypeOK, DecisionsAreOrdered, NEW x, NEW dec, NEW t, Appending(x, dec, t)
  PROVE  DecisionsAreOrdered'
<1> DEFINE n == Len(history)
<1>1. Grown(n, t)
  BY HistoryGrows
<1>2. t.decided = dec /\ dec \in Int /\ x.requested \in Int
  BY AppendedRow, CommandFields, SMTT(30) DEF Appending, Instant
<1> HIDE DEF n
<1>3. n # 0 => history[n].decided <= dec
  <2>1. n # 0 => history[n].decided \in Int /\ x.requested >= history[n].decided /\ x.requested <= dec
    BY <1>1, SMTT(30) DEF Appending, Admissible, Grown, Row, Instant
  <2> QED
    BY <1>2, <2>1
<1>4. ASSUME NEW i \in 1..n PROVE history[i].decided <= dec
  <2>1. history[i].decided <= history[n].decided
    BY <1>1 DEF Grown, DecisionsAreOrdered
  <2>2. n # 0 /\ history[i] \in Row /\ history[n] \in Row
    BY <1>1 DEF Grown, TypeOK
  <2>3. history[i].decided \in Int /\ history[n].decided \in Int
    BY <2>2 DEF Row, Instant
  <2> QED
    BY <1>2, <1>3, <2>1, <2>2, <2>3
<1>5. ASSUME NEW i \in 1..(n + 1), NEW j \in 1..(n + 1), i <= j
      PROVE  history'[i].decided <= history'[j].decided
  <2>1. CASE j \in 1..n
    BY <1>1, <1>5, <2>1 DEF Grown, DecisionsAreOrdered
  <2>2. CASE j = n + 1 /\ i \in 1..n
    BY <1>1, <1>2, <1>4, <2>2 DEF Grown
  <2>3. CASE j = n + 1 /\ i = n + 1
    BY <1>1, <1>2, <2>3 DEF Grown
  <2> QED
    BY <1>1, <1>5, <2>1, <2>2, <2>3 DEF Grown
<1> QED
  BY <1>1, <1>5 DEF DecisionsAreOrdered, Grown

(* Keys stay different: a key with a receipt does not append.               *)
LEMMA AppendKeys ==
  ASSUME TypeOK, KeysDiffer, NEW x, NEW dec, NEW t, Appending(x, dec, t)
  PROVE  KeysDiffer'
<1> DEFINE n == Len(history)
<1>1. Grown(n, t)
  BY HistoryGrows
<1>2. t.command = x
  BY AppendedRow
<1> HIDE DEF n
<1>3. ASSUME NEW i \in 1..n PROVE history[i].command.key # x.key
  BY <1>1, SMTT(30) DEF Grown, Appending, Recorded
<1>4. ASSUME NEW i \in 1..(n + 1), NEW j \in 1..(n + 1),
             history'[i].command.key = history'[j].command.key
      PROVE  i = j
  BY <1>1, <1>2, <1>3, <1>4, SMTT(30) DEF Grown, KeysDiffer
<1> QED
  BY <1>1, <1>4 DEF KeysDiffer, Grown

(* What stopped the account up to a row does not depend on later rows.      *)
LEMMA StoppedKeeps ==
  ASSUME NEW n, NEW t, Grown(n, t)
  PROVE  \A i \in 1..n : StoppedSince(i)' = StoppedSince(i)
<1>1. SUFFICES ASSUME NEW i \in 1..n
               PROVE  {j \in 1..i : \A m \in j..i : history'[m].effective > Running}
                        = {j \in 1..i : \A m \in j..i : history[m].effective > Running}
  BY DEF StoppedSince
<1>2. ASSUME NEW j \in 1..i, NEW m \in j..i PROVE history'[m] = history[m]
  BY DEF Grown
<1> QED
  BY <1>2

(* The projection stays complete as long as it has not overflowed.          *)
LEMMA AppendProjection ==
  ASSUME TypeOK, ProjectionComplete, NEW x, NEW dec, NEW t, Appending(x, dec, t)
  PROVE  ProjectionComplete'
<1>1. PICK n : n = Len(history) /\ Grown(n, t)
  BY HistoryGrows
<1>2. PICK p : p = Prior(history)
  OBVIOUS
<1>3. /\ t.effective \in State
      /\ t.effective = Running => t.blockers = {}
      /\ t.effective # Running /\ ~t.overflow =>
            ~p.overflow /\ t.blockers = p.blockers \union {n + 1}
  BY <1>1, <1>2, AppendedRow, SMTT(30)
<1>4. \A i \in 1..n : StoppedSince(i)' = StoppedSince(i)
  BY <1>1, StoppedKeeps
<1>5. n \in Nat /\ history'[n + 1] = t /\ \A m \in 1..n : history'[m] = history[m]
  BY <1>1 DEF Grown
<1>6. ASSUME t.effective = Running PROVE StoppedSince(n + 1)' = t.blockers
  <2>1. ASSUME NEW j \in StoppedSince(n + 1)' PROVE FALSE
    <3>1. n + 1 \in j..(n + 1) /\ \A m \in j..(n + 1) : history'[m].effective > Running
      BY <1>5 DEF StoppedSince
    <3> QED
      BY <1>5, <1>6, <3>1 DEF Running
  <2> QED
    BY <1>3, <1>6, <2>1
<1>7. ASSUME t.effective # Running, ~t.overflow PROVE StoppedSince(n + 1)' = t.blockers
  <2>1. t.effective > Running
    BY <1>3, <1>7 DEF State, Running, Halted
  <2>2. p.blockers = IF n = 0 THEN {} ELSE StoppedSince(n)
    <3>1. CASE n = 0
      BY <1>1, <1>2, <3>1 DEF Grown, NoRow
    <3>2. CASE n # 0
      BY <1>1, <1>2, <1>3, <1>7, <3>2, SMTT(30) DEF Grown, ProjectionComplete
    <3> QED
      BY <3>1, <3>2
  <2>3. ASSUME NEW j PROVE j \in StoppedSince(n + 1)' <=> j \in p.blockers \union {n + 1}
    <3>1. j \in StoppedSince(n + 1)' <=>
            j \in 1..(n + 1) /\ \A m \in j..(n + 1) : history'[m].effective > Running
      BY DEF StoppedSince
    <3>2. CASE j \in 1..n
      <4>1. \A m \in j..n : history'[m] = history[m]
        BY <1>5, <3>2
      <4>2. j \in StoppedSince(n + 1)' <=> \A m \in j..n : history[m].effective > Running
        BY <1>5, <2>1, <3>1, <3>2, <4>1
      <4>3. j \in StoppedSince(n) <=> \A m \in j..n : history[m].effective > Running
        BY <3>2 DEF StoppedSince
      <4>4. n # 0 /\ j # n + 1
        BY <1>5, <3>2
      <4> QED
        BY <2>2, <4>2, <4>3, <4>4
    <3>3. CASE j = n + 1
      BY <1>5, <2>1, <3>1, <3>3
    <3>4. CASE j \notin 1..(n + 1)
      <4>1. j \notin p.blockers
        BY <1>5, <2>2, <3>4 DEF StoppedSince
      <4> QED
        BY <1>5, <3>1, <3>4, <4>1
    <3> QED
      BY <1>5, <3>2, <3>3, <3>4
  <2> QED
    BY <1>3, <1>7, <2>3, SMTT(30)
<1>8. ASSUME NEW i \in 1..(n + 1), ~history'[i].overflow
      PROVE  history'[i].blockers = StoppedSince(i)'
  <2>1. CASE i = n + 1
    BY <1>5, <1>6, <1>7, <1>8, <2>1
  <2>2. CASE i \in 1..n
    BY <1>1, <1>4, <1>5, <1>8, <2>2 DEF ProjectionComplete, Grown
  <2> QED
    BY <1>5, <2>1, <2>2
<1> QED
  BY <1>1, <1>8 DEF ProjectionComplete, Grown

(* An attempt stays with the row that opened it.                            *)
LEMMA AppendBinds ==
  ASSUME TypeOK, AttemptsBind, NEW x, NEW dec, NEW t, Appending(x, dec, t)
  PROVE  AttemptsBind'
<1>1. PICK n : n = Len(history) /\ Grown(n, t)
  BY HistoryGrows
<1>2. PICK p : p = Prior(history)
  OBVIOUS
<1>3. /\ t.epoch = IF t.effective # p.effective THEN n + 1 ELSE p.epoch
      /\ t.active = Attempt(p, n + 1, t.effective, x, ActiveOutcome(x))
      /\ t.effective \in State
  BY <1>1, <1>2, AppendedRow, SMTT(30)
<1>4. /\ n \in Nat /\ history'[n + 1] = t /\ \A m \in 1..n : history'[m] = history[m]
      /\ n # 0 => p = history[n]
      /\ n = 0 => p = NoRow
      /\ DOMAIN history = 1..n /\ DOMAIN history' = 1..(n + 1)
  BY <1>1, <1>2 DEF Grown
<1>5. ASSUME NEW i \in 1..n PROVE history[i].active \in 0..i
  BY <1>4 DEF TypeOK
<1>6. CASE ~InOperation(t.effective)
  <2>1. t.active = 0
    BY <1>3, <1>6 DEF Attempt
  <2> QED
    BY <1>4, <1>5, <1>6, <2>1, SMTT(30) DEF AttemptsBind
<1>7. CASE InOperation(t.effective) /\ t.active = n + 1
  BY <1>4, <1>5, <1>7, SMTT(30) DEF AttemptsBind
<1>8. CASE InOperation(t.effective) /\ t.active # n + 1
  <2>1. t.effective = p.effective /\ t.active = p.active /\ t.epoch = p.epoch
    BY <1>3, <1>8 DEF Attempt
  <2>2. n # 0
    BY <1>3, <1>4, <2>1 DEF NoRow, State, Running, Halted
  <2>3. n \in 1..n /\ t.effective = history[n].effective /\ t.active = history[n].active
        /\ t.epoch = history[n].epoch /\ history[n].active \in 0..n
    BY <1>4, <1>5, <2>1, <2>2
  <2>4. /\ t.active # 0 /\ t.active \in 1..n
        /\ history[t.active].active = t.active
        /\ history[t.active].epoch = t.epoch /\ history[t.active].effective = t.effective
    BY <1>4, <1>8, <2>3, SMTT(30) DEF AttemptsBind
  <2> QED
    BY <1>4, <1>5, <1>8, <2>4, SMTT(30) DEF AttemptsBind
<1> QED
  BY <1>6, <1>7, <1>8

(* Rows before the new one replay as they did.                              *)
LEMMA RowsKeep ==
  ASSUME TypeOK, NEW x, NEW dec, NEW t, Appending(x, dec, t), NEW i \in DOMAIN history, RowVerifies(i)
  PROVE  RowVerifies(i)'
<1>1. PICK n : n = Len(history) /\ Grown(n, t)
  BY HistoryGrows
<1>2. /\ n \in Nat /\ i \in 1..n /\ history'[i] = history[i]
      /\ i > 1 => history'[i - 1] = history[i - 1]
  BY <1>1 DEF Grown
<1>3. SubSeq(history', 1, i - 1) = SubSeq(history, 1, i - 1)
  <2>1. history \in Seq(Row) /\ t \in Row /\ history' = Append(history, t)
    BY AppendedRow, SMTT(30)
  <2> QED
    BY <1>1, <1>2, <2>1, AppendFacts
<1>4. \A a : OutcomeOf(a)' = OutcomeOf(a)
  BY DEF OutcomeOf, Appending
<1>5. CASE i > 1
  BY <1>2, <1>3, <1>4, <1>5, Zenon DEF RowVerifies
<1>6. CASE ~(i > 1)
  BY <1>2, <1>3, <1>4, <1>6, Zenon DEF RowVerifies
<1> QED
  BY <1>5, <1>6

(* The new row replays, although the replay is handed a completion only     *)
(* where the row opened a retry.                                            *)
LEMMA RowReplays ==
  ASSUME TypeOK, NEW x, NEW dec, NEW t, Appending(x, dec, t), NEW n, n = Len(history), Grown(n, t)
  PROVE  RowVerifies(n + 1)'
<1> DEFINE o == ActiveOutcome(x)
<1>1. PICK p : p = Prior(history)
  OBVIOUS
<1>2. /\ t.command = x /\ t.decided = dec
      /\ t.effective = Joined(p.effective, x) /\ t.effective \in State
      /\ t.active = Attempt(p, n + 1, t.effective, x, o)
  BY <1>1, AppendedRow, SMTT(30)
<1>3. /\ n \in Nat /\ (n + 1) - 1 = n /\ history'[n + 1] = t
      /\ n # 0 => history'[n] = history[n] /\ p = history[n] /\ Last(history) = history[n]
      /\ n = 0 => p = NoRow
      /\ history = << >> <=> n = 0
      /\ n + 1 > 1 <=> n # 0
  BY <1>1 DEF Grown
<1>4. SubSeq(history', 1, n) = history
  <2>1. history \in Seq(Row) /\ t \in Row /\ history' = Append(history, t)
    BY AppendedRow, SMTT(30)
  <2> QED
    BY <2>1, AppendFacts
<1>5. \A a : OutcomeOf(a)' = OutcomeOf(a)
  BY DEF OutcomeOf, Appending
<1>6. t = Transition(history, x, dec, o) /\ Admissible(history, x, dec, o) /\ Formed(x)
  BY DEF Appending
<1> DEFINE retried == /\ n # 0 /\ InOperation(p.effective)
                      /\ x.kind = OperationOf(p.effective)
                      /\ t.active = n + 1
           outcome == IF retried THEN OutcomeOf(p.active) ELSE {}
<1>7. CASE x.kind = "rearm"
  <2>1. n # 0 /\ p.effective > Running
    BY <1>3, <1>6, <1>7, SMTT(30) DEF Admissible, ValidRearm
  <2>2. x.target = Running /\ x.requested >= p.decided /\ x.requested <= dec
    BY <1>3, <1>6, <1>7, <2>1, SMTT(30) DEF Admissible, Formed
  <2>3. o = {}
    BY <1>7 DEF ActiveOutcome
  <2> HIDE DEF o
  <2> QED
    BY <1>2, <1>3, <1>4, <1>6, <1>7, <2>1, <2>2, <2>3, Zenon DEF RowVerifies
<1>8. CASE x.kind # "rearm" /\ retried
  <2>1. o = OutcomeOf(p.active)
    BY <1>3, <1>8, SMTT(30) DEF ActiveOutcome
  <2>2. t.effective = p.effective
    BY <1>2, <1>6, <1>8 DEF Formed, OperationOf, InOperation, Joined, Draining, Flattening
  <2>3. o # {}
    <3>1. p.active \in 0..n
      BY <1>1, PriorFacts
    <3>2. p.active # n + 1
      BY <1>3, <3>1
    <3> QED
      BY <1>2, <1>8, <2>2, <3>2 DEF Attempt
  <2> HIDE DEF o
  <2> QED
    BY <1>2, <1>3, <1>4, <1>5, <1>6, <1>8, <2>1, <2>3, Zenon DEF RowVerifies
<1>9. CASE x.kind # "rearm" /\ ~retried
  <2>1. Admissible(history, x, dec, {})
    BY <1>6 DEF Admissible
  <2>2. t = Transition(history, x, dec, {})
    <3>1. ASSUME InOperation(t.effective), t.effective = p.effective, x.kind = OperationOf(t.effective), o # {}
          PROVE  FALSE
      <4>1. n # 0
        BY <1>2, <1>3, <3>1 DEF NoRow, State, Running, Halted
      <4>2. t.active = n + 1
        BY <1>2, <3>1 DEF Attempt
      <4> QED
        BY <1>9, <3>1, <4>1, <4>2, Zenon
    <3>2. Attempt(p, n + 1, t.effective, x, {}) = Attempt(p, n + 1, t.effective, x, o)
      BY <3>1, Zenon DEF Attempt
    <3> HIDE DEF o
    <3> QED
      BY <1>1, <1>2, <1>6, <3>2 DEF Transition
  <2> QED
    BY <1>2, <1>3, <1>4, <1>9, <2>1, <2>2, Zenon DEF RowVerifies
<1> QED
  BY <1>7, <1>8, <1>9

LEMMA AppendVerifies ==
  ASSUME TypeOK, Verifies, NEW x, NEW dec, NEW t, Appending(x, dec, t)
  PROVE  Verifies'
<1>1. PICK n : n = Len(history) /\ Grown(n, t)
  BY HistoryGrows
<1>2. ASSUME NEW i \in DOMAIN history' PROVE RowVerifies(i)'
  <2>1. CASE i = n + 1
    BY <1>1, <2>1, RowReplays
  <2>2. CASE i \in DOMAIN history
    BY <2>2, RowsKeep DEF Verifies
  <2> QED
    BY <1>1, <2>1, <2>2 DEF Grown
<1>3. completions' = completions
  BY DEF Appending
<1>4. ASSUME NEW d \in completions PROVE CompletionBinds(d)'
  <2>1. CompletionBinds(d)
    BY DEF Verifies
  <2> QED
    BY <1>1, <2>1, SMTT(30) DEF CompletionBinds, Grown
<1> QED
  BY <1>2, <1>3, <1>4 DEF Verifies

(* What a rearm that appends has shown.                                     *)
LEMMA RearmFacts ==
  ASSUME TypeOK, NEW x, NEW dec, NEW t, Appending(x, dec, t), x.kind = "rearm",
         NEW n, n = Len(history), Grown(n, t)
  PROVE  /\ n # 0 /\ ~history[n].overflow
         /\ x.evidence \in Evidence /\ x.evidence.healthy /\ x.evidence.head = n
         /\ x.evidence.disposed = history[n].blockers
         /\ CompletesOperation(history[n], x.evidence)
         /\ x.evidence.checked <= dec
<1>1. n # 0 /\ n \in Nat /\ Last(history) = history[n] /\ ValidRearm(history, x, dec) /\ x.requested <= dec
  BY DEF Appending, Admissible, Grown
<1>2. /\ x.evidence.head = n /\ x.evidence.healthy /\ ~history[n].overflow
      /\ x.evidence.disposed = history[n].blockers
      /\ CompletesOperation(history[n], x.evidence)
      /\ x.evidence.checked <= x.requested
  BY <1>1, SMTT(30) DEF ValidRearm
<1>3. x.evidence \in Evidence
  <2>1. x.evidence # NoEvidence
    BY <1>1, <1>2 DEF NoEvidence
  <2> QED
    BY <2>1, CommandFields DEF Appending
<1>4. x.evidence.checked \in Int /\ x.requested \in Int /\ dec \in Int
  BY <1>3, CommandFields DEF Appending, Evidence, Instant
<1>5. x.evidence.checked <= dec
  <2> DEFINE a == x.evidence.checked
             b == x.requested
  <2> HIDE DEF a, b
  <2>1. a \in Int /\ b \in Int /\ dec \in Int /\ a <= b /\ b <= dec
    BY <1>1, <1>2, <1>4 DEF a, b
  <2>2. a <= dec
    BY <2>1
  <2> QED
    BY <2>2 DEF a
<1> QED
  BY <1>1, <1>2, <1>3, <1>5

LEMMA AppendDisposes ==
  ASSUME TypeOK, ProjectionComplete, RearmDisposesAll, NEW x, NEW dec, NEW t, Appending(x, dec, t)
  PROVE  RearmDisposesAll'
<1>1. PICK n : n = Len(history) /\ Grown(n, t)
  BY HistoryGrows
<1>2. \A i \in 1..n : StoppedSince(i)' = StoppedSince(i)
  BY <1>1, StoppedKeeps
<1>3. n \in Nat /\ Len(history') = n + 1 /\ history'[n + 1] = t /\ \A m \in 1..n : history'[m] = history[m]
  BY <1>1 DEF Grown
<1>4. t.command = x /\ t.effective \in State /\ t.effective = Joined(Prior(history).effective, x)
  BY AppendedRow
<1>5. ASSUME n # 0, t.effective < history[n].effective
      PROVE  /\ x.kind = "rearm" /\ x.evidence.healthy /\ x.evidence.head = n
             /\ x.evidence.disposed = StoppedSince(n)
  <2>1. t.effective = Joined(history[n].effective, x) /\ history[n].effective \in State /\ n \in 1..n
    BY <1>1, <1>4, <1>5, SMTT(30) DEF Grown, Row
  <2>2. x.kind = "rearm"
    BY <1>4, <1>5, <2>1, CommandFields, SMTT(30) DEF Joined, Appending, State, Running, Halted
  <2>3. /\ ~history[n].overflow /\ x.evidence.healthy /\ x.evidence.head = n
        /\ x.evidence.disposed = history[n].blockers
    BY <1>1, <2>2, RearmFacts, SMTT(30)
  <2> QED
    BY <1>1, <2>1, <2>2, <2>3, SMTT(30) DEF ProjectionComplete, Grown
<1>6. ASSUME NEW i \in 2..(n + 1), history'[i].effective < history'[i - 1].effective
      PROVE  /\ history'[i].command.kind = "rearm" /\ history'[i].command.evidence.healthy
             /\ history'[i].command.evidence.head = i - 1
             /\ history'[i].command.evidence.disposed = StoppedSince(i - 1)'
  <2>1. CASE i = n + 1
    <3>1. i - 1 = n /\ n # 0 /\ n \in 1..n /\ history'[i] = t /\ history'[i - 1] = history[n]
      BY <1>3, <2>1
    <3> QED
      BY <1>2, <1>4, <1>5, <1>6, <3>1
  <2>2. CASE i \in 2..n
    <3>1. i \in 2..Len(history) /\ i - 1 \in 1..n /\ history'[i] = history[i] /\ history'[i - 1] = history[i - 1]
      BY <1>1, <1>3, <2>2
    <3> QED
      BY <1>2, <1>6, <3>1, SMTT(30) DEF RearmDisposesAll
  <2> QED
    BY <1>3, <2>1, <2>2, SMTT(30)
<1> QED
  BY <1>3, <1>6, Zenon DEF RearmDisposesAll

(* The completion a rearm quotes is of the operation the account is in.     *)
LEMMA QuotedCompletion ==
  ASSUME TypeOK, Verifies, AttemptsBind, OutcomesAllowed, NEW x, NEW dec, NEW t,
         Appending(x, dec, t), x.kind = "rearm", NEW n, n = Len(history), Grown(n, t),
         InOperation(history[n].effective)
  PROVE  \E d \in completions :
            /\ d.attempt = history[n].active /\ d.outcome = "completed" /\ d.settled
            /\ history[n].effective = Flattening => d.flat
            /\ d.observed <= dec
<1>1. /\ n # 0 /\ x.evidence \in Evidence
      /\ CompletesOperation(history[n], x.evidence)
      /\ x.evidence.checked <= dec
  BY RearmFacts
<1>2. PICK d : d = x.evidence.completion
  OBVIOUS
<1>3. /\ d # NoOutcome /\ d.attempt = history[n].active /\ d.outcome = "completed"
      /\ d.observed <= x.evidence.checked
  BY <1>1, <1>2 DEF CompletesOperation
<1>4. d \in completions
  BY <1>2, <1>3, SMTT(30) DEF Appending, EvidenceIsDurable
<1>5. n \in DOMAIN history /\ d.head \in DOMAIN history /\ history[d.head].active = d.attempt
  BY <1>1, <1>4, SMTT(30) DEF Verifies, CompletionBinds, Grown
<1>6. d.attempt # 0 /\ history[d.head].effective = history[n].effective
  BY <1>3, <1>5, SMTT(30) DEF AttemptsBind
<1>7. OutcomeAllowed(OperationOf(history[n].effective), d.outcome, d.settled, d.flat)
  BY <1>4, <1>6 DEF OutcomesAllowed
<1>8. d.settled /\ (history[n].effective = Flattening => d.flat)
  BY <1>3, <1>7 DEF OutcomeAllowed, OperationOf, Draining, Flattening
<1>9. d.observed <= dec
  <2> DEFINE a == d.observed
             b == x.evidence.checked
  <2>1. a \in Int /\ b \in Int /\ dec \in Int
    BY <1>1, <1>4, SMTT(30) DEF Evidence, Completion, Instant, TypeOK, Appending
  <2> HIDE DEF a, b
  <2>2. a <= b /\ b <= dec
    BY <1>1, <1>3, SMTT(30) DEF a, b
  <2>3. a <= dec
    BY <2>1, <2>2
  <2> QED
    BY <2>3 DEF a
<1> QED
  BY <1>3, <1>4, <1>8, <1>9

LEMMA AppendFollows ==
  ASSUME TypeOK, Verifies, AttemptsBind, OutcomesAllowed, RearmFollowsCompletion,
         NEW x, NEW dec, NEW t, Appending(x, dec, t)
  PROVE  RearmFollowsCompletion'
<1>1. PICK n : n = Len(history) /\ Grown(n, t)
  BY HistoryGrows
<1>2. n \in Nat /\ Len(history') = n + 1 /\ history'[n + 1] = t /\ \A m \in 1..n : history'[m] = history[m]
  BY <1>1 DEF Grown
<1>3. t.command = x /\ t.decided = dec /\ completions' = completions
  BY AppendedRow, SMTT(30) DEF Appending
<1>4. ASSUME NEW i \in 2..(n + 1), history'[i].command.kind = "rearm",
             InOperation(history'[i - 1].effective)
      PROVE  \E d \in completions :
                /\ d.attempt = history'[i - 1].active /\ d.outcome = "completed" /\ d.settled
                /\ history'[i - 1].effective = Flattening => d.flat
                /\ d.observed <= history'[i].decided
  <2>1. CASE i = n + 1
    <3>1. i - 1 = n /\ n # 0 /\ n \in 1..n /\ history'[i] = t /\ history'[i - 1] = history[n]
      BY <1>2, <2>1
    <3>2. x.kind = "rearm" /\ InOperation(history[n].effective)
      BY <1>3, <1>4, <3>1
    <3> QED
      BY <1>1, <1>3, <3>1, <3>2, QuotedCompletion
  <2>2. CASE i \in 2..n
    <3>1. i \in 2..Len(history) /\ history'[i] = history[i] /\ history'[i - 1] = history[i - 1]
      BY <1>1, <1>2, <2>2
    <3> QED
      BY <1>4, <3>1, SMTT(30) DEF RearmFollowsCompletion
  <2> QED
    BY <1>2, <2>1, <2>2
<1> QED
  BY <1>2, <1>3, <1>4, SMTT(30) DEF RearmFollowsCompletion

(* Attempt a has failed by dec.                                             *)
FailedBy(a, dec) == \E d \in OutcomeOf(a) : d.outcome # "completed" /\ d.observed <= dec

(* The row t, appended after row n for x, opens an attempt or asks for one  *)
(* where the attempt of row n has ended.                                    *)
Renews(n, x, t) ==
    \/ history[n].active # t.active
    \/ x.kind = OperationOf(t.effective) /\ OutcomeOf(history[n].active) # {}

(* Within a stay the new row opens an attempt only after a failed one.      *)
LEMMA NewAttempt ==
  ASSUME TypeOK, AttemptsBind, NEW x, NEW dec, NEW t, Appending(x, dec, t),
         NEW n, n = Len(history), Grown(n, t), n # 0,
         history[n].active # 0, t.epoch = history[n].epoch, Renews(n, x, t)
  PROVE  t.active = n + 1 /\ FailedBy(history[n].active, dec)
<1> DEFINE o == ActiveOutcome(x)
<1>1. PICK p : p = history[n]
  OBVIOUS
<1>2. /\ n \in 1..n /\ p = Prior(history) /\ p = Last(history) /\ history # << >>
      /\ p \in Row /\ n \in DOMAIN history
  BY <1>1 DEF Grown
<1>3. /\ t.effective = Joined(p.effective, x)
      /\ t.epoch = IF t.effective # p.effective THEN n + 1 ELSE p.epoch
      /\ t.active = Attempt(p, n + 1, t.effective, x, o)
  BY <1>2, AppendedRow, SMTT(30)
<1>4. t.effective = p.effective /\ InOperation(p.effective)
  <2>1. p.epoch \in 1..n
    BY <1>1, <1>2, Zenon DEF TypeOK
  <2>2. p.epoch # n + 1
    BY <2>1
  <2> QED
    BY <1>1, <1>2, <1>3, <2>2, Zenon DEF AttemptsBind
<1>5. x.kind # "rearm"
  BY <1>3, <1>4, SMTT(30) DEF Appending, Formed, Joined, InOperation, Running, Draining,
     Flattening
<1>6. o = OutcomeOf(p.active)
  BY <1>2, <1>5, SMTT(30) DEF ActiveOutcome
<1>7. x.kind = OperationOf(p.effective) /\ o # {} /\ t.active = n + 1
  BY <1>1, <1>3, <1>4, <1>6, SMTT(30) DEF Attempt, Renews
<1>8. PICK d \in o : TRUE
  BY <1>7, SMTT(30)
<1>9. d.outcome = "incomplete" /\ d.observed <= x.requested /\ x.requested <= dec
  BY <1>2, <1>4, <1>7, <1>8, Zenon DEF Appending, Admissible, Retryable
<1>10. d.observed <= dec
  <2> DEFINE a == d.observed
             b == x.requested
  <2>1. a \in Int /\ b \in Int /\ dec \in Int
    BY <1>6, <1>8, CommandFields, SMTT(30) DEF OutcomeOf, TypeOK, Completion, Instant, Appending
  <2> HIDE DEF a, b
  <2>2. a <= b /\ b <= dec
    BY <1>9, SMTT(30) DEF a, b
  <2>3. a <= dec
    BY <2>1, <2>2, SMTT(30)
  <2> QED
    BY <2>3, SMTT(30) DEF a
<1> QED
  BY <1>1, <1>6, <1>7, <1>8, <1>9, <1>10, SMTT(30) DEF FailedBy

LEMMA AppendFailures ==
  ASSUME TypeOK, AttemptsBind, AttemptsFollowFailures, NEW x, NEW dec, NEW t, Appending(x, dec, t)
  PROVE  AttemptsFollowFailures'
<1>1. PICK n : n = Len(history) /\ Grown(n, t)
  BY HistoryGrows
<1>2. n \in Nat /\ Len(history') = n + 1 /\ history'[n + 1] = t /\ \A m \in 1..n : history'[m] = history[m]
  BY <1>1 DEF Grown
<1>3. t.command = x /\ t.decided = dec
  BY AppendedRow, SMTT(30)
<1>4. \A a : OutcomeOf(a)' = OutcomeOf(a)
  BY DEF OutcomeOf, Appending
<1>5. ASSUME NEW i \in 2..(n + 1), history'[i - 1].active # 0,
             history'[i].epoch = history'[i - 1].epoch,
             \/ history'[i - 1].active # history'[i].active
             \/ /\ history'[i].command.kind = OperationOf(history'[i].effective)
                /\ \E d \in OutcomeOf(history'[i - 1].active) : d.head < i
      PROVE  /\ history'[i].active = i
             /\ \E d \in OutcomeOf(history'[i - 1].active) :
                   d.outcome # "completed" /\ d.observed <= history'[i].decided
  <2>1. CASE i = n + 1
    <3>1. i - 1 = n /\ n # 0 /\ n \in 1..n /\ history'[i] = t /\ history'[i - 1] = history[n]
      BY <1>2, <2>1
    <3>2. history[n].active # 0 /\ t.epoch = history[n].epoch /\ Renews(n, x, t)
      BY <1>3, <1>5, <3>1, SMTT(30) DEF Renews
    <3>3. t.active = n + 1 /\ FailedBy(history[n].active, dec)
      BY <1>1, <3>1, <3>2, NewAttempt, SMTT(30)
    <3> QED
      BY <1>3, <2>1, <3>1, <3>3, SMTT(30) DEF FailedBy
  <2>2. CASE i \in 2..n
    <3>1. i \in 2..Len(history) /\ history'[i] = history[i] /\ history'[i - 1] = history[i - 1]
      BY <1>1, <1>2, <2>2
    <3> QED
      <4>1. PICK a, b : a = history[i - 1].active /\ b = history[i].active
        OBVIOUS
      <4>2. /\ a # 0 /\ history[i].epoch = history[i - 1].epoch
            /\ a # b \/ (history[i].command.kind = OperationOf(history[i].effective) /\
                         \E d \in OutcomeOf(a) : d.head < i)
        BY <1>5, <3>1, <4>1, SMTT(30)
      <4>3. /\ b = i
            /\ \E d \in OutcomeOf(a) : d.outcome # "completed" /\ d.observed <= history[i].decided
        BY <3>1, <4>1, <4>2, Zenon DEF AttemptsFollowFailures
      <4> QED
        BY <3>1, <4>1, <4>3
  <2> QED
    BY <1>2, <2>1, <2>2, SMTT(30)
<1> QED
  BY <1>2, <1>4, <1>5, Zenon DEF AttemptsFollowFailures

LEMMA AppendOutcomes ==
  ASSUME TypeOK, Verifies, OutcomesAllowed, NEW x, NEW dec, NEW t, Appending(x, dec, t)
  PROVE  OutcomesAllowed'
<1>1. PICK n : n = Len(history) /\ Grown(n, t)
  BY HistoryGrows
<1>2. completions' = completions
  BY DEF Appending
<1>3. ASSUME NEW d \in completions PROVE history'[d.head] = history[d.head]
  BY <1>1, SMTT(30) DEF Verifies, CompletionBinds, Grown
<1> QED
  BY <1>2, <1>3 DEF OutcomesAllowed

LEMMA CommitKeeps ==
  ASSUME Inv, NEW c \in Caller, Commit(c)
  PROVE  Inv'
<1>1. PICK x, dec, t : /\ x = calls[c].command /\ dec = calls[c].decided
                       /\ t = Transition(history, x, dec, ActiveOutcome(x))
  OBVIOUS
<1>2. Appending(x, dec, t)
  <2>1. x \in CommandType /\ Formed(x) /\ dec \in Instant
    BY <1>1, CallFields, Zenon DEF Inv, TypeOK, CallsFormed, Commit
  <2> QED
    BY <1>1, <2>1, SMTT(30) DEF Commit, Appends, Appending
<1>3. now' = now /\ calls' \in [Caller -> Call]
  BY DEF Commit, Inv, TypeOK, Call
<1>4. TypeOK /\ StoreHolds /\ TypeOK'
  BY <1>2, <1>3, AppendTypes DEF Inv
<1>5. CallsFormed'
  BY DEF Commit, Inv, TypeOK, CallsFormed
<1>6. Verifies' /\ DecisionsAreOrdered' /\ KeysDiffer'
  BY <1>2, <1>4, AppendVerifies, AppendOrdered, AppendKeys DEF StoreHolds
<1>7. RearmIsEarned'
  BY <1>2, <1>4, AppendDisposes, AppendFollows, AppendFailures DEF StoreHolds, RearmIsEarned
<1>8. AttemptsBind' /\ ProjectionComplete' /\ OutcomesAllowed'
  BY <1>2, <1>4, AppendBinds, AppendProjection, AppendOutcomes DEF StoreHolds
<1> QED
  BY <1>4, <1>5, <1>6, <1>7, <1>8 DEF Inv, StoreHolds

-----------------------------------------------------------------------------
(* Recording the outcome of the active attempt leaves every replay alone: a *)
(* row that opened a retry has had its outcome.                             *)
LEMMA RecordCompletionKeeps ==
  ASSUME Inv, NEW outcome \in OutcomeKind, NEW settled \in BOOLEAN, NEW flat \in BOOLEAN,
         RecordCompletion(outcome, settled, flat)
  PROVE  Inv'
<1>1. PICK n, p, d : /\ n = Len(history) /\ p = Last(history)
                     /\ d = [attempt |-> p.active, epoch |-> p.epoch, head |-> n, outcome |-> outcome,
                             settled |-> settled, flat |-> flat, observed |-> now]
  BY Zenon
<1>2. /\ history' = history /\ calls' = calls /\ now' = now /\ completions' = completions \union {d}
      /\ history # << >> /\ p.active # 0 /\ OutcomeOf(p.active) = {} /\ now >= p.decided
      /\ OutcomeAllowed(OperationOf(p.effective), outcome, settled, flat)
  BY <1>1, Zenon DEF RecordCompletion
<1>3. /\ d.attempt = p.active /\ d.epoch = p.epoch /\ d.head = n /\ d.outcome = outcome
      /\ d.settled = settled /\ d.flat = flat /\ d.observed = now
  BY <1>1
<1>4. /\ n \in Nat /\ DOMAIN history = 1..n /\ n \in 1..n /\ p = history[n]
      /\ p.active \in 1..n /\ p.epoch \in Nat
  BY <1>1, <1>2, PriorFacts, SMTT(30) DEF Inv
<1>5. d \in Completion
  <2>1. p.active \in Nat /\ n \in Nat /\ now \in Instant
    BY <1>4 DEF Inv, TypeOK
  <2> QED
    BY <1>1, <1>4, <2>1, Zenon DEF Completion
<1>6. TypeOK' /\ CallsFormed'
  BY <1>2, <1>5, Zenon DEF Inv, TypeOK, CallsFormed
<1>7. \A a : a # p.active => OutcomeOf(a)' = OutcomeOf(a)
  BY <1>2, <1>3, SMTT(30) DEF OutcomeOf
<1>8. Verifies'
  <2>1. CompletionBinds(d)
    BY <1>2, <1>3, <1>4, SMTT(30) DEF CompletionBinds, Inv, StoreHolds, AttemptsBind
  <2>2. \A e : CompletionBinds(e)' <=> CompletionBinds(e)
    BY <1>2 DEF CompletionBinds
  <2>3. \A e \in completions' : CompletionBinds(e)'
    BY <1>2, <2>1, <2>2 DEF Inv, StoreHolds, Verifies
  <2>4. \A e, f \in completions' : e.attempt = f.attempt => e = f
    BY <1>2, <1>3, Zenon DEF Inv, StoreHolds, Verifies, OutcomeOf
  <2>5. ASSUME NEW i \in DOMAIN history PROVE RowVerifies(i)'
    <3>1. RowVerifies(i)
      BY DEF Inv, StoreHolds, Verifies
    <3>2. CASE history[i].command.kind = "rearm"
      BY <1>2, <3>1, <3>2, Zenon DEF RowVerifies
    <3> DEFINE retried == /\ i > 1 /\ InOperation(history[i - 1].effective)
                          /\ history[i].command.kind = OperationOf(history[i - 1].effective)
                          /\ history[i].active = i
    <3>3. CASE history[i].command.kind # "rearm" /\ ~retried
      BY <1>2, <3>1, <3>3, Zenon DEF RowVerifies
    <3>4. CASE history[i].command.kind # "rearm" /\ retried
      <4>1. OutcomeOf(history[i - 1].active) # {}
        BY <3>1, <3>4, Zenon DEF RowVerifies
      <4>2. OutcomeOf(history[i - 1].active)' = OutcomeOf(history[i - 1].active)
        <5>1. PICK a : a = history[i - 1].active
          OBVIOUS
        <5>2. OutcomeOf(a)' = OutcomeOf(a)
          BY <1>2, <1>7, <4>1, <5>1, SMTT(30)
        <5> QED
          BY <1>2, <5>1, <5>2 DEF OutcomeOf
      <4> QED
        BY <1>2, <3>1, <4>2, Zenon DEF RowVerifies
    <3> QED
      BY <3>2, <3>3, <3>4, SMTT(30)
  <2> QED
    BY <1>2, <2>3, <2>4, <2>5 DEF Verifies
<1>9. RearmDisposesAll' /\ ProjectionComplete'
  <2>1. \A i : StoppedSince(i)' = StoppedSince(i)
    BY <1>2, Zenon DEF StoppedSince
  <2> QED
    BY <1>2, <2>1, Zenon DEF Inv, StoreHolds, RearmIsEarned, RearmDisposesAll, ProjectionComplete
<1>10. RearmFollowsCompletion'
  BY <1>2, SMTT(30) DEF Inv, StoreHolds, RearmIsEarned, RearmFollowsCompletion
<1>11. AttemptsFollowFailures'
  <2>1. ASSUME NEW a PROVE OutcomeOf(a) \subseteq OutcomeOf(a)'
    BY <1>2 DEF OutcomeOf
  <2>2. ASSUME NEW i \in 2..Len(history), NEW a, \E e \in OutcomeOf(a)' : e.head < i
        PROVE  \E e \in OutcomeOf(a) : e.head < i
    <3>1. PICK e \in OutcomeOf(a)' : e.head < i
      BY <2>2
    <3>2. e # d
      BY <1>1, <1>3, <1>4, <3>1, SMTT(30)
    <3> QED
      BY <1>2, <3>1, <3>2 DEF OutcomeOf
  <2>3. ASSUME NEW i \in 2..Len(history), NEW a, NEW b,
               a = history[i - 1].active, b = history[i].active,
               a # 0, history[i].epoch = history[i - 1].epoch,
               \/ a # b
               \/ /\ history[i].command.kind = OperationOf(history[i].effective)
                  /\ \E e \in {f \in completions' : f.attempt = a} : e.head < i
        PROVE  /\ b = i
               /\ \E e \in {f \in completions' : f.attempt = a} : e.outcome # "completed" /\ e.observed <= history[i].decided
    <3>1. a # b \/ (history[i].command.kind = OperationOf(history[i].effective) /\
                    \E e \in OutcomeOf(a) : e.head < i)
      BY <2>2, <2>3, SMTT(30) DEF OutcomeOf
    <3>2. /\ b = i
          /\ \E e \in OutcomeOf(a) : e.outcome # "completed" /\ e.observed <= history[i].decided
      BY <2>3, <3>1, Zenon DEF Inv, StoreHolds, RearmIsEarned, AttemptsFollowFailures
    <3> QED
      BY <2>1, <3>2 DEF OutcomeOf
  <2> QED
    BY <1>2, <2>3, SMTT(30) DEF AttemptsFollowFailures, OutcomeOf
<1>12. DecisionsAreOrdered' /\ KeysDiffer' /\ AttemptsBind'
  BY <1>2, Zenon DEF Inv, StoreHolds, DecisionsAreOrdered, KeysDiffer, AttemptsBind
<1>13. OutcomesAllowed'
  BY <1>2, <1>3, <1>4, SMTT(30) DEF Inv, StoreHolds, OutcomesAllowed
<1> QED
  BY <1>6, <1>8, <1>9, <1>10, <1>11, <1>12, <1>13 DEF Inv, StoreHolds, RearmIsEarned

LEMMA InitHolds == Init => Inv
<1> SUFFICES ASSUME Init PROVE Inv
  OBVIOUS
<1>1. TypeOK
  BY DEF Init, TypeOK, Instant, Call
<1>2. CallsFormed
  BY DEF Init, CallsFormed
<1>3. history = << >> /\ completions = {} /\ Len(history) = 0 /\ DOMAIN history = {}
  BY DEF Init
<1>4. RearmIsEarned
  BY <1>3 DEF RearmIsEarned, RearmDisposesAll, RearmFollowsCompletion, AttemptsFollowFailures
<1>5. Verifies /\ DecisionsAreOrdered /\ KeysDiffer /\ AttemptsBind /\ ProjectionComplete /\ OutcomesAllowed
  BY <1>3, SMTT(30) DEF Verifies, DecisionsAreOrdered, KeysDiffer, AttemptsBind,
     ProjectionComplete, OutcomesAllowed
<1> QED
  BY <1>1, <1>2, <1>4, <1>5 DEF Inv, StoreHolds

LEMMA NextHolds == Inv /\ [Next]_vars => Inv'
<1> SUFFICES ASSUME Inv, [Next]_vars PROVE Inv'
  OBVIOUS
<1>1. CASE Tick
  BY <1>1, TickKeeps
<1>2. ASSUME NEW c \in Caller, NEW k \in OperatorKey,
             (\E kind \in Offered : Execute(c, k, kind)) \/ ExecuteRearm(c, k)
      PROVE  Inv'
  BY <1>2, ExecuteKeeps, ExecuteRearmKeeps
<1>3. ASSUME NEW c \in Caller, NEW k \in BreakerKey,
             Trip(c, k, "initialize", Halted) \/ \E target \in {Paused, Halted} : Trip(c, k, "trip", target)
      PROVE  Inv'
  BY <1>3, TripKeeps
<1>4. ASSUME NEW c \in Caller,
             \E facts \in Facts, completion \in completions \union {NoOutcome},
                expires \in Instant \union {MaxTime + 1} :
                Verify(c, facts.healthy, facts.disposed, completion, expires)
      PROVE  Inv'
  BY <1>4, VerifyKeeps
<1>5. ASSUME NEW c \in Caller, VerifyFails(c) \/ Refuse(c)
      PROVE  Inv'
  BY <1>5, EndKeeps DEF VerifyFails, Refuse
<1>6. ASSUME NEW c \in Caller, Decide(c) \/ Commit(c)
      PROVE  Inv'
  BY <1>6, DecideKeeps, CommitKeeps
<1>7. ASSUME NEW outcome \in OutcomeKind, NEW settled \in BOOLEAN, NEW flat \in BOOLEAN,
             RecordCompletion(outcome, settled, flat)
      PROVE  Inv'
  BY <1>7, RecordCompletionKeeps
<1>8. CASE UNCHANGED vars
  <2>1. StoreHolds'
    BY <1>8, StoreKeeps DEF Inv, vars
  <2> QED
    BY <1>8, <2>1, SMTT(30) DEF Inv, vars, TypeOK, CallsFormed
<1> QED
  BY <1>1, <1>2, <1>3, <1>4, <1>5, <1>6, <1>7, <1>8, Zenon DEF Next

(* The inductive invariant: the history replays, its decisions are ordered, *)
(* its keys differ, every rearm was earned, attempts are bound to the rows  *)
(* that opened them, and a projection that has not overflowed is complete.  *)
THEOREM Invariance == Spec => []Inv
  BY InitHolds, NextHolds, PTL DEF Spec

(* One transition per key, as the receipts are looked up.                   *)
LEMMA KeysCounted ==
  ASSUME TypeOK, KeysDiffer
  PROVE  OneTransitionPerKey
<1>1. SUFFICES ASSUME NEW k \in Key PROVE Cardinality(Recorded(k)) <= 1
  BY DEF OneTransitionPerKey
<1>2. CASE Recorded(k) = {}
  BY <1>2, FS_EmptySet
<1>3. CASE Recorded(k) # {}
  <2>1. PICK i \in Recorded(k) : TRUE
    BY <1>3
  <2>2. Recorded(k) = {i}
    BY <2>1 DEF Recorded, KeysDiffer
  <2>3. Cardinality({i}) = 1
    BY FS_Singleton
  <2> QED
    BY <2>2, <2>3
<1> QED
  BY <1>2, <1>3

(* What apply and record_completion write always authenticates, for any     *)
(* number of concurrent callers: every row replays under the completions    *)
(* recorded since, decisions run forward although each transaction reads    *)
(* its clock before it waits for the lock, and a key has one transition.    *)
THEOREM Sound == Spec => []HistoryIsSound
<1>1. Inv => HistoryIsSound
  BY KeysCounted DEF Inv, StoreHolds, HistoryIsSound, HistoryVerifies
<1> QED
  BY <1>1, Invariance, PTL

(* A rearm has always been earned: it disposes of every transition that     *)
(* stopped the account, those the bounded projection dropped included, and  *)
(* it leaves a drain or a flatten only on the completed outcome of the last *)
(* attempt, with no attempt repeated but after a recorded failure.          *)
THEOREM Earned == Spec => []RearmIsEarned
<1>1. Inv => RearmIsEarned
  BY DEF Inv, StoreHolds
<1> QED
  BY <1>1, Invariance, PTL
=============================================================================
