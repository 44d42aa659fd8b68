---------------------- MODULE StrategyInvocationProofs ----------------------
(***************************************************************************)
(* Proofs about StrategyInvocation for every set of supervisors and        *)
(* invocations and every window: its inductive invariant, the steps that   *)
(* take an invocation as far as its claim, and those from the permit to    *)
(* the final result.                                                       *)
(***************************************************************************)
EXTENDS StrategyInvocation, TLAPS

USE WindowAssumption, BoundAssumption

(* A supervisor that may still spawn the child of its invocation.           *)
MaySpawn(s) == supers[s].stage \in {"permit", "authorized", "spawn"}

ClaimedAt(s) == claims[supers[s].i].claimed

(* A claim was made in the past and is due within the bound; before it      *)
(* nothing is spawned.                                                      *)
ClaimsAreTimely ==
    \A i \in Invocation :
        /\ claims[i] = None => starts[i] = 0
        /\ claims[i] # None => /\ claims[i].claimed <= now
                               /\ Recoverable(claims[i].claimed) <= MaxTime

(* Of all supervisors at most one may still spawn a child of an invocation, *)
(* though any number may recover it.                                        *)
OnePermit ==
    \A s, t \in Supervisor :
        MaySpawn(s) /\ MaySpawn(t) /\ supers[s].i = supers[t].i => s = t

(* What a supervisor holds: its claim exists and its fence was granted; no  *)
(* child exists before it spawns one; its instants follow each other; and   *)
(* the lease of an authorization outlives the claim's window, unless the    *)
(* account was handed over.                                                 *)
CallHolds(s) ==
    LET c == supers[s]
    IN  /\ c.stage # "idle" => claims[c.i] # None /\ c.fence <= lease.generation
        /\ MaySpawn(s) => starts[c.i] = 0
        /\ c.stage = "authorized" => ClaimedAt(s) <= c.at /\ c.at <= now
        /\ c.stage \in {"spawn", "running"} => ClaimedAt(s) <= c.started /\ c.started <= now
        /\ c.stage = "running" => starts[c.i] = 1
        /\ c.stage \in {"authorized", "spawn", "running"} /\ lease.generation = c.fence =>
             Recoverable(ClaimedAt(s)) < lease.expires
        /\ c.stage = "result" =>
             /\ ClaimedAt(s) <= c.result.started
             /\ c.result.completed <= now
             /\ c.result.completed < Recoverable(ClaimedAt(s))
             /\ c.result.outcome # "interrupted"
             /\ c.result.outcome = "completed" =>
                  /\ starts[c.i] = 1
                  /\ c.result.completed - c.result.started < DecisionWindow

CallsHold == \A s \in Supervisor : CallHolds(s)

(* Nothing was recorded or decided in the future.                           *)
NothingAhead ==
    /\ control.rearmed <= now
    /\ \A i \in Invocation : finals[i] # None => finals[i].recorded <= now

Inv ==
    /\ TypeOK
    /\ ClaimsAreTimely
    /\ OnePermit
    /\ CallsHold
    /\ NothingAhead
    /\ AtMostOneChild
    /\ HistoryVerifies
    /\ WindowDecides
    /\ FailureHolds

(* Before the first step nothing is claimed and every caller is idle.       *)
LEMMA InitHolds ==
  Init => Inv
<1> SUFFICES ASSUME Init PROVE Inv
  OBVIOUS
<1>1. TypeOK
  BY DEF Init, TypeOK, Instant, Generation, Call, Running, Halted, LeaseRow, ControlRow
<1>2. \A s \in Supervisor : supers[s].stage = "idle"
  BY DEF Init, Idle
<1>3. OnePermit /\ CallsHold
  BY <1>2 DEF OnePermit, CallsHold, CallHolds, MaySpawn
<1>4. ClaimsAreTimely /\ AtMostOneChild
  BY DEF Init, ClaimsAreTimely, AtMostOneChild
<1>5. NothingAhead /\ HistoryVerifies /\ WindowDecides /\ FailureHolds
  BY DEF Init, NothingAhead, HistoryVerifies, WindowDecides, FailureHolds
<1> QED
  BY <1>1, <1>3, <1>4, <1>5 DEF Inv

(* What a supervisor about to spawn holds.                                  *)
LEMMA SpawnFields ==
  ASSUME Inv, NEW s \in Supervisor, supers[s].stage = "spawn"
  PROVE  /\ supers[s] \in [stage : {"spawn", "running"}, i : Invocation, fence : Generation,
                           started : Instant]
         /\ supers \in [Supervisor -> Call] /\ starts \in [Invocation -> Nat]
  BY DEF Inv, TypeOK, Call, Idle

LEMMA InstantFacts ==
  ASSUME NEW t \in Instant, NEW n \in Nat
  PROVE  t <= t /\ (n >= t => t <= n)
  BY DEF Instant

-----------------------------------------------------------------------------
(* What a supervisor holds at each stage.                                   *)
LEMMA CallFields ==
  ASSUME NEW c \in Call
  PROVE  /\ c.stage = "idle" \/ c # Idle
         /\ c.stage = "idle" => c = Idle
         /\ c.stage # "idle" => c.i \in Invocation /\ c.fence \in Generation
         /\ c.stage = "authorized" => c.at \in Instant
         /\ c.stage \in {"spawn", "running"} => c.started \in Instant
         /\ c.stage = "result" => c.result \in ResultRecord
         /\ c.stage \in {"idle", "permit", "recover", "authorized", "spawn", "running", "result"}
BY DEF Call, Idle

(* A supervisor about to spawn: its instant is past its claim, and no other *)
(* one may spawn for the same invocation.                                   *)
LEMMA SpawnFacts ==
  ASSUME Inv, NEW s \in Supervisor, supers[s].stage = "spawn"
  PROVE  /\ supers[s].started \in Instant /\ ClaimedAt(s) <= supers[s].started
         /\ \A t \in Supervisor : t # s /\ MaySpawn(t) =>
              supers[t].i # supers[s].i /\ supers[t].i \in Invocation
<1>1. supers[s].started \in Instant /\ ClaimedAt(s) <= supers[s].started
  BY CallFields DEF Inv, TypeOK, CallsHold, CallHolds
<1>2. ASSUME NEW t \in Supervisor, t # s, MaySpawn(t)
      PROVE  supers[t].i # supers[s].i /\ supers[t].i \in Invocation
  BY <1>2, CallFields DEF Inv, TypeOK, OnePermit, MaySpawn
<1> QED
  BY <1>1, <1>2

(* What a supervisor holds depends on its call, its claim, its child, the   *)
(* lease and the clock.                                                     *)
LEMMA StillHolds ==
  ASSUME NEW t \in Supervisor, CallHolds(t), supers'[t] = supers[t],
         UNCHANGED <<now, lease, claims, starts>>
  PROVE  CallHolds(t)'
BY DEF CallHolds, ClaimedAt, MaySpawn, Recoverable

LEMMA NowFacts ==
  ASSUME Inv
  PROVE  now \in Instant /\ now <= now
BY DEF Inv, TypeOK, Instant

(* A supervisor that is authorized, or goes on from there to the spawn, now. *)
LEMMA StartHolds ==
  ASSUME NEW s \in Supervisor, CallHolds(s), MaySpawn(s), UNCHANGED <<now, lease, claims, starts>>,
         NEW c, supers'[s] = c, c.i = supers[s].i, c.fence = supers[s].fence,
         \/ c.stage = "authorized" /\ c.at = now
         \/ c.stage = "spawn" /\ c.started = now,
         lease.generation = c.fence => Recoverable(ClaimedAt(s)) < lease.expires,
         ClaimedAt(s) <= now, now <= now
  PROVE  CallHolds(s)'
BY DEF CallHolds, ClaimedAt, MaySpawn, Recoverable

(* A claim made now, with the window ahead of it within the bound.          *)
LEMMA TimelyClaim ==
  ASSUME ClaimsAreTimely, UNCHANGED <<now, starts>>, now <= now, Recoverable(now) <= MaxTime,
         NEW i \in Invocation, NEW row, row # None, row.claimed = now,
         claims'[i] = row, \A j \in Invocation : j # i => claims'[j] = claims[j]
  PROVE  ClaimsAreTimely'
BY DEF ClaimsAreTimely, Recoverable

(* Rows are not the absent row.                                             *)
LEMMA RowsAreNotNone ==
  /\ \A a, b : [claimed |-> a, generation |-> b] # None
  /\ \A a, b, c : [result |-> a, recorded |-> b, generation |-> c] # None
BY DEF None

(* A supervisor that does not move keeps what it holds: the clock goes on,  *)
(* claims stay, and a lease is only prolonged or granted anew.              *)
LEMMA OthersKeep ==
  ASSUME TypeOK, TypeOK', AtMostOneChild',
         NEW t \in Supervisor, CallHolds(t), supers'[t] = supers[t],
         now <= now',
         \A i \in Invocation : claims[i] # None => claims'[i] = claims[i],
         \A i \in Invocation : starts[i] <= starts'[i],
         MaySpawn(t) => starts'[supers[t].i] = 0,
         lease.generation <= lease'.generation,
         lease'.generation = lease.generation => lease.expires <= lease'.expires
  PROVE  CallHolds(t)'
<1>0. supers[t] \in Call
  BY DEF TypeOK
<1>1. CASE supers[t].stage = "idle"
  BY <1>1 DEF CallHolds, MaySpawn
<1>2. CASE supers[t].stage # "idle"
  <2> DEFINE c == supers[t]
  <2>1. c.i \in Invocation /\ c.fence \in Generation
    BY <1>0, <1>2, CallFields
  <2>2. claims'[c.i] = claims[c.i] /\ claims[c.i] # None
    BY <1>2, <2>1 DEF CallHolds
  <2>3. ClaimedAt(t)' = ClaimedAt(t)
    BY <2>2 DEF ClaimedAt
  <2>4. starts[c.i] \in Nat /\ starts'[c.i] \in Nat /\ starts'[c.i] <= 1
    BY <2>1 DEF TypeOK, AtMostOneChild
  <2>5. now \in Nat /\ now' \in Nat
    BY DEF TypeOK, Instant
  <2>6. claims[c.i].claimed \in Nat
    BY <2>1, <2>2 DEF TypeOK, Instant, ClaimRow
  <2>7. /\ lease.generation \in Nat /\ lease'.generation \in Nat
        /\ lease.expires \in Nat /\ lease'.expires \in Nat
    BY DEF TypeOK, Generation, LeaseRow
  <2>8. /\ c.stage = "authorized" => c.at \in Nat
        /\ c.stage \in {"spawn", "running"} => c.started \in Nat
        /\ c.stage = "result" => c.result.completed \in Nat /\ c.result.started \in Nat
    BY <1>0, CallFields DEF Instant, ResultRecord
  <2>9. c.fence \in Nat
    BY <2>1 DEF Generation
  <2> QED
    BY <1>2, <2>1, <2>2, <2>3, <2>4, <2>5, <2>6, <2>7, <2>8, <2>9
       DEF CallHolds, MaySpawn, Recoverable, ClaimedAt
<1> QED
  BY <1>1, <1>2

-----------------------------------------------------------------------------
(* The account's lease may be granted, shared, prolonged or released.       *)
LEMMA LeaseKeeps ==
  ASSUME Inv, NEW s \in Supervisor,
         Acquire(s) \/ Join(s) \/ Renew(s) \/ Release(s)
  PROVE  Inv'
<1>1. UNCHANGED <<now, control, claims, finals, starts, supers, crashes, commands>>
  BY DEF Acquire, Join, Renew, Release, store
<1>2. /\ lease' \in LeaseRow
      /\ fences' \in [Supervisor -> Generation]
      /\ lease.generation <= lease'.generation
      /\ lease'.generation = lease.generation => lease.expires <= lease'.expires
  <2>0. /\ lease \in LeaseRow
        /\ fences \in [Supervisor -> Generation]
        /\ now \in Nat
    BY DEF Inv, TypeOK, Instant
  <2>1. CASE Acquire(s)
    BY <2>0, <2>1 DEF Acquire, Generation, LeaseRow
  <2>2. CASE Join(s)
    BY <2>0, <2>2 DEF Join, Generation, store, LeaseRow
  <2>3. CASE Renew(s)
    BY <2>0, <2>3 DEF Renew, Generation, LeaseRow
  <2>4. CASE Release(s)
    <3>1. lease' = [lease EXCEPT !.active = FALSE] /\ fences' = fences
      BY <2>4 DEF Release
    <3>2. lease' \in LeaseRow
      BY <2>0, <3>1, Zenon DEF LeaseRow
    <3>3. lease'.generation = lease.generation /\ lease'.expires = lease.expires
      BY <2>0, <3>1
    <3> QED
      BY <2>0, <3>1, <3>2, <3>3 DEF Generation, LeaseRow
  <2> QED
    BY <2>1, <2>2, <2>3, <2>4
<1>3. TypeOK'
  BY <1>1, <1>2 DEF Inv, TypeOK
<1>4. AtMostOneChild'
  BY <1>1 DEF Inv, AtMostOneChild
<1>5. CallsHold'
  <2> SUFFICES ASSUME NEW t \in Supervisor PROVE CallHolds(t)'
    BY DEF CallsHold
  <2>1. MaySpawn(t) => starts'[supers[t].i] = 0
    BY <1>1 DEF Inv, CallsHold, CallHolds
  <2>2. now <= now' /\ \A i \in Invocation : starts[i] <= starts'[i]
    BY <1>1 DEF Inv, TypeOK, Instant
  <2> QED
    BY <1>1, <1>2, <1>3, <1>4, <2>1, <2>2, OthersKeep DEF Inv, CallsHold
<1>6. ClaimsAreTimely' /\ OnePermit' /\ NothingAhead'
  BY <1>1 DEF Inv, ClaimsAreTimely, OnePermit, NothingAhead, MaySpawn, Recoverable
<1>7. HistoryVerifies' /\ WindowDecides' /\ FailureHolds'
  BY <1>1, Zenon DEF Inv, HistoryVerifies, WindowDecides, FailureHolds, Interrupted,
     Recoverable,
     Failed
<1> QED
  BY <1>3, <1>4, <1>5, <1>6, <1>7 DEF Inv

(* Time passes.                                                             *)
LEMMA TickKeeps ==
  ASSUME Inv, Tick
  PROVE  Inv'
<1>1. now \in Nat /\ now' = now + 1 /\ now' \in Instant
  BY DEF Inv, TypeOK, Instant, Tick
<1>2. UNCHANGED <<lease, control, claims, finals, fences, starts, supers, crashes, commands>>
  BY DEF Tick, store
<1>3. TypeOK'
  BY <1>1, <1>2 DEF Inv, TypeOK
<1>4. AtMostOneChild'
  BY <1>2 DEF Inv, AtMostOneChild
<1>5. CallsHold'
  <2> SUFFICES ASSUME NEW t \in Supervisor PROVE CallHolds(t)'
    BY DEF CallsHold
  <2>1. MaySpawn(t) => starts'[supers[t].i] = 0
    BY <1>2 DEF Inv, CallsHold, CallHolds
  <2>2. now <= now' /\ \A i \in Invocation : starts[i] <= starts'[i]
    BY <1>1, <1>2 DEF Inv, TypeOK
  <2>3. /\ lease.generation <= lease'.generation
        /\ lease'.generation = lease.generation => lease.expires <= lease'.expires
    BY <1>2 DEF Inv, TypeOK, Generation, LeaseRow
  <2> QED
    BY <1>2, <1>3, <1>4, <2>1, <2>2, <2>3, OthersKeep DEF Inv, CallsHold
<1>6. ClaimsAreTimely'
  BY <1>1, <1>2 DEF Inv, ClaimsAreTimely, Recoverable, TypeOK, Instant, ClaimRow
<1>7. NothingAhead'
  BY <1>1, <1>2 DEF Inv, NothingAhead, TypeOK, Instant, FinalRow, ControlRow
<1>8. OnePermit' /\ HistoryVerifies' /\ WindowDecides' /\ FailureHolds'
  BY <1>2 DEF Inv, OnePermit, MaySpawn, HistoryVerifies, WindowDecides, FailureHolds,
     Interrupted, Recoverable, Failed
<1> QED
  BY <1>3, <1>4, <1>5, <1>6, <1>7, <1>8 DEF Inv

(* Others command the account: only a rearm makes it run again, and it      *)
(* postdates every failure recorded so far.                                 *)
LEMMA CommandKeeps ==
  ASSUME Inv, NEW state \in {Running, Paused, Halted}, Command(state)
  PROVE  Inv'
<1>1. UNCHANGED <<now, lease, claims, finals, fences, starts, supers, crashes>>
  BY DEF Command
<1>2. /\ control \in ControlRow
      /\ now \in Instant
  BY DEF Inv, TypeOK
<1>3. /\ control' \in ControlRow
      /\ control'.rearmed = IF state = Running THEN now ELSE control.rearmed
      /\ state # Running => control'.state # Running
  <2>1. CASE state = Running
    BY <1>2, <2>1 DEF Command, Running, Halted, ControlRow
  <2>2. CASE state # Running
    <3> DEFINE to == IF control.state > state THEN control.state ELSE state
    <3>1. control' = [control EXCEPT !.state = to, !.decided = now]
      BY <2>2 DEF Command
    <3>2. to \in Running..Halted /\ to # Running
      BY <1>2, <2>2 DEF Running, Paused, Halted, ControlRow
    <3> HIDE DEF to
    <3> QED
      BY <1>2, <2>2, <3>1, <3>2, Zenon DEF ControlRow
  <2> QED
    BY <2>1, <2>2
<1>4. TypeOK'
  BY <1>1, <1>3 DEF Inv, TypeOK, Command
<1>5. AtMostOneChild'
  BY <1>1 DEF Inv, AtMostOneChild
<1>6. CallsHold' /\ ClaimsAreTimely' /\ OnePermit' /\ HistoryVerifies' /\ WindowDecides'
  BY <1>1, Zenon DEF Inv, CallsHold, CallHolds, ClaimedAt, MaySpawn, ClaimsAreTimely,
     OnePermit,
     HistoryVerifies, WindowDecides, Interrupted, Recoverable
<1>7. NothingAhead'
  BY <1>1, <1>2, <1>3 DEF Inv, NothingAhead, Instant
<1>8. FailureHolds'
  <2> SUFFICES ASSUME NEW i \in Invocation, finals[i] # None, Failed(finals[i].result),
                      finals[i].recorded > control'.rearmed
               PROVE  control'.state # Running
    BY <1>1 DEF FailureHolds, Failed
  <2>1. finals[i].recorded \in Nat /\ finals[i].recorded <= now /\ now \in Nat
    BY DEF Inv, TypeOK, NothingAhead, Instant, FinalRow
  <2>2. CASE state = Running
    BY <1>3, <2>1, <2>2
  <2>3. CASE state # Running
    BY <1>3, <2>3
  <2> QED
    BY <2>2, <2>3
<1> QED
  BY <1>4, <1>5, <1>6, <1>7, <1>8 DEF Inv

-----------------------------------------------------------------------------
(* A step in which only supervisor s moves, to a call c that may spawn a    *)
(* child only if s might already.                                           *)
LEMMA MoveKeeps ==
  ASSUME Inv, NEW s \in Supervisor, NEW c \in Call,
         UNCHANGED <<now, store, fences, starts, commands>>,
         crashes' \in 0..MaxCrashes,
         supers' = [supers EXCEPT ![s] = c],
         c.stage \in {"permit", "authorized", "spawn"} => MaySpawn(s) /\ c.i = supers[s].i,
         CallHolds(s)'
  PROVE  Inv'
<1>1. UNCHANGED <<lease, control, claims, finals>>
  BY DEF store
<1>2. supers \in [Supervisor -> Call] /\ supers' \in [Supervisor -> Call]
  BY DEF Inv, TypeOK
<1>3. supers'[s] = c /\ \A t \in Supervisor : t # s => supers'[t] = supers[t]
  BY <1>2
<1>4. TypeOK'
  BY <1>1, <1>2 DEF Inv, TypeOK
<1>5. AtMostOneChild' /\ ClaimsAreTimely' /\ NothingAhead'
  BY <1>1 DEF Inv, AtMostOneChild, ClaimsAreTimely, NothingAhead, Recoverable
<1>6. HistoryVerifies' /\ WindowDecides' /\ FailureHolds'
  BY <1>1, SMTT(30) DEF Inv, HistoryVerifies, WindowDecides, FailureHolds, Interrupted,
     Recoverable,
     Failed
<1>7. OnePermit'
  BY <1>3 DEF Inv, OnePermit, MaySpawn
<1>8. CallsHold'
  <2> SUFFICES ASSUME NEW t \in Supervisor, t # s PROVE CallHolds(t)'
    BY DEF CallsHold
  <2>1. supers'[t] = supers[t] /\ CallHolds(t)
    BY <1>3 DEF Inv, CallsHold
  <2> QED
    BY <1>1, <2>1, StillHolds, Zenon
<1> QED
  BY <1>4, <1>5, <1>6, <1>7, <1>8 DEF Inv

(* A supervisor gives up its call, or dies.                                 *)
LEMMA IdleKeeps ==
  ASSUME Inv, NEW s \in Supervisor,
         UNCHANGED <<now, store, fences, starts, commands>>,
         crashes' \in 0..MaxCrashes,
         Becomes(s, Idle)
  PROVE  Inv'
<1>1. Idle \in Call /\ Idle.stage = "idle"
  BY SMTT(30) DEF Call, Idle
<1>2. supers' = [supers EXCEPT ![s] = Idle] /\ supers'[s] = Idle
  BY DEF Becomes, Inv, TypeOK
<1>3. CallHolds(s)'
  BY <1>1, <1>2, SMTT(30) DEF CallHolds, MaySpawn
<1> QED
  BY <1>1, <1>2, <1>3, MoveKeeps, Zenon

(* A result is recorded for a pending claim, within its window or as its    *)
(* interruption.                                                            *)
LEMMA RecordKeeps ==
  ASSUME Inv, NEW s \in Supervisor, NEW i \in Invocation, NEW result \in ResultRecord,
         supers[s].stage # "idle", Pending(i), Record(s, i, result), Becomes(s, Idle),
         claims[i].claimed <= result.started,
         result.completed <= Recoverable(claims[i].claimed),
         result.completed = Recoverable(claims[i].claimed) => result = Interrupted(i),
         result.completed <= now,
         IF result.outcome = "interrupted"
         THEN now >= Recoverable(claims[i].claimed)
         ELSE /\ now < Recoverable(claims[i].claimed)
              /\ result.outcome = "completed" =>
                   starts[i] = 1 /\ result.completed - result.started < DecisionWindow
  PROVE  Inv'
<1>1. UNCHANGED <<now, lease, claims, fences, starts, crashes, commands>>
  BY DEF Record
<1> DEFINE row == [result |-> result, recorded |-> now, generation |-> supers[s].fence]
<1>2. supers[s].fence \in Generation /\ now \in Instant
  BY CallFields DEF Inv, TypeOK
<1>3. row \in FinalRow
  BY <1>2 DEF FinalRow
<1>4. row # None /\ row.result = result /\ row.recorded = now
  BY RowsAreNotNone, SMTT(30)
<1>5. /\ finals \in [Invocation -> {None} \union
            FinalRow]
      /\ finals' = [finals EXCEPT ![i] = row]
  BY SMTT(30) DEF Record, Inv, TypeOK
<1> HIDE DEF row
<1>6. /\ finals' \in [Invocation -> {None} \union
            FinalRow]
      /\ finals'[i] = row
      /\ \A j \in Invocation : j # i => finals'[j] = finals[j]
  BY <1>3, <1>5
<1>7. /\ control' \in ControlRow
      /\ control'.rearmed = control.rearmed
      /\ control.state # Running => control'.state # Running
      /\ Failed(result) => control'.state # Running
  <2>1. CASE Failed(result)
    <3> DEFINE to == IF control.state > Paused THEN control.state ELSE Paused
    <3>1. control' = [control EXCEPT !.state = to, !.decided = now]
      BY <2>1 DEF Record, Tripped
    <3>2. control \in ControlRow
      BY DEF Inv, TypeOK
    <3>3. to \in Running..Halted /\ to # Running
      BY <3>2 DEF Running, Paused, Halted, ControlRow
    <3> HIDE DEF to
    <3> QED
      BY <1>2, <3>1, <3>2, <3>3, Zenon DEF ControlRow
  <2>2. CASE ~Failed(result)
    BY <2>2, Zenon DEF Record, Inv, TypeOK
  <2> QED
    BY <2>1, <2>2
<1>8. supers' = [supers EXCEPT ![s] = Idle] /\ supers \in [Supervisor -> Call]
  BY DEF Becomes, Inv, TypeOK
<1>9. /\ supers' \in [Supervisor -> Call] /\ supers'[s] = Idle
      /\ \A t \in Supervisor : t # s => supers'[t] = supers[t]
  BY <1>8 DEF Call
<1>10. TypeOK'
  BY <1>1, <1>6, <1>7, <1>9 DEF Inv, TypeOK
<1>11. AtMostOneChild' /\ ClaimsAreTimely'
  BY <1>1 DEF Inv, AtMostOneChild, ClaimsAreTimely, Recoverable
<1>12. NothingAhead'
  BY <1>1, <1>2, <1>4, <1>6, <1>7, SMTT(30) DEF Inv, NothingAhead, Instant
<1>13. OnePermit'
  BY <1>9, SMTT(30) DEF Inv, OnePermit, MaySpawn, Idle
<1>14. CallsHold'
  <2> SUFFICES ASSUME NEW t \in Supervisor PROVE CallHolds(t)'
    BY Zenon DEF CallsHold
  <2>1. CASE t = s
    BY <1>9, <2>1, SMTT(30) DEF CallHolds, MaySpawn, Idle
  <2>2. CASE t # s
    <3>1. supers'[t] = supers[t] /\ CallHolds(t)
      BY <1>9, <2>2, Zenon DEF Inv, CallsHold
    <3> QED
      BY <1>1, <3>1, Zenon DEF CallHolds, ClaimedAt, MaySpawn, Recoverable
  <2> QED
    BY <2>1, <2>2, Zenon
<1>15. HistoryVerifies'
  BY <1>1, <1>4, <1>6, Zenon DEF Inv, HistoryVerifies, Interrupted, Recoverable, Pending
<1>16. WindowDecides'
  BY <1>1, <1>4, <1>6, Zenon DEF Inv, WindowDecides, Recoverable
<1>17. FailureHolds'
  BY <1>1, <1>4, <1>6, <1>7, Zenon DEF Inv, FailureHolds, Failed
<1> QED
  BY <1>10, <1>11, <1>12, <1>13, <1>14, <1>15, <1>16, <1>17 DEF Inv

-----------------------------------------------------------------------------
(* A claim of an unseen invocation is the only source of permits: nobody    *)
(* else can hold one for it.                                                *)
LEMMA ClaimKeeps ==
  ASSUME Inv, NEW s \in Supervisor, NEW i \in Invocation, Claim(s, i)
  PROVE  Inv'
<1> DEFINE row == [claimed |-> now, generation |-> fences[s]]
           c == [stage |-> "permit", i |-> i, fence |-> fences[s]]
<1>1. UNCHANGED <<now, lease, control, finals, fences, starts, crashes, commands>>
  BY DEF Claim
<1>2. /\ now \in Instant /\ fences[s] \in Generation /\ claims[i] = None
      /\ fences[s] = lease.generation /\ Recoverable(now) <= MaxTime
      /\ supers \in [Supervisor -> Call]
      /\ claims \in [Invocation -> {None} \union ClaimRow]
  BY DEF Claim, NewClaim, Holds, Inv, TypeOK
<1>3. /\ row \in ClaimRow /\ row # None
      /\ row.claimed = now
  BY <1>2, RowsAreNotNone DEF ClaimRow
<1>4. c \in Call /\ c.stage = "permit" /\ c.i = i /\ c.fence = lease.generation
  BY <1>2, SMTT(30) DEF Call
<1>5. claims' = [claims EXCEPT ![i] = row] /\ supers' = [supers EXCEPT ![s] = c]
  BY DEF Claim, Becomes
<1> HIDE DEF row, c
<1>6. /\ claims' \in [Invocation -> {None} \union ClaimRow]
      /\ claims'[i] = row /\ \A j \in Invocation : j # i => claims'[j] = claims[j]
  BY <1>2, <1>3, <1>5
<1>7. /\ supers' \in [Supervisor -> Call] /\ supers'[s] = c
      /\ \A t \in Supervisor : t # s => supers'[t] = supers[t]
  BY <1>2, <1>4, <1>5
<1>8. TypeOK'
  BY <1>1, <1>6, <1>7 DEF Inv, TypeOK
<1>9. starts[i] = 0 /\ finals[i] = None
  BY <1>2, SMTT(30) DEF Inv, ClaimsAreTimely, HistoryVerifies
<1>10. \A t \in Supervisor : supers[t].stage # "idle" => supers[t].i # i
  BY <1>2, Zenon DEF Inv, CallsHold, CallHolds
<1>11. AtMostOneChild' /\ NothingAhead' /\ FailureHolds'
  BY <1>1, Zenon DEF Inv, AtMostOneChild, NothingAhead, FailureHolds, Failed
<1>12. ClaimsAreTimely'
  BY <1>1, <1>2, <1>3, <1>6, NowFacts, TimelyClaim, Zenon DEF Inv
<1>13. OnePermit'
  BY <1>4, <1>7, <1>10, SMTT(30) DEF Inv, OnePermit, MaySpawn
<1>14. HistoryVerifies' /\ WindowDecides'
  BY <1>1, <1>6, <1>9, Zenon DEF Inv, HistoryVerifies, WindowDecides, Interrupted, Recoverable
<1>15. CallsHold'
  <2> SUFFICES ASSUME NEW t \in Supervisor PROVE CallHolds(t)'
    BY DEF CallsHold
  <2>1. CASE t = s
    BY <1>1, <1>2, <1>3, <1>4, <1>6, <1>7, <1>9, <2>1
      , SMTT(30) DEF CallHolds, MaySpawn, Inv, TypeOK, Generation
  <2>2. CASE t # s
    <3>1. supers'[t] = supers[t] /\ CallHolds(t)
      BY <1>7, <2>2 DEF Inv, CallsHold
    <3>2. supers[t].stage # "idle" => supers[t].i \in Invocation /\ supers[t].i # i
      BY <1>2, <1>10, CallFields
    <3>3. supers[t].stage # "idle" => claims'[supers[t].i] = claims[supers[t].i]
      BY <1>6, <3>2
    <3> QED
      BY <1>1, <3>1, <3>3, Zenon DEF CallHolds, ClaimedAt, MaySpawn, Recoverable
  <2> QED
    BY <2>1, <2>2
<1> QED
  BY <1>8, <1>11, <1>12, <1>13, <1>14, <1>15 DEF Inv

(* A retained claim gives its caller nothing to spawn with.                 *)
LEMMA RetainKeeps ==
  ASSUME Inv, NEW s \in Supervisor, NEW i \in Invocation, Retain(s, i)
  PROVE  Inv'
<1> DEFINE c == [stage |-> "recover", i |-> i, fence |-> fences[s]]
<1>1. /\ UNCHANGED <<now, store, fences, starts, commands, crashes>>
      /\ supers' = [supers EXCEPT ![s] = c]
  BY DEF Retain, OnlySupers, Becomes
<1>2. c \in Call /\ c.stage = "recover" /\ c.i = i /\ c.fence = fences[s]
  BY Zenon DEF Call, Inv, TypeOK
<1>3. claims[i] # None /\ fences[s] <= lease.generation
  BY DEF Retain, Pending, Holds, Inv, TypeOK, Generation
<1>4. supers'[s] = c
  BY <1>1 DEF Inv, TypeOK
<1> HIDE DEF c
<1>5. CallHolds(s)'
  BY <1>1, <1>2, <1>3, <1>4, SMTT(30) DEF CallHolds, MaySpawn, store
<1>6. crashes' \in 0..MaxCrashes
  BY <1>1 DEF Inv, TypeOK
<1> QED
  BY <1>1, <1>2, <1>5, <1>6, MoveKeeps, Zenon

-----------------------------------------------------------------------------

(* The fields of what a busy supervisor holds, with its claim's instant.    *)
LEMMA BusyFacts ==
  ASSUME Inv, NEW s \in Supervisor, supers[s].stage # "idle"
  PROVE  /\ supers[s].i \in Invocation /\ supers[s].fence \in Generation
         /\ claims[supers[s].i] # None
         /\ claims[supers[s].i] \in ClaimRow
         /\ ClaimedAt(s) \in Nat /\ ClaimedAt(s) <= now /\ now \in Nat /\ now \in Instant
         /\ Recoverable(ClaimedAt(s)) \in Instant
         /\ starts[supers[s].i] \in Nat
<1>1. supers[s] \in Call /\ now \in Instant
  BY DEF Inv, TypeOK
<1>2. supers[s].i \in Invocation /\ supers[s].fence \in Generation
  BY <1>1, CallFields
<1>3. claims[supers[s].i] # None
  BY SMTT(30) DEF Inv, CallsHold, CallHolds
<1>4. claims[supers[s].i] \in ClaimRow
  BY <1>2, <1>3 DEF Inv, TypeOK
<1> QED
  BY <1>1, <1>2, <1>3, <1>4, SMTT(30) DEF Inv, TypeOK, ClaimsAreTimely, ClaimedAt, Recoverable,
     Instant,
     ClaimRow

(* The runner's result replaces the call, or is dropped.                    *)
LEMMA ReturnKeeps ==
  ASSUME Inv, NEW s \in Supervisor, supers[s].stage \in {"authorized", "spawn", "running"},
         UNCHANGED <<now, store, fences, starts, commands, crashes>>,
         NEW outcome \in {"completed", "failed"}, NEW started \in Instant,
         Returned(s, Result(outcome, started)),
         ClaimedAt(s) <= started,
         outcome = "completed" =>
           starts[supers[s].i] = 1 /\ now - started < DecisionWindow
  PROVE  Inv'
<1> DEFINE r == Result(outcome, started)
           c == [stage |-> "result", i |-> supers[s].i, fence |-> supers[s].fence, result |-> r]
<1>0. crashes' \in 0..MaxCrashes
  BY DEF Inv, TypeOK
<1>1. CASE ~(r.completed < Recoverable(ClaimedAt(s)))
  BY <1>0, <1>1, IdleKeeps, SMTT(30) DEF Returned, ClaimedAt
<1>2. CASE r.completed < Recoverable(ClaimedAt(s))
  <2>1. r \in ResultRecord /\ r.completed = now /\ r.started = started /\ r.outcome = outcome
    BY BusyFacts, SMTT(30) DEF Result, ResultRecord
  <2>2. supers' = [supers EXCEPT ![s] = c]
    BY <1>2 DEF Returned, Becomes, ClaimedAt
  <2> HIDE DEF r
  <2>3. c \in Call
    BY <2>1, BusyFacts, Zenon DEF Call
  <2>4. /\ c.stage = "result" /\ c.i = supers[s].i /\ c.fence = supers[s].fence
        /\ c.result = r
    BY Zenon
  <2>5. supers'[s] = c
    BY <2>2 DEF Inv, TypeOK
  <2> HIDE DEF c
  <2>6. UNCHANGED <<lease, claims>> /\ ClaimedAt(s)' = ClaimedAt(s)
    BY <2>4, <2>5, Zenon DEF store, ClaimedAt
  <2>7. claims[c.i] # None /\ c.fence <= lease.generation /\ now \in Nat
    <3>1. CallHolds(s)
      BY Zenon DEF Inv, CallsHold
    <3> QED
      BY <2>4, <3>1, BusyFacts, Zenon DEF CallHolds
  <2>8. CallHolds(s)'
    <3>1. /\ supers'[s].stage = "result" /\ ~MaySpawn(s)'
          /\ supers'[s].result = r /\ supers'[s].i = supers[s].i
      BY <2>4, <2>5, Zenon DEF MaySpawn
    <3>2. /\ ClaimedAt(s)' <= r.started /\ r.completed <= now'
          /\ r.completed < Recoverable(ClaimedAt(s))'
      BY <1>2, <2>1, <2>6, NowFacts, Zenon DEF Recoverable
    <3>3. /\ r.outcome # "interrupted"
          /\ r.outcome = "completed" =>
               starts'[supers[s].i] = 1 /\ r.completed - r.started < DecisionWindow
      BY <2>1, Zenon
    <3> QED
      BY <2>4, <2>5, <2>6, <2>7, <3>1, <3>2, <3>3, Zenon DEF CallHolds
  <2> QED
    BY <1>0, <2>2, <2>3, <2>4, <2>8, MoveKeeps, Zenon
<1> QED
  BY <1>1, <1>2, SMTT(30)

(* An interruption is recorded for a claim that is due.                     *)
LEMMA InterruptKeeps ==
  ASSUME Inv, NEW s \in Supervisor, supers[s].stage # "idle",
         Pending(supers[s].i), Due(supers[s].i),
         Record(s, supers[s].i, Interrupted(supers[s].i)), Becomes(s, Idle)
  PROVE  Inv'
<1> DEFINE i == supers[s].i
<1>1. /\ i \in Invocation /\ ClaimedAt(s) \in Nat /\ ClaimedAt(s) \in Instant
      /\ Recoverable(ClaimedAt(s)) \in Instant
  BY BusyFacts, Zenon DEF ClaimedAt, ClaimRow
<1>2. /\ Interrupted(i) \in ResultRecord
      /\ Interrupted(i).outcome = "interrupted" /\ Interrupted(i).started = ClaimedAt(s)
      /\ Interrupted(i).completed = Recoverable(ClaimedAt(s))
  BY <1>1, Zenon DEF Interrupted, ResultRecord, ClaimedAt
<1>3. now >= Recoverable(ClaimedAt(s)) /\ now \in Nat
  BY BusyFacts, Zenon DEF Due, ClaimedAt
<1>4. Recoverable(ClaimedAt(s)) <= now /\ ClaimedAt(s) <= ClaimedAt(s)
      /\ Recoverable(ClaimedAt(s)) <= Recoverable(ClaimedAt(s))
  BY <1>1, <1>3, InstantFacts, Zenon
<1> QED
  BY <1>1, <1>2, <1>3, <1>4, RecordKeeps, Zenon DEF ClaimedAt

(* authorize_start: the permit becomes an authorization under a lease that  *)
(* outlives the claim's window, or an interruption, or nothing.             *)
LEMMA AuthorizeKeeps ==
  ASSUME Inv, NEW s \in Supervisor, Authorize(s)
  PROVE  Inv'
<1> DEFINE p == supers[s]
           c == [stage |-> "authorized", i |-> p.i, fence |-> p.fence, at |-> now]
<1>0. p.stage = "permit" /\ crashes \in 0..MaxCrashes
  BY SMTT(30) DEF Authorize, Inv, TypeOK
<1>1. CASE /\ Holds(p.fence) /\ Pending(p.i) /\ MayStart(p.i)
           /\ Becomes(s, c) /\ OnlySupers
  <2>1. UNCHANGED <<now, store, fences, starts, commands, crashes>>
    BY <1>1 DEF OnlySupers
  <2>2. c \in Call
    BY <1>0, BusyFacts, Zenon DEF Call
  <2>3. c.stage = "authorized" /\ c.i = p.i /\ c.fence = p.fence /\ c.at = now
    OBVIOUS
  <2>4. supers' = [supers EXCEPT ![s] = c] /\ supers'[s] = c
    BY <1>1 DEF Becomes, Inv, TypeOK
  <2> HIDE DEF c
  <2>5. UNCHANGED <<lease, claims>> /\ ClaimedAt(s)' = ClaimedAt(s)
    BY <2>1, <2>3, <2>4, SMTT(30) DEF store, ClaimedAt
  <2>6. CallHolds(s) /\ Recoverable(ClaimedAt(s)) < lease.expires
    BY <1>1 DEF Inv, CallsHold, MayStart, CoversWindow, ClaimedAt
  <2>7. CallHolds(s)'
    <3>1. ClaimedAt(s) <= now /\ MaySpawn(s)
      BY <1>0, BusyFacts, Zenon DEF MaySpawn
    <3> QED
      BY <2>1, <2>3, <2>4, <2>5, <2>6, <3>1, NowFacts, StartHolds, Zenon
  <2> QED
    BY <1>0, <2>1, <2>2, <2>3, <2>4, <2>7, MoveKeeps, Zenon DEF MaySpawn
<1>2. CASE /\ Pending(p.i) /\ Due(p.i) /\ Record(s, p.i, Interrupted(p.i)) /\ Becomes(s, Idle)
  BY <1>0, <1>2, InterruptKeeps, Zenon
<1>3. CASE Becomes(s, Idle) /\ OnlySupers
  BY <1>0, <1>3, IdleKeeps, Zenon DEF OnlySupers
<1> QED
  BY <1>1, <1>2, <1>3, Zenon DEF Authorize

(* run_supervised_strategy up to Popen.                                     *)
LEMMA PrepareKeeps ==
  ASSUME Inv, NEW s \in Supervisor, Prepare(s)
  PROVE  Inv'
<1> DEFINE p == supers[s]
           c == [stage |-> "spawn", i |-> p.i, fence |-> p.fence, started |-> now]
<1>0. p.stage = "authorized" /\ crashes' \in 0..MaxCrashes
  BY DEF Prepare, Inv, TypeOK, OnlySupers
<1>1. UNCHANGED <<now, store, fences, starts, commands, crashes>>
  BY SMTT(30) DEF Prepare, OnlySupers
<1>2. CASE Becomes(s, c)
  <2>1. c \in Call
    BY <1>0, BusyFacts, SMTT(30) DEF Call
  <2>2. c.stage = "spawn" /\ c.i = p.i /\ c.fence = p.fence /\ c.started = now
    OBVIOUS
  <2>3. supers' = [supers EXCEPT ![s] = c] /\ supers'[s] = c
    BY <1>2 DEF Becomes, Inv, TypeOK
  <2> HIDE DEF c
  <2>4. UNCHANGED <<lease, claims>> /\ ClaimedAt(s)' = ClaimedAt(s)
    BY <1>1, <2>2, <2>3, SMTT(30) DEF store, ClaimedAt
  <2>5. CallHolds(s)
    BY DEF Inv, CallsHold
  <2>6. CallHolds(s)'
    <3>1. lease.generation = p.fence => Recoverable(ClaimedAt(s)) < lease.expires
      BY <1>0, <2>5, Zenon DEF CallHolds
    <3>2. ClaimedAt(s) <= now /\ MaySpawn(s)
      BY <1>0, BusyFacts, Zenon DEF MaySpawn
    <3> QED
      BY <1>1, <2>2, <2>3, <2>4, <2>5, <3>1, <3>2, NowFacts, StartHolds, Zenon
  <2> QED
    BY <1>0, <1>1, <2>1, <2>2, <2>3, <2>6, MoveKeeps, Zenon DEF MaySpawn
<1>3. CASE Returned(s, Result("failed", now))
  BY <1>0, <1>1, <1>3, BusyFacts, ReturnKeeps, Zenon
<1>4. CASE Becomes(s, Idle)
  BY <1>0, <1>1, <1>4, IdleKeeps, Zenon
<1> QED
  BY <1>2, <1>3, <1>4, SMTT(30) DEF Prepare

(* Popen: the child of the only supervisor that may spawn one.              *)
LEMMA SpawnKeeps ==
  ASSUME Inv, NEW s \in Supervisor, Spawn(s)
  PROVE  Inv'
<1> DEFINE p == supers[s]
           c == [p EXCEPT !.stage = "running"]
<1>0. p.stage = "spawn" /\ UNCHANGED <<now, store, fences, crashes, commands>>
  BY DEF Spawn
<1>1. CASE UNCHANGED starts /\ Returned(s, Result("failed", p.started))
  <2>1. p.started \in Instant /\ ClaimedAt(s) <= p.started
    BY <1>0, SpawnFacts, Zenon
  <2> QED
    BY <1>0, <1>1, <2>1, ReturnKeeps, Zenon
<1>2. CASE starts' = [starts EXCEPT ![p.i] = @ + 1] /\ Becomes(s, c)
  <2>1. UNCHANGED <<lease, control, claims, finals>>
    BY <1>0, SMTT(30) DEF store
  <2>2. /\ p \in [stage : {"spawn", "running"}, i : Invocation, fence : Generation,
                  started : Instant]
        /\ supers \in [Supervisor -> Call] /\ starts \in [Invocation -> Nat]
    BY <1>0, SpawnFields, Zenon
  <2>3. /\ c \in Call /\ c.stage = "running" /\ c.i = p.i /\ c.fence = p.fence
        /\ c.started = p.started
    BY <2>2 DEF Call
  <2>4. supers' = [supers EXCEPT ![s] = c]
    BY <1>2 DEF Becomes
  <2> HIDE DEF c
  <2>5. /\ supers' \in [Supervisor -> Call] /\ supers'[s] = c
        /\ \A t \in Supervisor : t # s => supers'[t] = supers[t]
    BY <2>2, <2>3, <2>4
  <2>6. starts[p.i] = 0 /\ p.i \in Invocation
    BY <1>0, <2>2, Zenon DEF Inv, CallsHold, CallHolds, MaySpawn
  <2>7. /\ starts' \in [Invocation -> Nat] /\ starts'[p.i] = 1
        /\ \A j \in Invocation : j # p.i => starts'[j] = starts[j]
    BY <1>2, <2>2, <2>6
  <2>8. TypeOK'
    BY <1>0, <2>1, <2>5, <2>7 DEF Inv, TypeOK
  <2>9. AtMostOneChild'
    BY <2>7, SMTT(30) DEF Inv, AtMostOneChild
  <2>10. claims[p.i] # None
    BY <1>0, Zenon DEF Inv, CallsHold, CallHolds
  <2>11. ClaimsAreTimely'
    BY <1>0, <2>1, <2>7, <2>10, Zenon DEF Inv, ClaimsAreTimely, Recoverable
  <2>12. OnePermit'
    BY <2>3, <2>5, SMTT(30) DEF Inv, OnePermit, MaySpawn
  <2>13. NothingAhead' /\ HistoryVerifies' /\ FailureHolds'
    BY <1>0, <2>1, Zenon DEF Inv, NothingAhead, HistoryVerifies, FailureHolds, Interrupted,
       Recoverable,
       Failed
  <2>14. WindowDecides'
    BY <2>1, <2>6, <2>7, Zenon DEF Inv, WindowDecides, Recoverable
  <2>15. CallsHold'
    <3> SUFFICES ASSUME NEW t \in Supervisor PROVE CallHolds(t)'
      BY DEF CallsHold
    <3>1. CASE t = s
      <4>1. ClaimedAt(s)' = ClaimedAt(s) /\ CallHolds(s)
        BY <2>1, <2>3, <2>5, Zenon DEF ClaimedAt, Inv, CallsHold
      <4> QED
        BY <1>0, <2>1, <2>3, <2>5, <2>7, <3>1, <4>1, Zenon DEF CallHolds, MaySpawn, Recoverable
    <3>2. CASE t # s
      <4>1. supers'[t] = supers[t] /\ CallHolds(t)
        BY <2>5, <3>2 DEF Inv, CallsHold
      <4>2. MaySpawn(t) => starts'[supers[t].i] = 0
        <5>1. MaySpawn(t) => supers[t].i # p.i /\ supers[t].i \in Invocation
          BY <1>0, <3>2, SpawnFacts, Zenon
        <5> QED
          BY <2>7, <4>1, <5>1, Zenon DEF CallHolds
      <4>3. /\ now <= now' /\ lease.generation <= lease'.generation
            /\ lease.expires <= lease'.expires
            /\ \A i \in Invocation : starts[i] <= starts'[i]
        BY <1>0, <2>1, <2>2, <2>6, <2>7, SMTT(30) DEF Inv, TypeOK, Instant, Generation, LeaseRow
      <4> QED
        BY <2>1, <2>8, <2>9, <4>1, <4>2, <4>3, OthersKeep, Zenon DEF Inv
    <3> QED
      BY <3>1, <3>2
  <2> QED
    BY <2>8, <2>9, <2>11, <2>12, <2>13, <2>14, <2>15 DEF Inv
<1> QED
  BY <1>1, <1>2 DEF Spawn

(* The child is reaped: a result, or nothing.                               *)
LEMMA ReapKeeps ==
  ASSUME Inv, NEW s \in Supervisor, Reap(s)
  PROVE  Inv'
<1> DEFINE p == supers[s]
<1>0. p.stage = "running" /\ UNCHANGED <<now, store, fences, starts, commands, crashes>>
  BY Zenon DEF Reap, OnlySupers
<1>1. p.started \in Instant /\ ClaimedAt(s) <= p.started /\ starts[p.i] = 1
  BY <1>0, CallFields, Zenon DEF Inv, TypeOK, CallsHold, CallHolds
<1>2. ASSUME NEW outcome \in Outcomes(now - p.started),
             Returned(s, Result(outcome, p.started))
      PROVE  Inv'
  <2>1. /\ outcome \in {"completed", "failed"}
        /\ outcome = "completed" => now - p.started < DecisionWindow
    BY <1>2, SMTT(30) DEF Outcomes
  <2> QED
    BY <1>0, <1>1, <1>2, <2>1, ReturnKeeps, Zenon
<1>3. CASE Becomes(s, Idle)
  BY <1>0, <1>3, IdleKeeps, Zenon DEF Inv, TypeOK
<1> QED
  BY <1>2, <1>3, Zenon DEF Reap

(* finalize: the runner's result is recorded inside the window, or dropped. *)
LEMMA FinalizeKeeps ==
  ASSUME Inv, NEW s \in Supervisor, Finalize(s)
  PROVE  Inv'
<1> DEFINE p == supers[s]
<1>0. p.stage = "result" /\ Becomes(s, Idle)
  BY Zenon DEF Finalize
<1>1. CASE Finalizable(p) /\ Record(s, p.i, p.result)
  <2>1. Pending(p.i) /\ now < Recoverable(ClaimedAt(s))
    BY <1>0, <1>1, BusyFacts DEF Finalizable, Due, ClaimedAt, Instant
  <2>2. p.result \in ResultRecord /\ p.i \in Invocation
    BY <1>0, CallFields, SMTT(30) DEF Inv, TypeOK
  <2>3. CallHolds(s) /\ p.result.completed \in Nat /\ Recoverable(ClaimedAt(s)) \in Nat
    BY <1>0, <2>2, BusyFacts, SMTT(30) DEF Inv, CallsHold, ResultRecord, Instant
  <2>4. /\ ClaimedAt(s) <= p.result.started
        /\ p.result.completed <= now
        /\ p.result.completed <= Recoverable(ClaimedAt(s))
        /\ p.result.completed # Recoverable(ClaimedAt(s))
        /\ p.result.outcome # "interrupted"
        /\ p.result.outcome = "completed" =>
             starts[p.i] = 1 /\ p.result.completed - p.result.started < DecisionWindow
    BY <1>0, <2>3, SMTT(30) DEF CallHolds
  <2> QED
    BY <1>0, <1>1, <2>1, <2>2, <2>4, RecordKeeps, Zenon DEF ClaimedAt
<1>2. CASE OnlySupers
  BY <1>0, <1>2, IdleKeeps, Zenon DEF OnlySupers, Inv, TypeOK
<1> QED
  BY <1>1, <1>2, Zenon DEF Finalize

(* recover: an interruption, or nothing.                                    *)
LEMMA RecoverKeeps ==
  ASSUME Inv, NEW s \in Supervisor, Recover(s)
  PROVE  Inv'
<1>0. supers[s].stage = "recover" /\ Becomes(s, Idle)
  BY Zenon DEF Recover
<1>1. CASE RecoverableNow(supers[s]) /\ Record(s, supers[s].i, Interrupted(supers[s].i))
  BY <1>0, <1>1, InterruptKeeps, Zenon DEF RecoverableNow
<1>2. CASE OnlySupers
  BY <1>0, <1>2, IdleKeeps, Zenon DEF OnlySupers, Inv, TypeOK
<1> QED
  BY <1>1, <1>2, Zenon DEF Recover

LEMMA CrashKeeps ==
  ASSUME Inv, NEW s \in Supervisor, Crash(s)
  PROVE  Inv'
<1>1. crashes' \in 0..MaxCrashes
  BY DEF Crash, Inv, TypeOK
<1> QED
  BY <1>1, IdleKeeps DEF Crash

-----------------------------------------------------------------------------
LEMMA NextKeeps ==
  Inv /\ [Next]_vars => Inv'
<1> SUFFICES ASSUME Inv, [Next]_vars PROVE Inv'
  OBVIOUS
<1>1. CASE UNCHANGED vars
  BY <1>1, ZenonT(30) DEF vars, store, Inv, TypeOK, ClaimsAreTimely, OnePermit, CallsHold, CallHolds,
     MaySpawn, ClaimedAt, NothingAhead, AtMostOneChild, HistoryVerifies, WindowDecides,
     FailureHolds, Interrupted, Recoverable, Failed
<1>2. CASE Tick
  BY <1>2, TickKeeps
<1>3. ASSUME NEW state \in {Running, Paused, Halted}, Command(state) PROVE Inv'
  BY <1>3, CommandKeeps
<1>4. ASSUME NEW s \in Supervisor,
             Acquire(s) \/ Join(s) \/ Renew(s) \/ Release(s) \/ Crash(s) \/ Step(s)
      PROVE  Inv'
  BY <1>4, LeaseKeeps, CrashKeeps, AuthorizeKeeps, PrepareKeeps, SpawnKeeps, ReapKeeps,
     FinalizeKeeps, RecoverKeeps DEF Step
<1>5. ASSUME NEW s \in Supervisor, NEW i \in Invocation, Claim(s, i) \/ Retain(s, i)
      PROVE  Inv'
  BY <1>5, ClaimKeeps, RetainKeeps
<1> QED
  BY <1>1, <1>2, <1>3, <1>4, <1>5 DEF Next

(* The inductive invariant holds in every reachable state.                  *)
THEOREM Invariance == Spec => []Inv
BY InitHolds, NextKeeps, PTL DEF Spec

(* However callers, retries, lost answers, handovers of the account and     *)
(* crashes interleave, an invocation spawns at most one child (claim,       *)
(* authorize_start, run_supervised_strategy).                               *)
THEOREM OneChild == Spec => []AtMostOneChild
<1>1. Inv => AtMostOneChild
  BY DEF Inv
<1> QED
  BY <1>1, Invariance, PTL

(* A child inside its claim's window runs under a lease that has not run    *)
(* out, unless the account was released under it.                           *)
LEMMA LeaseCovers ==
  Inv => LeaseCoversChild
<1> SUFFICES ASSUME Inv, NEW s \in Supervisor, supers[s].stage = "running",
                    now < Recoverable(claims[supers[s].i].claimed),
                    lease.generation = supers[s].fence
             PROVE  now < lease.expires
  BY SMTT(30) DEF LeaseCoversChild
<1>1. Recoverable(ClaimedAt(s)) < lease.expires
  BY Zenon DEF Inv, CallsHold, CallHolds
<1>2. now \in Nat /\ Recoverable(ClaimedAt(s)) \in Nat /\ lease.expires \in Nat
  BY BusyFacts, SMTT(30) DEF Instant, Inv, TypeOK, LeaseRow
<1> QED
  BY <1>1, <1>2, SMTT(30) DEF ClaimedAt

(* A recorded result stays what it is.                                      *)
LEMMA ResultsStay ==
  ASSUME Inv, [Next]_vars, NEW i \in Invocation, finals[i] # None
  PROVE  finals'[i] = finals[i]
<1>1. ASSUME NEW s \in Supervisor, NEW j, NEW r, Pending(j), Record(s, j, r)
      PROVE  finals'[i] = finals[i]
  <2>1. j # i /\ finals' = [finals EXCEPT ![j] =
                    [result |-> r, recorded |-> now, generation |-> supers[s].fence]]
    BY <1>1, SMTT(30) DEF Pending, Record
  <2> QED
    BY <2>1, SMTT(30) DEF Inv, TypeOK
<1>2. ASSUME NEW s \in Supervisor, Step(s)
      PROVE  finals'[i] = finals[i]
  <2>1. CASE Authorize(s)
    BY <1>1, <2>1, Zenon DEF Authorize, OnlySupers, store
  <2>2. CASE Prepare(s) \/ Spawn(s) \/ Reap(s)
    BY <2>2 DEF Prepare, Spawn, Reap, OnlySupers, store
  <2>3. CASE Finalize(s)
    BY <1>1, <2>3, Zenon DEF Finalize, Finalizable, OnlySupers, store
  <2>4. CASE Recover(s)
    BY <1>1, <2>4, Zenon DEF Recover, RecoverableNow, OnlySupers, store
  <2> QED
    BY <1>2, <2>1, <2>2, <2>3, <2>4, Zenon DEF Step
<1>3. CASE UNCHANGED finals
  BY <1>3
<1>4. ASSUME NEW s \in Supervisor,
             \/ Acquire(s) \/ Join(s) \/ Renew(s) \/ Release(s) \/ Crash(s)
             \/ \E j \in Invocation : Claim(s, j) \/ Retain(s, j)
      PROVE  UNCHANGED finals
  BY <1>4, Zenon DEF Acquire, Join, Renew, Release, Crash, Claim, Retain, OnlySupers, store
<1>5. CASE Tick \/ (\E state \in {Running, Paused, Halted} : Command(state)) \/ UNCHANGED vars
  BY <1>5 DEF Tick, Command, vars, store
<1> QED
  BY <1>2, <1>3, <1>4, <1>5 DEF Next

(* Recorded results verify, were decided by the claim's window, hold the    *)
(* account where they failed and are never replaced; a running child is     *)
(* covered by its lease (finalize, recover, authorize_start,                *)
(* record_strategy_supervision_in_transaction).                             *)
THEOREM Results == Spec => ResultsStand
<1>1. Inv => ResultsAreSound
  BY LeaseCovers DEF Inv, ResultsAreSound
<1>2. Inv /\ [Next]_vars =>
        [\A i \in Invocation : finals[i] # None => finals'[i] = finals[i]]_vars
  BY ResultsStay
<1> QED
  BY <1>1, <1>2, Invariance, PTL DEF Spec, ResultsStand, ResultIsForever
=============================================================================
