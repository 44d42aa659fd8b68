---------------------- MODULE AccountCoordinatorProofs ----------------------
(***************************************************************************)
(* Proofs about AccountCoordinator for every set of processes and owners,  *)
(* every lease duration and every bound on instants and generations.       *)
(***************************************************************************)
EXTENDS AccountCoordinator, TLAPS

USE OwnerAssumption, TtlAssumption, InstantAssumption, GenerationAssumption DEF Instant

(* The null lease is not a lease revision: generations start at one.        *)
LEMMA NoLeaseIsNotALease == NoLease \notin Lease
  BY DEF NoLease, Lease

(* The fence of any lease revision, and the null fence, are fence ids.      *)
LEMMA FenceType ==
  ASSUME NEW l \in Lease \cup {NoLease}
  PROVE  Fence(l) \in FenceId
  BY DEF Fence, FenceId, Lease, NoLease

(* The first revision of a generation is a lease revision.                  *)
LEMMA FirstRevisionType ==
  ASSUME NEW g \in 1 .. MaxGeneration, NEW o \in Owner, NEW now \in Instant
  PROVE  FirstRevision(g, o, now) \in Lease
  BY DEF FirstRevision, Lease

(* Recording a clock observation keeps the head well typed.                 *)
LEMMA ObserveType ==
  ASSUME NEW h \in Head, NEW now \in Instant
  PROVE  _observe(h, now) \in Head
  BY DEF _observe, Head

(* Granting a generation keeps the state well typed.                        *)
LEMMA InsertType ==
  ASSUME TypeOK, NEW p \in Proc, NEW now \in Instant, NEW h \in Head,
         InsertFirstRevision(p, h, now)
  PROVE  TypeOK'
<1> DEFINE lease == FirstRevision(h.last + 1, OwnerOf[p], now)
<1>1. h.last + 1 \in 1 .. MaxGeneration /\ OwnerOf[p] \in Owner
  BY DEF InsertFirstRevision, Head
<1>2. lease \in Lease
  BY <1>1, FirstRevisionType
<1>3. Fence(lease) \in FenceId
  BY <1>2, FenceType
<1> HIDE DEF lease
<1>4. head' \in Head
  BY <1>1, <1>2 DEF InsertFirstRevision, _set_head, Head, lease
<1>5. fence' \in [Proc -> FenceId]
  BY <1>3 DEF InsertFirstRevision, TypeOK, lease
<1> QED
  BY <1>2, <1>4, <1>5 DEF InsertFirstRevision, TypeOK, lease

(* Every method keeps the head, the tables, the fences and the effects well *)
(* typed.                                                                   *)
THEOREM TypeCorrect == Spec => []TypeOK
<1>1. Init => TypeOK
  BY FenceType DEF Init, TypeOK, Head, NoHead, NoFence
<1>2. TypeOK /\ [Next]_vars => TypeOK'
  <2> SUFFICES ASSUME TypeOK, [Next]_vars PROVE TypeOK'
    OBVIOUS
  <2>1. CASE UNCHANGED vars
    BY <2>1 DEF vars, TypeOK
  <2>2. CASE Next
    <3> PICK p \in Proc, now \in Instant :
          \/ AcquireNew(p, now)
          \/ AcquireExisting(p, now)
          \/ AcquireRejected(p, now)
          \/ \E expected \in 0 .. MaxGeneration :
                acquire_if_inactive_generation(p, expected, now)
          \/ Renew(p, now)
          \/ RenewObserved(p, now)
          \/ \E checked \in Instant : Revalidate(p, checked, now)
          \/ \E checked \in Instant : RunFenced(p, checked, now)
          \/ \E checked \in Instant : RevalidateInEffect(p, checked, now)
          \/ EndEffect(p)
          \/ ReleaseLease(p, now)
          \/ ReleaseRejected(p, now)
          \/ Crash(p)
      BY <2>2 DEF Next
    <3>1. CASE AcquireNew(p, now)
      <4>1. _bootstrap_head(now) \in Head
        BY DEF _bootstrap_head, TypeOK, Head
      <4> QED
        BY <3>1, <4>1, InsertType DEF AcquireNew
    <3>2. CASE AcquireExisting(p, now)
      <4>1. Fence(head.current) \in FenceId
        BY FenceType DEF TypeOK, Head
      <4> QED
        BY <3>2, <4>1, ObserveType DEF AcquireExisting, TypeOK
    <3>3. CASE AcquireRejected(p, now)
      BY <3>3, ObserveType DEF AcquireRejected, TypeOK
    <3>4. CASE \E expected \in 0 .. MaxGeneration :
                  acquire_if_inactive_generation(p, expected, now)
      BY <3>4, InsertType DEF acquire_if_inactive_generation, TypeOK
    <3>5. CASE Renew(p, now)
      <4> DEFINE lease == NextRevision(head.current, now)
      <4>1. head.current \in Lease
        BY <3>5 DEF Renew, HoldsCurrent, TypeOK, Head
      <4>2. lease \in Lease
        BY <4>1 DEF Lease, NextRevision
      <4>3. leases' = leases \cup {lease}
            /\ head' = _set_head(head.current.gen, lease, now)
            /\ UNCHANGED <<releases, fence, effects>>
        BY <3>5 DEF Renew
      <4> HIDE DEF lease
      <4> QED
        BY <4>1, <4>2, <4>3 DEF TypeOK, Head, Lease, _set_head
    <3>6. CASE RenewObserved(p, now)
      BY <3>6, ObserveType DEF RenewObserved, TypeOK
    <3>7. CASE \E checked \in Instant : Revalidate(p, checked, now)
      BY <3>7, ObserveType DEF Revalidate, TypeOK
    <3>8. CASE \E checked \in Instant : RunFenced(p, checked, now)
      BY <3>8 DEF RunFenced, TypeOK
    <3>9. CASE \E checked \in Instant : RevalidateInEffect(p, checked, now)
      BY <3>9 DEF RevalidateInEffect, TypeOK
    <3>10. CASE EndEffect(p)
      BY <3>10, ObserveType DEF EndEffect, TypeOK
    <3>11. CASE ReleaseLease(p, now)
      <4>1. head.current \in Lease
        BY <3>11 DEF ReleaseLease, Releasable, HoldsCurrent, TypeOK, Head
      <4>2. [gen |-> head.current.gen, rev |-> head.current.rev, at |-> now] \in Release
        BY <4>1 DEF Lease, Release
      <4> QED
        BY <3>11, <4>1, <4>2 DEF ReleaseLease, _set_head, TypeOK, Head, Lease
    <3>12. CASE ReleaseRejected(p, now)
      BY <3>12, ObserveType DEF ReleaseRejected, TypeOK
    <3>13. CASE Crash(p)
      <4>1. NoFence \in FenceId
        BY FenceType DEF NoFence
      <4> QED
        BY <3>13, <4>1 DEF Crash, TypeOK
    <3> QED
      BY <3>1, <3>2, <3>3, <3>4, <3>5, <3>6, <3>7, <3>8, <3>9, <3>10, <3>11, <3>12, <3>13
  <2> QED
    BY <2>1, <2>2
<1> QED
  BY <1>1, <1>2, PTL DEF Spec

-----------------------------------------------------------------------------
(* The verifier and the writes.  Each lemma takes a history the verifier    *)
(* accepts and shows that it accepts the history one write later.           *)

(* Observing a later instant.                                               *)
LEMMA ObserveVerifies ==
  ASSUME NEW h \in Head, NEW ls \in SUBSET Lease, NEW rs \in SUBSET Release,
         NEW now \in Instant, now >= h.updated,
         verify_account_lease_history(h, ls, rs)
  PROVE  verify_account_lease_history(_observe(h, now), ls, rs)
<1> DEFINE k == _observe(h, now)
<1>1. k.last = h.last /\ k.current = h.current /\ k.updated = now
  BY DEF _observe, Head
<1> HIDE DEF k
<1>2. VerifyHead(k, ls, rs)
  BY <1>1 DEF VerifyHead, verify_account_lease_history, Head, Lease, Release
<1> QED
  BY <1>1, <1>2 DEF verify_account_lease_history, k

(* Granting the generation after the last one, at or after the instant of   *)
(* the head, when no lease is active.                                       *)
LEMMA GrantVerifies ==
  ASSUME NEW h \in Head, NEW ls \in SUBSET Lease, NEW rs \in SUBSET Release,
         NEW now \in Instant, now >= h.updated, NEW o \in Owner,
         h.last < MaxGeneration, h.current = NoLease,
         verify_account_lease_history(h, ls, rs),
         NEW lease, lease = FirstRevision(h.last + 1, o, now)
  PROVE  verify_account_lease_history(_set_head(h.last + 1, lease, now),
                                      ls \cup {lease}, rs)
<1> DEFINE n == h.last + 1
           k == _set_head(n, lease, now)
           new == ls \cup {lease}
<1>1. h.last \in Nat /\ n \in 1 .. MaxGeneration /\ n \in Nat
  BY DEF Head
<1>2. lease \in Lease /\ lease.gen = n /\ lease.rev = 1 /\ lease.acquired = now
      /\ lease.heartbeat = now /\ lease.expires = now + LeaseTtl
  BY <1>1, FirstRevisionType DEF FirstRevision
<1>3. k.last = n /\ k.current = lease /\ k.updated = now
  BY DEF _set_head
<1>4. Revisions(new, n) = {lease}
  BY <1>1, <1>2 DEF Revisions, verify_account_lease_history
<1>5. \A g \in 1 .. h.last : Revisions(new, g) = Revisions(ls, g)
  BY <1>1, <1>2 DEF Revisions
<1>6. lease # NoLease
  BY <1>2, NoLeaseIsNotALease
<1>7. \A g \in 1 .. h.last : VerifyRevisions(ls, g) /\ VerifySuccession(ls, rs, g)
                            /\ VerifyRelease(ls, rs, g)
  BY DEF verify_account_lease_history
<1>8. \A r \in rs : r.gen \in 1 .. h.last /\ (r.gen = h.last => r.at <= h.updated)
  BY DEF verify_account_lease_history, VerifyHead
<1> HIDE DEF n, k, new
<1>9. ASSUME NEW g \in 1 .. n
      PROVE  /\ VerifyRevisions(new, g)
             /\ VerifySuccession(new, rs, g)
             /\ IF g = n THEN \A r \in rs : r.gen # g ELSE VerifyRelease(new, rs, g)
  <2>1. CASE g = n
    <3>1. VerifyRevisions(new, g)
      BY <2>1, <1>2, <1>4 DEF VerifyRevisions
    <3>2. VerifySuccession(new, rs, g)
      BY <2>1, <1>1, <1>2, <1>4, <1>8 DEF VerifySuccession, Head, Release, n
    <3>3. \A r \in rs : r.gen # g
      BY <2>1, <1>1, <1>8 DEF n
    <3> QED
      BY <2>1, <3>1, <3>2, <3>3
  <2>2. CASE g # n
    <3>1. g \in 1 .. h.last
      BY <2>2, <1>1 DEF n
    <3>2. Revisions(new, g) = Revisions(ls, g)
      BY <3>1, <1>5
    <3>3. \A l \in Revisions(ls, g) : l.gen = g
      BY DEF Revisions
    <3>4. VerifyRelease(new, rs, g)
      BY <3>1, <3>2, <3>3, <1>7 DEF VerifyRelease, IsLatest
    <3>5. VerifyRevisions(new, g) /\ VerifySuccession(new, rs, g)
      BY <3>1, <3>2, <1>7 DEF VerifyRevisions, VerifySuccession
    <3> QED
      BY <2>2, <3>4, <3>5
  <2> QED
    BY <2>1, <2>2
<1>10. VerifyHead(k, new, rs)
  BY <1>2, <1>3, <1>4, <1>6 DEF VerifyHead, IsLatest, new
<1>11. \A l \in new : l.gen \in 1 .. n
  BY <1>1, <1>2 DEF new, n, verify_account_lease_history
<1>12. \A r \in rs : r.gen \in 1 .. n
  BY <1>1, <1>8 DEF n
<1> QED
  BY <1>1, <1>3, <1>6, <1>9, <1>10, <1>11, <1>12, SMTT(30) DEF verify_account_lease_history, k,
     new, n

(* Renewing the active lease at a later instant.                            *)
LEMMA RenewVerifies ==
  ASSUME NEW h \in Head, NEW ls \in SUBSET Lease, NEW rs \in SUBSET Release,
         NEW now \in Instant, now >= h.updated,
         h.current # NoLease, RenewExtends(h, now),
         verify_account_lease_history(h, ls, rs),
         NEW lease, lease = NextRevision(h.current, now)
  PROVE  verify_account_lease_history(_set_head(h.current.gen, lease, now),
                                      ls \cup {lease}, rs)
<1> DEFINE n == h.current.gen
           k == _set_head(n, lease, now)
           new == ls \cup {lease}
<1>1. h.current \in ls /\ h.current \in Lease /\ n = h.last /\ IsLatest(h.current, ls)
      /\ h.current.heartbeat <= h.updated
  BY DEF verify_account_lease_history, VerifyHead
<1>2. lease \in Lease /\ lease.gen = n /\ lease.rev = h.current.rev + 1
      /\ lease.heartbeat = now /\ lease.expires = now + LeaseTtl
      /\ Fence(lease) = Fence(h.current)
  BY <1>1 DEF NextRevision, Lease, Fence
<1>3. k.last = n /\ k.current = lease /\ k.updated = now
  BY DEF _set_head
<1>4. lease # NoLease
  BY <1>2, NoLeaseIsNotALease
<1>5. n \in 1 .. h.last /\ h.last \in Nat
  BY <1>1 DEF Lease, Head
<1>6. VerifyRevisions(ls, n) /\ VerifySuccession(ls, rs, n) /\ \A r \in rs : r.gen # n
  BY <1>1, <1>5 DEF verify_account_lease_history
<1>7. Revisions(new, n) = Revisions(ls, n) \cup {lease}
  BY <1>2 DEF Revisions
<1>8. \A l \in Revisions(ls, n) : l \in Lease /\ l.rev <= h.current.rev /\ l.gen = n
                                 /\ Fence(l) = Fence(h.current)
  BY <1>1, <1>6 DEF IsLatest, Revisions, VerifyRevisions
<1>9. h.current \in Revisions(ls, n)
  BY <1>1 DEF Revisions
<1>10. now > h.current.heartbeat /\ now + LeaseTtl > h.current.expires
  BY <1>1 DEF RenewExtends, Lease, Head
<1> HIDE DEF n, k, new
<1>11. VerifyRevisions(new, n)
  <2>1. \E l \in Revisions(new, n) : l.rev = 1 /\ l.heartbeat = l.acquired
    BY <1>6, <1>7 DEF VerifyRevisions
  <2>2. ASSUME NEW l \in Revisions(new, n)
        PROVE  l.expires - l.heartbeat = LeaseTtl
    BY <1>2, <1>6, <1>7 DEF VerifyRevisions
  <2>3. ASSUME NEW l \in Revisions(new, n), l.rev > 1
        PROVE  \E prior \in Revisions(new, n) :
                  prior.rev = l.rev - 1 /\ prior.heartbeat < l.heartbeat
                  /\ prior.expires < l.expires
    <3>1. CASE l = lease
      BY <3>1, <1>1, <1>2, <1>7, <1>9, <1>10 DEF Lease
    <3>2. CASE l # lease
      BY <3>2, <2>3, <1>6, <1>7 DEF VerifyRevisions
    <3> QED
      BY <3>1, <3>2
  <2>4. ASSUME NEW l \in Revisions(new, n), NEW other \in Revisions(new, n)
        PROVE  Fence(other) = Fence(l) /\ (other.rev = l.rev => other = l)
    BY <1>1, <1>2, <1>6, <1>7, <1>8 DEF VerifyRevisions, Lease
  <2> QED
    BY <2>1, <2>2, <2>3, <2>4 DEF VerifyRevisions
<1>12. VerifySuccession(new, rs, n)
  BY <1>2, <1>6, <1>7, <1>9 DEF VerifySuccession, Fence
<1>13. ASSUME NEW g \in 1 .. n, g # n
       PROVE  VerifyRevisions(new, g) /\ VerifySuccession(new, rs, g)
              /\ VerifyRelease(new, rs, g)
  <2>1. VerifyRevisions(ls, g) /\ VerifySuccession(ls, rs, g) /\ VerifyRelease(ls, rs, g)
    BY <1>13, <1>1, <1>5 DEF verify_account_lease_history
  <2>2. Revisions(new, g) = Revisions(ls, g)
    BY <1>13, <1>2 DEF Revisions, new
  <2>3. \A l \in Revisions(ls, g) : l.gen = g
    BY DEF Revisions
  <2>4. VerifyRelease(new, rs, g)
    BY <2>1, <2>2, <2>3 DEF VerifyRelease, IsLatest
  <2> QED
    BY <2>1, <2>2, <2>4 DEF VerifyRevisions, VerifySuccession
<1>14. VerifyHead(k, new, rs)
  <2>1. IsLatest(lease, new)
    BY <1>1, <1>2, <1>7, <1>8 DEF IsLatest, Lease
  <2> QED
    BY <2>1, <1>2, <1>3, <1>4 DEF VerifyHead, new
<1>15. (\A l \in new : l.gen \in 1 .. n) /\ (\A r \in rs : r.gen \in 1 .. n)
  BY <1>1, <1>2, <1>5 DEF new, n, verify_account_lease_history
<1> QED
  BY <1>1, <1>3, <1>4, <1>5, <1>6, <1>11, <1>12, <1>13, <1>14, <1>15, Zenon
     DEF verify_account_lease_history, k, new, n

(* Releasing the active lease before its expiry.                            *)
LEMMA ReleaseVerifies ==
  ASSUME NEW h \in Head, NEW ls \in SUBSET Lease, NEW rs \in SUBSET Release,
         NEW now \in Instant, now >= h.updated,
         h.current # NoLease, now < h.current.expires,
         verify_account_lease_history(h, ls, rs),
         NEW r, r = [gen |-> h.current.gen, rev |-> h.current.rev, at |-> now]
  PROVE  verify_account_lease_history(_set_head(h.current.gen, NoLease, now),
                                      ls, rs \cup {r})
<1> DEFINE n == h.current.gen
           k == _set_head(n, NoLease, now)
           new == rs \cup {r}
<1>1. h.current \in ls /\ h.current \in Lease /\ n = h.last /\ IsLatest(h.current, ls)
      /\ h.current.heartbeat <= h.updated
  BY DEF verify_account_lease_history, VerifyHead
<1>2. r.gen = n /\ r.rev = h.current.rev /\ r.at = now
  OBVIOUS
<1>3. k.last = n /\ k.current = NoLease /\ k.updated = now
  BY DEF _set_head
<1>4. n \in 1 .. h.last /\ h.last \in Nat /\ h.last # 0
  BY <1>1 DEF Lease, Head
<1>5. \A other \in rs : other.gen # n /\ other.gen \in 1 .. n
  BY <1>1, <1>4 DEF verify_account_lease_history
<1>6. h.current \in Revisions(ls, n)
  BY <1>1 DEF Revisions
<1> HIDE DEF n, k, new
<1>7. VerifyRelease(ls, new, n)
  BY <1>1, <1>2, <1>5, <1>6 DEF VerifyRelease, new, Lease, Head
<1>8. \A g \in 1 .. n : VerifyRevisions(ls, g) /\ VerifySuccession(ls, new, g)
  <2> SUFFICES ASSUME NEW g \in 1 .. n
               PROVE  VerifyRevisions(ls, g) /\ VerifySuccession(ls, new, g)
    OBVIOUS
  <2>1. VerifyRevisions(ls, g) /\ VerifySuccession(ls, rs, g)
    BY <1>1 DEF verify_account_lease_history
  <2>2. r.gen # g - 1
    BY <1>2, <1>4 DEF n
  <2> QED
    BY <2>1, <2>2 DEF VerifySuccession, new
<1>9. \A g \in 1 .. n : g # n => VerifyRelease(ls, new, g)
  <2> SUFFICES ASSUME NEW g \in 1 .. n, g # n PROVE VerifyRelease(ls, new, g)
    OBVIOUS
  <2>1. VerifyRelease(ls, rs, g)
    BY <1>1 DEF verify_account_lease_history
  <2> QED
    BY <2>1, <1>2 DEF VerifyRelease, new
<1>10. VerifyHead(k, ls, new)
  BY <1>2, <1>3, <1>5 DEF VerifyHead, new
<1>11. (\A l \in ls : l.gen \in 1 .. n) /\ (\A other \in new : other.gen \in 1 .. n)
  BY <1>1, <1>2, <1>4, <1>5 DEF new, verify_account_lease_history
<1> QED
  BY <1>1, <1>3, <1>4, <1>7, <1>8, <1>9, <1>10, <1>11, Zenon
     DEF verify_account_lease_history, k, new, n

-----------------------------------------------------------------------------
(* The three invariants together are inductive: an effect that runs holds   *)
(* the head still, so only the verifier's view of the head matters.         *)
Inv == TypeOK /\ HistoryVerifies /\ EffectHoldsCurrentFence

(* A transaction that only records its clock reading.                       *)
LEMMA ObserveStep ==
  ASSUME TypeOK, HistoryVerifies, NEW now \in Instant, head.exists, now >= head.updated,
         head' = _observe(head, now), UNCHANGED <<leases, releases>>, effects' = {}
  PROVE  HistoryVerifies' /\ EffectHoldsCurrentFence'
<1>1. verify_account_lease_history(_observe(head, now), leases, releases)
  BY ObserveVerifies DEF TypeOK, HistoryVerifies
<1>2. head'.exists
  BY DEF _observe, TypeOK, Head
<1> QED
  BY <1>1, <1>2 DEF HistoryVerifies, EffectHoldsCurrentFence

(* A transaction that grants the next generation.                           *)
LEMMA GrantStep ==
  ASSUME TypeOK, HistoryVerifies, NEW p \in Proc, NEW now \in Instant, NEW h \in Head,
         effects = {}, now >= h.updated, InsertFirstRevision(p, h, now),
         verify_account_lease_history(h, leases, releases)
  PROVE  HistoryVerifies' /\ EffectHoldsCurrentFence'
<1> DEFINE lease == FirstRevision(h.last + 1, OwnerOf[p], now)
<1>1. verify_account_lease_history(_set_head(h.last + 1, lease, now),
                                   leases \cup {lease}, releases)
  BY GrantVerifies DEF TypeOK, InsertFirstRevision
<1>2. head' = _set_head(h.last + 1, lease, now) /\ leases' = leases \cup {lease}
      /\ releases' = releases /\ effects' = {}
  BY DEF InsertFirstRevision
<1>3. head'.exists
  BY <1>2 DEF _set_head
<1> HIDE DEF lease
<1> QED
  BY <1>1, <1>2, <1>3 DEF HistoryVerifies, EffectHoldsCurrentFence

(* Every method and every crash preserve the invariants.                    *)
LEMMA InvStep == Inv /\ [Next]_vars => HistoryVerifies' /\ EffectHoldsCurrentFence'
<1> SUFFICES ASSUME Inv, [Next]_vars PROVE HistoryVerifies' /\ EffectHoldsCurrentFence'
  OBVIOUS
<1> USE DEF Inv
<1>1. CASE UNCHANGED vars
  BY <1>1 DEF vars, HistoryVerifies, EffectHoldsCurrentFence
<1>2. ASSUME NEW p \in Proc, NEW now \in Instant, AcquireNew(p, now)
      PROVE  HistoryVerifies' /\ EffectHoldsCurrentFence'
  <2>1. _bootstrap_head(now) \in Head
    BY DEF _bootstrap_head, TypeOK, Head
  <2> QED
    BY <1>2, <2>1, GrantStep DEF AcquireNew, Transact
<1>3. ASSUME NEW p \in Proc, NEW now \in Instant,
             AcquireExisting(p, now) \/ AcquireRejected(p, now)
               \/ RenewObserved(p, now) \/ ReleaseRejected(p, now)
      PROVE  HistoryVerifies' /\ EffectHoldsCurrentFence'
  BY <1>3, ObserveStep
     DEF AcquireExisting, AcquireRejected, RenewObserved, ReleaseRejected, Transact
<1>4. ASSUME NEW p \in Proc, NEW now \in Instant, NEW expected \in 0 .. MaxGeneration,
             acquire_if_inactive_generation(p, expected, now)
      PROVE  HistoryVerifies' /\ EffectHoldsCurrentFence'
  BY <1>4, GrantStep DEF acquire_if_inactive_generation, Transact, TypeOK
<1>5. ASSUME NEW p \in Proc, NEW now \in Instant, Renew(p, now)
      PROVE  HistoryVerifies' /\ EffectHoldsCurrentFence'
  <2> DEFINE lease == NextRevision(head.current, now)
  <2>1. verify_account_lease_history(_set_head(head.current.gen, lease, now),
                                     leases \cup {lease}, releases)
    BY <1>5, RenewVerifies DEF Renew, Transact, HoldsCurrent, TypeOK
  <2>2. head' = _set_head(head.current.gen, lease, now) /\ leases' = leases \cup {lease}
        /\ releases' = releases /\ effects' = {}
    BY <1>5 DEF Renew, Transact
  <2>3. head'.exists
    BY <2>2 DEF _set_head
  <2> HIDE DEF lease
  <2> QED
    BY <2>1, <2>2, <2>3 DEF HistoryVerifies, EffectHoldsCurrentFence
<1>6. ASSUME NEW p \in Proc, NEW now \in Instant, NEW checked \in Instant,
             Revalidate(p, checked, now)
      PROVE  HistoryVerifies' /\ EffectHoldsCurrentFence'
  BY <1>6, ObserveStep DEF Revalidate, Revalidates
<1>7. ASSUME NEW p \in Proc, NEW now \in Instant, NEW checked \in Instant,
             RunFenced(p, checked, now)
      PROVE  HistoryVerifies' /\ EffectHoldsCurrentFence'
  BY <1>7 DEF RunFenced, Revalidates, HoldsCurrent, HistoryVerifies, EffectHoldsCurrentFence
<1>8. ASSUME NEW p \in Proc, NEW now \in Instant, NEW checked \in Instant,
             RevalidateInEffect(p, checked, now)
      PROVE  HistoryVerifies' /\ EffectHoldsCurrentFence'
  <2>1. PICK e \in effects : /\ Revalidates(p, _observe(head, e.observed), checked, now)
                             /\ effects' = {[e EXCEPT !.observed = now]}
                             /\ UNCHANGED <<head, leases, releases, fence>>
    BY <1>8 DEF RevalidateInEffect
  <2>2. now >= e.observed /\ now < head.current.expires
    BY <2>1 DEF Revalidates, _observe, TypeOK, Head
  <2>3. e.observed \in Instant /\ [e EXCEPT !.observed = now].fence = e.fence
        /\ [e EXCEPT !.observed = now].observed = now
    BY DEF TypeOK
  <2>4. head.current # NoLease /\ e.fence = Fence(head.current) /\ head.updated <= e.observed
    BY DEF EffectHoldsCurrentFence
  <2>5. head.updated <= now
    BY <2>2, <2>3, <2>4 DEF TypeOK, Head
  <2> QED
    BY <2>1, <2>2, <2>3, <2>4, <2>5 DEF HistoryVerifies, EffectHoldsCurrentFence
<1>9. ASSUME NEW p \in Proc, EndEffect(p)
      PROVE  HistoryVerifies' /\ EffectHoldsCurrentFence'
  <2>1. PICK e \in effects : /\ head' = _observe(head, e.observed)
                             /\ effects' = {}
                             /\ UNCHANGED <<leases, releases, fence>>
    BY <1>9 DEF EndEffect
  <2>2. e.observed \in Instant /\ e.observed >= head.updated /\ head.exists
    BY DEF TypeOK, Head, NoHead, EffectHoldsCurrentFence, HistoryVerifies
  <2> QED
    BY <2>1, <2>2, ObserveStep
<1>10. ASSUME NEW p \in Proc, NEW now \in Instant, ReleaseLease(p, now)
       PROVE  HistoryVerifies' /\ EffectHoldsCurrentFence'
  <2> DEFINE r == [gen |-> head.current.gen, rev |-> head.current.rev, at |-> now]
  <2>1. verify_account_lease_history(_set_head(head.current.gen, NoLease, now),
                                     leases, releases \cup {r})
    BY <1>10, ReleaseVerifies, Zenon DEF ReleaseLease, Releasable, Transact, HoldsCurrent, TypeOK
  <2>2. head' = _set_head(head.current.gen, NoLease, now) /\ leases' = leases
        /\ releases' = releases \cup {r} /\ effects' = {}
    BY <1>10 DEF ReleaseLease, Transact
  <2>3. head'.exists
    BY <2>2 DEF _set_head
  <2> HIDE DEF r
  <2> QED
    BY <2>1, <2>2, <2>3 DEF HistoryVerifies, EffectHoldsCurrentFence
<1>11. ASSUME NEW p \in Proc, Crash(p)
       PROVE  HistoryVerifies' /\ EffectHoldsCurrentFence'
  BY <1>11 DEF Crash, HistoryVerifies, EffectHoldsCurrentFence
<1> QED
  BY <1>1, <1>2, <1>3, <1>4, <1>5, <1>6, <1>7, <1>8, <1>9, <1>10, <1>11 DEF Next

(* The histories the coordinator writes always verify, and a running effect *)
(* always holds the current fence.                                          *)
THEOREM Safety == Spec => [](HistoryVerifies /\ EffectHoldsCurrentFence)
<1>1. Init => HistoryVerifies /\ EffectHoldsCurrentFence
  BY DEF Init, NoHead, HistoryVerifies, EffectHoldsCurrentFence, verify_account_lease_history,
         VerifyHead
<1> QED
  BY <1>1, InvStep, TypeCorrect, PTL DEF Spec, Inv

(* A fenced effect runs alone and under the current, unexpired lease for as *)
(* long as it runs (run_fenced).                                            *)
THEOREM FencedEffects == Spec => []EffectHoldsCurrentFence
BY Safety, PTL

-----------------------------------------------------------------------------
(* What the head looks like after a transaction that only observes.         *)
LEMMA ObserveShape ==
  ASSUME TypeOK, NEW now \in Instant, head' = _observe(head, now)
  PROVE  /\ head'.current = head.current
         /\ head'.last = head.last
         /\ head'.updated = now
  BY DEF _observe, TypeOK, Head

(* In a state the verifier accepts, the active lease belongs to the last    *)
(* generation.                                                              *)
LEMMA ActiveIsLast ==
  ASSUME TypeOK, HistoryVerifies, head.current # NoLease
  PROVE  /\ head.current \in Lease
         /\ head.current.gen = head.last
         /\ head.current.heartbeat <= head.updated
  BY DEF TypeOK, Head, HistoryVerifies, verify_account_lease_history, VerifyHead

(* The evidence tables only grow and the durable clock never goes back.     *)
THEOREM AppendOnly == Spec => EvidenceIsAppendOnly
<1> DEFINE A == /\ leases \subseteq leases'
                /\ releases \subseteq releases'
                /\ head.updated <= head'.updated
                /\ head.last <= head'.last
<1>1. Inv /\ [Next]_vars => [A]_vars
  <2> SUFFICES ASSUME Inv, Next PROVE A
    OBVIOUS
  <2> USE DEF Inv
  <2>0. head.updated \in Instant /\ head.last \in 0 .. MaxGeneration
    BY DEF TypeOK, Head
  <2>1. ASSUME NEW p \in Proc, NEW now \in Instant, AcquireNew(p, now) PROVE A
    <3>1. head.exists => _bootstrap_head(now) = head
      BY DEF _bootstrap_head
    <3>2. ~head.exists => _bootstrap_head(now).last = 0 /\ head.last = 0
      BY DEF _bootstrap_head, HistoryVerifies, NoHead
    <3>3. head'.updated = now /\ head'.last = _bootstrap_head(now).last + 1
          /\ leases \subseteq leases' /\ releases' = releases /\ now >= _bootstrap_head(now).updated
      BY <2>1 DEF AcquireNew, Transact, InsertFirstRevision, _set_head
    <3>4. ~head.exists => head.updated = 0
      BY DEF HistoryVerifies, NoHead
    <3> QED
      BY <2>0, <3>1, <3>2, <3>3, <3>4
  <2>2. ASSUME NEW p \in Proc, NEW now \in Instant, NEW expected \in 0 .. MaxGeneration,
               acquire_if_inactive_generation(p, expected, now)
        PROVE  A
    BY <2>0, <2>2 DEF acquire_if_inactive_generation, Transact, InsertFirstRevision, _set_head
  <2>3. ASSUME NEW p \in Proc, NEW now \in Instant,
               AcquireExisting(p, now) \/ AcquireRejected(p, now)
                 \/ RenewObserved(p, now) \/ ReleaseRejected(p, now)
        PROVE  A
    BY <2>0, <2>3, ObserveShape
       DEF AcquireExisting, AcquireRejected, RenewObserved, ReleaseRejected, Transact
  <2>4. ASSUME NEW p \in Proc, NEW now \in Instant, Renew(p, now) PROVE A
    BY <2>0, <2>4, ActiveIsLast DEF Renew, Transact, HoldsCurrent, _set_head
  <2>5. ASSUME NEW p \in Proc, NEW now \in Instant, NEW checked \in Instant,
               Revalidate(p, checked, now)
        PROVE  A
    BY <2>0, <2>5, ObserveShape DEF Revalidate, Revalidates
  <2>6. ASSUME NEW p \in Proc, NEW now \in Instant, NEW checked \in Instant,
               RunFenced(p, checked, now) \/ RevalidateInEffect(p, checked, now)
        PROVE  A
    BY <2>0, <2>6 DEF RunFenced, RevalidateInEffect
  <2>7. ASSUME NEW p \in Proc, EndEffect(p) PROVE A
    <3>1. PICK e \in effects : head' = _observe(head, e.observed)
                               /\ UNCHANGED <<leases, releases, fence>>
      BY <2>7 DEF EndEffect
    <3>2. e.observed \in Instant /\ head.updated <= e.observed
      BY DEF TypeOK, EffectHoldsCurrentFence
    <3> QED
      BY <2>0, <3>1, <3>2, ObserveShape
  <2>8. ASSUME NEW p \in Proc, NEW now \in Instant, ReleaseLease(p, now) PROVE A
    BY <2>0, <2>8, ActiveIsLast
       DEF ReleaseLease, Releasable, Transact, HoldsCurrent, _set_head
  <2>9. ASSUME NEW p \in Proc, Crash(p) PROVE A
    BY <2>0, <2>9 DEF Crash
  <2> QED
    BY <2>1, <2>2, <2>3, <2>4, <2>5, <2>6, <2>7, <2>8, <2>9 DEF Next
<1> QED
  BY <1>1, TypeCorrect, Safety, PTL DEF Spec, Inv, EvidenceIsAppendOnly, A

-----------------------------------------------------------------------------
(* Refinement: one step of the coordinator is one step of single fenced     *)
(* ownership, or none.                                                      *)

(* The owner the mapping shows is "none" exactly when no lease is active.   *)
LEMMA MappedOwner ==
  ASSUME NEW l \in Lease \cup {NoLease}
  PROVE  /\ l.owner = "none" <=> l = NoLease
         /\ l # NoLease => l.owner \in Owner
  BY DEF Lease, NoLease

AbstractNext == [Ownership!Next]_(Ownership!absVars)

(* A transaction that only observes is a lapse or invisible.                *)
LEMMA ObserveSimulates ==
  ASSUME TypeOK, NEW now \in Instant, now >= head.updated, head' = _observe(head, now),
         effects = {}, effects' = {}
  PROVE  AbstractNext
<1>1. head'.current = head.current /\ head'.last = head.last /\ head'.updated = now
  BY ObserveShape
<1>2. head.current \in Lease \cup {NoLease} /\ head.updated \in Instant
  BY DEF TypeOK, Head
<1>3. CASE LeaseExpired' = LeaseExpired
  BY <1>1, <1>3 DEF AbstractNext, Ownership!absVars
<1>4. CASE LeaseExpired' # LeaseExpired
  <2>1. ~LeaseExpired /\ LeaseExpired' /\ head.current # NoLease
    BY <1>1, <1>2, <1>4 DEF LeaseExpired, Lease
  <2>2. Ownership!Lapse
    BY <1>1, <1>2, <2>1, MappedOwner DEF Ownership!Lapse
  <2> QED
    BY <2>2 DEF AbstractNext, Ownership!Next
<1> QED
  BY <1>3, <1>4

(* A transaction that inserts a first revision is a grant.                  *)
LEMMA GrantSimulates ==
  ASSUME TypeOK, NEW p \in Proc, NEW now \in Instant, NEW h \in Head,
         h.last = head.last, head.current = NoLease,
         effects = {}, InsertFirstRevision(p, h, now)
  PROVE  AbstractNext
<1> DEFINE lease == FirstRevision(h.last + 1, OwnerOf[p], now)
<1>1. head'.current = lease /\ head'.last = head.last + 1 /\ head'.updated = now
      /\ effects' = {}
  BY DEF InsertFirstRevision, _set_head
<1>2. lease.owner = OwnerOf[p] /\ lease.expires = now + LeaseTtl
  BY DEF FirstRevision
<1> HIDE DEF lease
<1>3. LeaseExpired' = LeaseExpired
  BY <1>1, <1>2 DEF LeaseExpired
<1>4. head.current.owner = "none" /\ OwnerOf[p] \in Owner
  BY DEF NoLease
<1>5. Ownership!Grant(OwnerOf[p])
  BY <1>1, <1>2, <1>3, <1>4 DEF Ownership!Grant
<1> QED
  BY <1>4, <1>5 DEF AbstractNext, Ownership!Next

(* Every step of the coordinator simulates.                                 *)
LEMMA StepSimulates == Inv /\ [Next]_vars => AbstractNext
<1> SUFFICES ASSUME Inv, [Next]_vars PROVE AbstractNext
  OBVIOUS
<1> USE DEF Inv
<1>0. head \in Head /\ head.current \in Lease \cup {NoLease} /\ head.updated \in Instant
  BY DEF TypeOK, Head
<1>1. CASE UNCHANGED vars
  BY <1>1 DEF vars, AbstractNext, Ownership!absVars, LeaseExpired
<1>2. ASSUME NEW p \in Proc, NEW now \in Instant, AcquireNew(p, now)
      PROVE  AbstractNext
  <2>1. _bootstrap_head(now) \in Head
    BY DEF _bootstrap_head, TypeOK, Head
  <2>2. _bootstrap_head(now).last = head.last /\ head.current = NoLease
    BY <1>2 DEF AcquireNew, InsertFirstRevision, _bootstrap_head, HistoryVerifies, NoHead
  <2> QED
    BY <1>2, <2>1, <2>2, GrantSimulates DEF AcquireNew, Transact
<1>3. ASSUME NEW p \in Proc, NEW now \in Instant,
             AcquireExisting(p, now) \/ AcquireRejected(p, now)
               \/ RenewObserved(p, now) \/ ReleaseRejected(p, now)
      PROVE  AbstractNext
  BY <1>3, ObserveSimulates, Zenon
     DEF AcquireExisting, AcquireRejected, RenewObserved, ReleaseRejected, Transact
<1>4. ASSUME NEW p \in Proc, NEW now \in Instant, NEW expected \in 0 .. MaxGeneration,
             acquire_if_inactive_generation(p, expected, now)
      PROVE  AbstractNext
  BY <1>0, <1>4, GrantSimulates, Zenon
     DEF acquire_if_inactive_generation, Transact, InsertFirstRevision
<1>5. ASSUME NEW p \in Proc, NEW now \in Instant, Renew(p, now)
      PROVE  AbstractNext
  <2>1. head.current # NoLease /\ now >= head.updated /\ now < head.current.expires
        /\ effects' = effects
        /\ head' = _set_head(head.current.gen, NextRevision(head.current, now), now)
    BY <1>5 DEF Renew, Transact, HoldsCurrent, RenewExtends
  <2>2. head.current \in Lease /\ head.current.gen = head.last
    BY <2>1, ActiveIsLast
  <2>3. head'.last = head.last /\ head'.current.owner = head.current.owner
        /\ head'.updated = now /\ head'.current.expires = now + LeaseTtl
    BY <2>1, <2>2 DEF _set_head, NextRevision
  <2>4. LeaseExpired' = LeaseExpired
    BY <1>0, <2>1, <2>2, <2>3 DEF LeaseExpired, Lease
  <2> QED
    BY <2>1, <2>3, <2>4 DEF AbstractNext, Ownership!absVars
<1>6. ASSUME NEW p \in Proc, NEW now \in Instant, NEW checked \in Instant,
             Revalidate(p, checked, now)
      PROVE  AbstractNext
  BY <1>6, ObserveSimulates DEF Revalidate, Revalidates
<1>7. ASSUME NEW p \in Proc, NEW now \in Instant, NEW checked \in Instant,
             RunFenced(p, checked, now)
      PROVE  AbstractNext
  <2>1. head.current # NoLease /\ fence[p] = Fence(head.current) /\ effects = {}
        /\ effects' = {[proc |-> p, fence |-> fence[p], observed |-> now]}
        /\ head' = head /\ head.updated <= now /\ now < head.current.expires
    BY <1>7 DEF RunFenced, Revalidates, HoldsCurrent
  <2>2. head.current \in Lease /\ fence[p].gen = head.last
    BY <2>1, ActiveIsLast DEF Fence
  <2>3. ~LeaseExpired
    BY <1>0, <2>1, <2>2 DEF LeaseExpired, Lease
  <2>4. LeaseExpired' = LeaseExpired
    BY <2>1 DEF LeaseExpired
  <2>5. head.current.owner # "none"
    BY <2>1, <2>2, MappedOwner
  <2>6. Ownership!Begin
    BY <2>1, <2>2, <2>3, <2>4, <2>5 DEF Ownership!Begin
  <2> QED
    BY <2>6 DEF AbstractNext, Ownership!Next
<1>8. ASSUME NEW p \in Proc, NEW now \in Instant, NEW checked \in Instant,
             RevalidateInEffect(p, checked, now)
      PROVE  AbstractNext
  <2>1. PICK e \in effects : effects' = {[e EXCEPT !.observed = now]} /\ head' = head
    BY <1>8 DEF RevalidateInEffect
  <2>2. effects = {e} /\ [e EXCEPT !.observed = now].fence = e.fence
    BY DEF EffectHoldsCurrentFence, TypeOK
  <2>3. LeaseExpired' = LeaseExpired
    BY <2>1 DEF LeaseExpired
  <2>4. {f.fence.gen : f \in effects}' = {f.fence.gen : f \in effects}
    BY <2>1, <2>2, Zenon
  <2> QED
    BY <2>1, <2>3, <2>4 DEF AbstractNext, Ownership!absVars
<1>9. ASSUME NEW p \in Proc, EndEffect(p)
      PROVE  AbstractNext
  <2>1. PICK e \in effects : head' = _observe(head, e.observed) /\ effects' = {}
    BY <1>9 DEF EndEffect
  <2>2. e.observed \in Instant /\ head.updated <= e.observed /\ head.current # NoLease
        /\ e.observed < head.current.expires
    BY DEF EffectHoldsCurrentFence, TypeOK
  <2>3. head'.current = head.current /\ head'.last = head.last /\ head'.updated = e.observed
    BY <2>1, <2>2, ObserveShape
  <2>4. LeaseExpired' = LeaseExpired
    BY <1>0, <2>2, <2>3 DEF LeaseExpired, Lease
  <2>5. Ownership!End
    BY <2>1, <2>3, <2>4 DEF Ownership!End
  <2> QED
    BY <2>5 DEF AbstractNext, Ownership!Next
<1>10. ASSUME NEW p \in Proc, NEW now \in Instant, ReleaseLease(p, now)
       PROVE  AbstractNext
  <2>1. head.current # NoLease /\ now >= head.updated /\ now < head.current.expires
        /\ effects = {} /\ effects' = {}
        /\ head' = _set_head(head.current.gen, NoLease, now)
    BY <1>10 DEF ReleaseLease, Releasable, Transact, HoldsCurrent
  <2>2. head.current \in Lease /\ head.current.gen = head.last
    BY <2>1, ActiveIsLast
  <2>3. head'.last = head.last /\ head'.current = NoLease
    BY <2>1, <2>2 DEF _set_head
  <2>4. ~LeaseExpired /\ LeaseExpired' = LeaseExpired
    BY <1>0, <2>1, <2>2, <2>3 DEF LeaseExpired, Lease
  <2>5. head.current.owner # "none" /\ head'.current.owner = "none"
    BY <2>1, <2>2, <2>3, MappedOwner DEF NoLease
  <2>6. Ownership!Surrender
    BY <2>1, <2>3, <2>4, <2>5 DEF Ownership!Surrender
  <2> QED
    BY <2>6 DEF AbstractNext, Ownership!Next
<1>11. ASSUME NEW p \in Proc, Crash(p)
       PROVE  AbstractNext
  <2>1. head' = head /\ effects' \subseteq effects
    BY <1>11 DEF Crash
  <2>2. LeaseExpired' = LeaseExpired
    BY <2>1 DEF LeaseExpired
  <2>3. CASE effects' = effects
    BY <2>1, <2>2, <2>3 DEF AbstractNext, Ownership!absVars
  <2>4. CASE effects' # effects
    <3>1. effects # {} /\ effects' = {}
      BY <2>1, <2>4 DEF EffectHoldsCurrentFence
    <3>2. Ownership!End
      BY <2>1, <2>2, <3>1 DEF Ownership!End
    <3> QED
      BY <3>2 DEF AbstractNext, Ownership!Next
  <2> QED
    BY <2>3, <2>4
<1> QED
  BY <1>1, <1>2, <1>3, <1>4, <1>5, <1>6, <1>7, <1>8, <1>9, <1>10, <1>11 DEF Next

(* The coordinator implements single fenced ownership.                      *)
THEOREM Refinement == Spec => ImplementsFencedOwnership
<1>1. Init => Ownership!Init
  BY DEF Init, NoHead, NoLease, Ownership!Init, LeaseExpired
<1> QED
  BY <1>1, StepSimulates, TypeCorrect, Safety, PTL
     DEF Spec, Inv, ImplementsFencedOwnership, Ownership!Spec, AbstractNext

(* An expiry that was observed durably is final.                            *)
THEOREM Finality == Spec => ExpiryIsFinal
<1> DEFINE A == LeaseExpired => /\ head'.current = head.current
                                /\ leases' = leases
                                /\ releases' = releases
                                /\ effects' = {}
<1>1. Inv /\ [Next]_vars => [A]_vars
  <2> SUFFICES ASSUME Inv, Next, LeaseExpired
               PROVE  /\ head'.current = head.current
                      /\ leases' = leases
                      /\ releases' = releases
                      /\ effects' = {}
    OBVIOUS
  <2> USE DEF Inv
  <2>1. head.current \in Lease /\ head.current # NoLease /\ head.exists
        /\ head.updated \in Instant /\ head.updated >= head.current.expires
    BY DEF LeaseExpired, TypeOK, Head, HistoryVerifies, NoHead
  <2>2. effects = {}
    BY <2>1 DEF EffectHoldsCurrentFence, TypeOK, Lease
  <2>3. \A now \in Instant : now >= head.updated => now >= head.current.expires
    BY <2>1 DEF Lease
  <2>4. ASSUME NEW p \in Proc, NEW now \in Instant
        PROVE  /\ ~AcquireNew(p, now)
               /\ \A expected \in 0 .. MaxGeneration :
                     ~acquire_if_inactive_generation(p, expected, now)
               /\ ~Renew(p, now)
               /\ ~ReleaseLease(p, now)
    <3>1. ~AcquireNew(p, now)
      BY <2>1, SMTT(30) DEF AcquireNew, InsertFirstRevision, _bootstrap_head
    <3>2. ASSUME NEW expected \in 0 .. MaxGeneration
          PROVE  ~acquire_if_inactive_generation(p, expected, now)
      BY <2>1 DEF acquire_if_inactive_generation, InsertFirstRevision
    <3>3. now >= head.updated => ~(now < head.current.expires)
      BY <2>1, <2>3 DEF Lease
    <3>4. ~Renew(p, now)
      BY <3>3, SMTT(30) DEF Renew, RenewExtends, Transact
    <3>5. ~ReleaseLease(p, now)
      BY <3>3 DEF ReleaseLease, Transact
    <3> QED
      BY <3>1, <3>2, <3>4, <3>5
  <2>5. ASSUME NEW p \in Proc, NEW now \in Instant, NEW checked \in Instant
        PROVE  /\ ~Revalidate(p, checked, now)
               /\ ~RunFenced(p, checked, now)
               /\ ~RevalidateInEffect(p, checked, now)
    <3>1. ~Revalidates(p, head, checked, now)
      BY <2>1, <2>3 DEF Revalidates, Lease
    <3> QED
      BY <2>2, <3>1 DEF Revalidate, RunFenced, RevalidateInEffect
  <2>6. ASSUME NEW p \in Proc, NEW now \in Instant,
               AcquireExisting(p, now) \/ AcquireRejected(p, now)
                 \/ RenewObserved(p, now) \/ ReleaseRejected(p, now)
        PROVE  /\ head'.current = head.current
               /\ leases' = leases
               /\ releases' = releases
               /\ effects' = {}
    BY <2>2, <2>6, ObserveShape
       DEF AcquireExisting, AcquireRejected, RenewObserved, ReleaseRejected
  <2>7. \A p \in Proc : ~EndEffect(p)
    BY <2>2 DEF EndEffect
  <2>8. ASSUME NEW p \in Proc, Crash(p)
        PROVE  /\ head'.current = head.current
               /\ leases' = leases
               /\ releases' = releases
               /\ effects' = {}
    BY <2>2, <2>8 DEF Crash
  <2> QED
    BY <2>4, <2>5, <2>6, <2>7, <2>8, Zenon DEF Next
<1> QED
  BY <1>1, TypeCorrect, Safety, PTL DEF Spec, Inv, ExpiryIsFinal, A

(* Evidence, once written, stands: rows are only added, clock and           *)
(* generation never move back, and an observed expiry is final.             *)
THEOREM Permanence == Spec => EvidenceIsPermanent
BY AppendOnly, Finality DEF EvidenceIsPermanent
=============================================================================
