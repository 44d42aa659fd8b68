------------------------- MODULE AccountCoordinator -------------------------
(***************************************************************************)
(* The durable account coordinator of packages/persistence/                *)
(* account_coordinator.py: one row (the lease head) per trading account,   *)
(* an append-only table of lease revisions, an append-only table of lease  *)
(* releases, and the fenced effects that run while the head row is locked. *)
(*                                                                         *)
(* Every public method runs in one write transaction that locks the head   *)
(* row (SELECT ... FOR UPDATE, or BEGIN IMMEDIATE on SQLite), so a method  *)
(* is one action.  run_fenced keeps its transaction open while a caller's  *)
(* operation runs and is therefore split into its beginning and its end.   *)
(*                                                                         *)
(* A clock reading is an arbitrary member of Instant: the coordinator's    *)
(* clock may lag, jump or be read before a lock that is granted late.      *)
(* A method that raises rolls its transaction back and leaves the state as *)
(* it was; it is a stuttering step and has no action.  A method that       *)
(* records the observed time and then refuses does have one.               *)
(***************************************************************************)
EXTENDS Integers

CONSTANTS
    Proc,           \* coordinator processes
    Owner,          \* owner ids
    OwnerOf,        \* the owner id each process presents
    LeaseTtl,       \* AccountLeasePolicy.lease_ttl
    MaxInstant,     \* bound: clock readings are 0..MaxInstant
    MaxGeneration   \* bound: fencing generations granted

ASSUME OwnerAssumption == OwnerOf \in [Proc -> Owner] /\ "none" \notin Owner
ASSUME TtlAssumption == LeaseTtl \in Nat \ {0}
ASSUME InstantAssumption == MaxInstant \in Nat
ASSUME GenerationAssumption == MaxGeneration \in Nat

Instant == 0 .. MaxInstant

(* An AccountLease revision.  A lease digest covers every field, so the     *)
(* record is its own digest; the predecessor digest of revision n is the    *)
(* revision n - 1 of the same generation.  The policy is a constant.        *)
Lease == [gen : 1 .. MaxGeneration, rev : Nat \ {0}, owner : Owner,
          acquired : Instant, heartbeat : Instant, expires : Nat]

Release == [gen : 1 .. MaxGeneration, rev : Nat \ {0}, at : Instant]

(* Stands for a null current_lease_sha256.                                  *)
NoLease == [gen |-> 0, rev |-> 0, owner |-> "none",
            acquired |-> 0, heartbeat |-> 0, expires |-> 0]

Head == [exists : BOOLEAN, last : 0 .. MaxGeneration,
         current : Lease \cup {NoLease}, updated : Instant]

(* The account has no head row yet.                                         *)
NoHead == [exists |-> FALSE, last |-> 0, current |-> NoLease, updated |-> 0]

(* The stable authority identity: owner, lease id and fencing generation.   *)
(* The lease id is a digest of generation, owner and acquisition time.      *)
Fence(lease) == [gen |-> lease.gen, owner |-> lease.owner, acquired |-> lease.acquired]

NoFence == Fence(NoLease)

VARIABLES
    head,      \* phase2_account_lease_heads row of the account
    leases,    \* phase2_account_leases
    releases,  \* phase2_account_lease_releases
    fence,     \* the fence each process last received
    effects    \* operations running inside an open run_fenced transaction

vars == <<head, leases, releases, fence, effects>>

-----------------------------------------------------------------------------
(* verify_account_lease_history, run by every method before it trusts the   *)
(* head.                                                                    *)

Revisions(ls, g) == {l \in ls : l.gen = g}

IsLatest(l, ls) == \A other \in Revisions(ls, l.gen) : other.rev <= l.rev

(* Revision numbers of a generation are 1..n, its identity is stable and    *)
(* every renewal moves heartbeat and expiry forward.                        *)
VerifyRevisions(ls, g) ==
    /\ \E l \in Revisions(ls, g) : l.rev = 1 /\ l.heartbeat = l.acquired
    /\ \A l \in Revisions(ls, g) :
          /\ l.expires - l.heartbeat = LeaseTtl
          /\ l.rev > 1 => \E prior \in Revisions(ls, g) :
                             /\ prior.rev = l.rev - 1
                             /\ prior.heartbeat < l.heartbeat
                             /\ prior.expires < l.expires
          /\ \A other \in Revisions(ls, g) :
                /\ Fence(other) = Fence(l)
                /\ other.rev = l.rev => other = l

(* A finished generation has exactly one release, which binds its final     *)
(* revision inside the interval in which that revision was active.          *)
VerifyRelease(ls, rs, g) ==
    \E r \in rs :
        /\ r.gen = g
        /\ \A other \in rs : other.gen = g => other = r
        /\ \E l \in Revisions(ls, g) :
              /\ IsLatest(l, ls)
              /\ r.rev = l.rev
              /\ l.heartbeat <= r.at
              /\ r.at < l.expires

VerifySuccession(ls, rs, g) ==
    \A l \in Revisions(ls, g), r \in rs : r.gen = g - 1 => r.at <= l.acquired

VerifyHead(h, ls, rs) ==
    IF h.current = NoLease
    THEN \A r \in rs : r.gen = h.last => r.at <= h.updated
    ELSE /\ h.current \in ls
         /\ h.current.gen = h.last
         /\ IsLatest(h.current, ls)
         /\ h.current.heartbeat <= h.updated

verify_account_lease_history(h, ls, rs) ==
    /\ h.last = 0 => ls = {} /\ rs = {} /\ h.current = NoLease
    /\ \A l \in ls : l.gen \in 1 .. h.last
    /\ \A r \in rs : r.gen \in 1 .. h.last
    /\ \A g \in 1 .. h.last :
          /\ VerifyRevisions(ls, g)
          /\ VerifySuccession(ls, rs, g)
          /\ IF g = h.last /\ h.current # NoLease
             THEN \A r \in rs : r.gen # g
             ELSE VerifyRelease(ls, rs, g)
    /\ VerifyHead(h, ls, rs)

-----------------------------------------------------------------------------
Init ==
    /\ head = NoHead
    /\ leases = {}
    /\ releases = {}
    /\ fence = [p \in Proc |-> NoFence]
    /\ effects = {}

_bootstrap_head(now) ==
    IF head.exists THEN head
    ELSE [exists |-> TRUE, last |-> 0, current |-> NoLease, updated |-> now]

_observe(h, now) == [h EXCEPT !.updated = now]

_set_head(last, current, now) ==
    [exists |-> TRUE, last |-> last, current |-> current, updated |-> now]

(* Mutation: the transaction does not compare its clock reading with the    *)
(* head.                                                                    *)
TransactIgnoringClock(h, now) ==
    /\ effects = {}
    /\ h.exists
    /\ verify_account_lease_history(h, leases, releases)

(* Mutation: lease transitions are not excluded while an effect runs.       *)
TransactDuringEffect(h, now) ==
    /\ h.exists
    /\ verify_account_lease_history(h, leases, releases)
    /\ now >= h.updated

(* The head row is locked by this transaction, its history verifies and the *)
(* clock reading does not precede the last durable observation.             *)
Transact(h, now) ==
    /\ effects = {}
    /\ h.exists
    /\ verify_account_lease_history(h, leases, releases)
    /\ now >= h.updated

FirstRevision(g, owner, now) ==
    [gen |-> g, rev |-> 1, owner |-> owner, acquired |-> now, heartbeat |-> now,
     expires |-> now + LeaseTtl]

(* Mutation: an expired lease is taken over by the next acquisition.        *)
InsertTakingOver(p, h, now) ==
    LET lease == FirstRevision(h.last + 1, OwnerOf[p], now)
    IN  /\ h.current = NoLease \/ now >= h.current.expires
        /\ h.last < MaxGeneration
        /\ leases' = leases \cup {lease}
        /\ head' = _set_head(h.last + 1, lease, now)
        /\ fence' = [fence EXCEPT ![p] = Fence(lease)]
        /\ UNCHANGED <<releases, effects>>

InsertFirstRevision(p, h, now) ==
    LET lease == FirstRevision(h.last + 1, OwnerOf[p], now)
    IN  /\ h.current = NoLease
        /\ h.last < MaxGeneration
        /\ leases' = leases \cup {lease}
        /\ head' = _set_head(h.last + 1, lease, now)
        /\ fence' = [fence EXCEPT ![p] = Fence(lease)]
        /\ UNCHANGED <<releases, effects>>

(* acquire, no active lease: the next generation is granted.                *)
AcquireNew(p, now) ==
    LET h == _bootstrap_head(now)
    IN  Transact(h, now) /\ InsertFirstRevision(p, h, now)

(* acquire by the owner of the unexpired lease returns that lease.          *)
AcquireExisting(p, now) ==
    /\ Transact(head, now)
    /\ head.current # NoLease
    /\ now < head.current.expires
    /\ head.current.owner = OwnerOf[p]
    /\ head' = _observe(head, now)
    /\ fence' = [fence EXCEPT ![p] = Fence(head.current)]
    /\ UNCHANGED <<leases, releases, effects>>

(* acquire of an expired lease, or of another owner's lease, is refused     *)
(* after the observation of the clock has been made durable.                *)
AcquireRejected(p, now) ==
    /\ Transact(head, now)
    /\ head.current # NoLease
    /\ now >= head.current.expires \/ head.current.owner # OwnerOf[p]
    /\ head' = _observe(head, now)
    /\ UNCHANGED <<leases, releases, fence, effects>>

(* acquire_if_inactive_generation: compare-and-acquire from a checkpoint.   *)
acquire_if_inactive_generation(p, expected, now) ==
    /\ Transact(head, now)
    /\ head.last = expected
    /\ InsertFirstRevision(p, head, now)

HoldsCurrent(p, h) == h.current # NoLease /\ fence[p] = Fence(h.current)

(* Mutation: an expired lease can still be renewed.                         *)
RenewExtendsExpired(h, now) ==
    /\ now # h.current.heartbeat
    /\ now + LeaseTtl > h.current.expires

RenewExtends(h, now) ==
    /\ now < h.current.expires
    /\ now # h.current.heartbeat
    /\ now + LeaseTtl > h.current.expires

NextRevision(l, now) ==
    [gen |-> l.gen, rev |-> l.rev + 1, owner |-> l.owner, acquired |-> l.acquired,
     heartbeat |-> now, expires |-> now + LeaseTtl]

Renew(p, now) ==
    LET lease == NextRevision(head.current, now)
    IN  /\ Transact(head, now)
        /\ HoldsCurrent(p, head)
        /\ RenewExtends(head, now)
        /\ leases' = leases \cup {lease}
        /\ head' = _set_head(head.current.gen, lease, now)
        /\ UNCHANGED <<releases, fence, effects>>

(* renew at the heartbeat instant returns the current revision; renew of an *)
(* expired lease is refused.  Both make the observation durable.            *)
RenewObserved(p, now) ==
    /\ Transact(head, now)
    /\ HoldsCurrent(p, head)
    /\ ~RenewExtends(head, now)
    /\ head' = _observe(head, now)
    /\ UNCHANGED <<leases, releases, fence, effects>>

(* _revalidate_in_transaction up to its observation: the event time checked *)
(* and the trusted reading now must both follow the head and the revision,  *)
(* and the lease must be unexpired at the trusted reading.                  *)
Revalidates(p, h, checked, now) ==
    /\ h.exists
    /\ now >= h.updated
    /\ checked >= h.updated
    /\ verify_account_lease_history(h, leases, releases)
    /\ HoldsCurrent(p, h)
    /\ now >= h.current.heartbeat
    /\ checked >= h.current.heartbeat
    /\ now < h.current.expires

(* revalidate, and the commit of any repository transaction that revalidates *)
(* its fence.  A receipt refused because checked has expired still commits   *)
(* the observation.                                                          *)
Revalidate(p, checked, now) ==
    /\ effects = {}
    /\ Revalidates(p, head, checked, now)
    /\ head' = _observe(head, now)
    /\ UNCHANGED <<leases, releases, fence, effects>>

(* run_fenced up to the call of the operation; the observation is not       *)
(* committed yet and the head row stays locked.                             *)
RunFenced(p, checked, now) ==
    /\ effects = {}
    /\ Revalidates(p, head, checked, now)
    /\ checked < head.current.expires
    /\ effects' = {[proc |-> p, fence |-> fence[p], observed |-> now]}
    /\ UNCHANGED <<head, leases, releases, fence>>

(* revalidate called by the operation itself, on the effect's connection.   *)
RevalidateInEffect(p, checked, now) ==
    \E e \in effects :
        /\ e.proc = p
        /\ Revalidates(p, _observe(head, e.observed), checked, now)
        /\ effects' = {[e EXCEPT !.observed = now]}
        /\ UNCHANGED <<head, leases, releases, fence>>

(* The operation returned or raised: run_fenced commits either way.         *)
EndEffect(p) ==
    \E e \in effects :
        /\ e.proc = p
        /\ head' = _observe(head, e.observed)
        /\ effects' = {}
        /\ UNCHANGED <<leases, releases, fence>>

Releasable(p) ==
    /\ HoldsCurrent(p, head)
    /\ \A r \in releases : r.gen # fence[p].gen

ReleaseLease(p, now) ==
    /\ Transact(head, now)
    /\ Releasable(p)
    /\ now < head.current.expires
    /\ releases' = releases \cup
          {[gen |-> head.current.gen, rev |-> head.current.rev, at |-> now]}
    /\ head' = _set_head(head.current.gen, NoLease, now)
    /\ UNCHANGED <<leases, fence, effects>>

(* release of an expired lease is refused; the observation is durable.      *)
ReleaseRejected(p, now) ==
    /\ Transact(head, now)
    /\ Releasable(p)
    /\ now >= head.current.expires
    /\ head' = _observe(head, now)
    /\ UNCHANGED <<leases, releases, fence, effects>>

(* The process dies: its fence is forgotten and its open transaction, with  *)
(* the uncommitted observation, is rolled back.                             *)
Crash(p) ==
    /\ fence' = [fence EXCEPT ![p] = NoFence]
    /\ effects' = {e \in effects : e.proc # p}
    /\ UNCHANGED <<head, leases, releases>>

Next ==
    \E p \in Proc, now \in Instant :
        \/ AcquireNew(p, now)
        \/ AcquireExisting(p, now)
        \/ AcquireRejected(p, now)
        \/ \E expected \in 0 .. MaxGeneration :
              acquire_if_inactive_generation(p, expected, now)
        \/ Renew(p, now)
        \/ RenewObserved(p, now)
        \/ \E checked \in Instant : Revalidate(p, checked, now)
        \/ \E checked \in Instant : RunFenced(p, checked, now)
        \/ \E checked \in Instant : RevalidateInEffect(p, checked, now)
        \/ EndEffect(p)
        \/ ReleaseLease(p, now)
        \/ ReleaseRejected(p, now)
        \/ Crash(p)

Spec == Init /\ [][Next]_vars

-----------------------------------------------------------------------------
FenceId == [gen : 0 .. MaxGeneration, owner : Owner \cup {"none"}, acquired : Instant]

(* The head, the two evidence tables, the fences held and the running       *)
(* effects have their types.                                                *)
TypeOK ==
    /\ head \in Head
    /\ leases \subseteq Lease
    /\ releases \subseteq Release
    /\ fence \in [Proc -> FenceId]
    /\ effects \subseteq [proc : Proc, fence : FenceId, observed : Instant]

(* Nothing the coordinator writes is ever refused by its own verifier.  A   *)
(* history that fails verify_account_lease_history makes every later method *)
(* raise, so a single bad write would close the account for good.           *)
HistoryVerifies ==
    /\ ~head.exists => head = NoHead /\ leases = {} /\ releases = {}
    /\ verify_account_lease_history(head, leases, releases)

(* A fenced effect runs alone, and for as long as it runs its fence is the   *)
(* current, unreleased generation and was unexpired at its last observation: *)
(* run_fenced keeps the head locked across the operation.                    *)
EffectHoldsCurrentFence ==
    \A e \in effects :
        /\ effects = {e}
        /\ head.current # NoLease
        /\ e.fence = Fence(head.current)
        /\ head.updated <= e.observed
        /\ e.observed < head.current.expires

LeaseExpired == head.current # NoLease /\ head.updated >= head.current.expires

(* Once expiry of the active lease has been observed durably, no method     *)
(* grants, renews, releases or runs an effect again: there is no takeover   *)
(* in the code, so an expired account stays closed.                         *)
ExpiryIsFinal ==
    [][LeaseExpired =>
          /\ head'.current = head.current
          /\ leases' = leases
          /\ releases' = releases
          /\ effects' = {}]_vars

(* Lease and release rows are only ever added, and the durable clock and    *)
(* the generation counter never move backwards, whatever the clock reads.   *)
EvidenceIsAppendOnly ==
    [][/\ leases \subseteq leases'
       /\ releases \subseteq releases'
       /\ head.updated <= head'.updated
       /\ head.last <= head'.last]_vars

(* What the evidence says stays said: rows, clock, generations and expiry.  *)
EvidenceIsPermanent == EvidenceIsAppendOnly /\ ExpiryIsFinal

-----------------------------------------------------------------------------
(* The coordinator as a single fenced ownership.                            *)
Ownership == INSTANCE FencedOwnership WITH
    NoOwner <- "none",
    generation <- head.last,
    owner <- head.current.owner,
    lapsed <- LeaseExpired,
    running <- {e.fence.gen : e \in effects}

(* The coordinator implements single fenced ownership: every method is a    *)
(* grant, a surrender, a lapse, the begin or end of an effect, or invisible *)
(* to callers, so no schedule of methods, crashes and clock readings gives  *)
(* two owners or runs an effect under a superseded fence.                   *)
ImplementsFencedOwnership == Ownership!Spec
=============================================================================
