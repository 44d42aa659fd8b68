--------------------------- MODULE EtradeSession ---------------------------
(***************************************************************************)
(* The supervised E*TRADE OAuth session: the reducers of                   *)
(* packages/adapters/broker/etrade_oauth.py, the durable journal of        *)
(* packages/persistence/etrade_oauth_coordinator.py that admits their      *)
(* results one event at a time, and the token runtime of                   *)
(* packages/application/etrade_oauth_token_runtime.py that burns a signing *)
(* fingerprint in that journal before it lets a signed request out.        *)
(*                                                                         *)
(* The journal is one sequence per stable scope.  A caller works from a    *)
(* snapshot, which is a prefix of the journal and is named by its length,  *)
(* and every write compares that prefix with the journal under the lock.   *)
(* Digests stand for what they cover: the predecessor digest of a state is *)
(* its position n in the chain of states, and the transition evidence ev   *)
(* is the tuple that is hashed.  Seconds are small numbers, 0 is None.     *)
(***************************************************************************)
EXTENDS Naturals, Sequences, FiniteSetsExt

CONSTANTS
    Process,         \* the processes that hold a coordinator on the store
    Nonce,           \* the nonces callers inject
    Inactivity,      \* ETRADE_OAUTH_INACTIVITY_SECONDS
    Life,            \* seconds from issuance to the daily expiry
    MaxFingerprints, \* ETRADE_OAUTH_REPLAY_GUARD_MAX_FINGERPRINTS
    MaxTime,         \* bound on the trusted clock
    MaxEvents,       \* bound on the journal
    MaxShared        \* bound on the journal when a second process sets out

VARIABLES
    now,       \* the trusted clock callers read their timestamps from
    journal,   \* phase4_etrade_oauth_session_events, with its head
    stage,     \* what each process is doing
    proposal,  \* the advance it is making: prefix, event, what follows it
    capability,\* the confirmed state its access-exchange capability binds
    sent       \* the fingerprints of the signed requests let out, in order

vars == <<now, journal, stage, proposal, capability, sent>>

RequestPhases == {"request_token_received", "authorization_pending", "authorization_confirmed"}
AccessPhases == {"active", "inactive", "expired", "revoked"}
Phases == {"needs_request_token", "reauthorization_required"} \union RequestPhases \union AccessPhases
\* A token that has only been inactive can be renewed before its daily expiry.
RenewablePhases == {"active", "inactive"}
SigningReplayPhases == {"needs_request_token", "authorization_confirmed", "active", "inactive"}

\* create_etrade_oauth_session, the only state initialize admits as a root.
Root ==
    [phase |-> "needs_request_token", gen |-> 1, ref |-> 1, tok |-> 0, time |-> 0,
     act |-> 0, obs |-> 0, exp |-> 0, renew |-> 0, reason |-> "", n |-> 0, ev |-> << >>]

Event(state, fp, water) == [state |-> state, fp |-> fp, water |-> water]
NoProposal == [base |-> 0, event |-> Event(Root, << >>, << >>), then |-> << >>]

----------------------------------------------------------------------------
(* The reducers.  Each is the set of its results: empty where it raises.   *)

\* replace(state, ..., predecessor_sha256=state.semantic_sha256), if allowed.
When(allowed, s, successor) == IF allowed THEN {[successor EXCEPT !.n = s.n + 1]} ELSE {}

\* _require_session_intent: the intent of this operation for this state.
RequireSessionIntent(s, i, operation) ==
    i.op = operation /\ i.ref = s.ref /\ i.gen = s.gen /\ i.time >= s.time

Evidence(i) == <<i.op, i.nonce, i.time>>

RequestToken(s, i) ==
    When(RequireSessionIntent(s, i, "request") /\ s.phase = "needs_request_token", s,
         [s EXCEPT !.phase = "request_token_received", !.tok = s.tok + 1,
                   !.time = i.time, !.ev = Evidence(i)])

BeginAuthorization(s) ==
    When(s.phase = "request_token_received", s,
         [s EXCEPT !.phase = "authorization_pending", !.ev = <<"challenge", s.n>>])

\* The verifier fingerprint names the challenge, which is the evidence of the
\* pending state.
VerifierFingerprint(s) == <<"verifier", s.ref, s.gen, s.ev>>

Authorize(s) ==
    When(s.phase = "authorization_pending", s,
         [s EXCEPT !.phase = "authorization_confirmed", !.ev = VerifierFingerprint(s)])

AccessToken(s, i) ==
    When(RequireSessionIntent(s, i, "access") /\ s.phase = "authorization_confirmed", s,
         [s EXCEPT !.phase = "active", !.tok = s.tok + 1, !.time = i.time, !.ev = Evidence(i),
                   !.act = i.time, !.obs = i.time, !.exp = i.time + Life])

ObservedPhase(s, t) ==
    CASE t >= s.exp -> "expired"
      [] t < s.exp /\ t - s.act >= Inactivity -> "inactive"
      [] OTHER -> "active"

ObserveTime(s, t) ==
    When(s.phase = "active" /\ t >= s.time, s,
         [s EXCEPT !.phase = ObservedPhase(s, t), !.obs = t, !.time = t, !.ev = <<"observed", t>>])

RecordActivity(s, t) ==
    {[c EXCEPT !.act = t, !.ev = <<"activity", t>>] :
        c \in {o \in ObserveTime(s, t) : o.phase = "active"}}

Renew(s, i) ==
    When(/\ RequireSessionIntent(s, i, "renew")
         /\ s.phase \in RenewablePhases
         /\ i.time < s.exp, s,
         [s EXCEPT !.phase = "active", !.renew = s.renew + 1, !.act = i.time, !.obs = i.time,
                   !.time = i.time, !.ev = Evidence(i)])

Revoke(s, i) ==
    {[c EXCEPT !.phase = "revoked", !.ev = Evidence(i)] :
        c \in {o \in ObserveTime(s, i.time) :
                    o.phase = "active" /\ RequireSessionIntent(s, i, "revoke")}}

Reason(phase) ==
    CASE phase = "inactive" -> "inactivity"
      [] phase = "expired" -> "daily_expiry"
      [] phase = "revoked" -> "revocation"
      [] OTHER -> ""

RequireReauthorization(s) ==
    When(Reason(s.phase) # "", s,
         [s EXCEPT !.phase = "reauthorization_required", !.reason = Reason(s.phase),
                   !.ev = <<"reauthorization", s.n>>])

BeginReauthorization(s) ==
    When(s.phase = "reauthorization_required", s,
         [Root EXCEPT !.gen = s.gen + 1, !.ref = s.ref, !.tok = s.tok, !.time = s.time,
                      !.ev = <<"begin", s.n>>])

\* rotate_etrade_oauth_consumer_reference, from a token-empty generation that
\* a reauthorization began.
RotateConsumer(s) ==
    When(s.phase = "needs_request_token" /\ s.gen > 1, s,
         [s EXCEPT !.ref = s.ref + 1, !.ev = <<"rotation", s.n>>])

\* The four transitions that a signed request drives.
Signed(s, i) == RequestToken(s, i) \union AccessToken(s, i) \union Renew(s, i) \union Revoke(s, i)

StateOnly(s, t) ==
    UNION {BeginAuthorization(s), ObserveTime(s, t), RecordActivity(s, t),
           RequireReauthorization(s), BeginReauthorization(s), RotateConsumer(s)}

----------------------------------------------------------------------------
(* The replay guard that the first k events of the journal add up to.      *)

Fingerprints(k) == {journal[j].fp : j \in 1..k} \ {<< >>}

\* The signing high-water of one scope, << >> before its first signature.
HighWater(k, ref) ==
    LET at == {j \in 1..k : journal[j].water # << >> /\ journal[j].water[1] = ref}
    IN  IF at = {} THEN << >> ELSE journal[Max(at)].water

SigningFingerprint(i) == <<"signing", i.ref, i.time, i.nonce>>

\* _consume_replay_fingerprint
Consumable(k, fp) ==
    fp \notin Fingerprints(k) /\ Cardinality(Fingerprints(k)) < MaxFingerprints

\* _consume_signing_intent
SigningConsumable(k, i) ==
    /\ Consumable(k, SigningFingerprint(i))
    /\ LET w == HighWater(k, i.ref) IN w # << >> => i.gen >= w[2] /\ i.time >= w[3]

\* What _replay_delta finds changed in the high-waters.
WaterDelta(k, i) ==
    LET w == <<i.ref, i.gen, i.time>> IN IF HighWater(k, i.ref) = w THEN << >> ELSE w

Consuming(k, i, s) == Event(s, SigningFingerprint(i), WaterDelta(k, i))

----------------------------------------------------------------------------
(* _is_canonical_state_advance: the closed graph the coordinator enforces  *)
(* when it writes event e after the first k, and again on every read.      *)

ReplayOnly(k) == k > 1 /\ journal[k].state = journal[k - 1].state /\ journal[k].fp # << >>

NoDelta(e) == e.fp = << >> /\ e.water = << >>

\* The fingerprint a transition rests on: its own or the one just before it.
AdjacentFingerprint(k, e) ==
    IF e.fp # << >> THEN e.fp ELSE IF NoDelta(e) /\ ReplayOnly(k) THEN journal[k].fp ELSE << >>

WaterAfter(k, e, ref) == IF e.water # << >> /\ e.water[1] = ref THEN e.water ELSE HighWater(k, ref)

ReplayOnlyAdvance(k, e) ==
    /\ e.fp # << >>
    /\ \/ /\ e.state.phase = "authorization_pending"
          /\ e.water = << >>
          /\ e.fp = VerifierFingerprint(e.state)
       \/ /\ e.state.phase \in SigningReplayPhases
          /\ LET w == WaterAfter(k, e, e.state.ref)
             IN  /\ w # << >> /\ w[2] = e.state.gen /\ w[3] >= e.state.time
                 /\ e.water \in {<< >>, w}

\* _has_signing_replay_coupling
SigningCoupled(k, e) ==
    LET w == WaterAfter(k, e, e.state.ref)
    IN  /\ AdjacentFingerprint(k, e) # << >>
        /\ w = <<e.state.ref, e.state.gen, e.state.time>>
        /\ e.water \in {<< >>, w}
        /\ NoDelta(e) => journal[k].water \in {<< >>, w}

SameAccess(p, s) ==
    \A f \in {"ref", "gen", "tok", "exp"} : p[f] = s[f]

IsRequestToken(p, s) ==
    /\ p.phase = "needs_request_token" /\ s.phase = "request_token_received"
    /\ s.ref = p.ref /\ s.gen = p.gen /\ s.renew = p.renew
    /\ s.tok > p.tok /\ s.time >= p.time

IsAccessToken(p, s) ==
    /\ p.phase = "authorization_confirmed" /\ s.phase = "active"
    /\ s.ref = p.ref /\ s.gen = p.gen /\ s.renew = p.renew
    /\ s.tok > p.tok /\ s.act = s.time /\ s.obs = s.time

IsObservation(p, s) ==
    /\ p.phase = "active" /\ s.phase \in {"active", "inactive", "expired"}
    /\ SameAccess(p, s) /\ s.renew = p.renew
    /\ s.time >= p.time /\ s.obs = s.time /\ s.obs >= p.obs
    /\ \/ s.act = p.act
       \/ s.phase = "active" /\ s.act = s.obs /\ s.act >= p.act /\ s.obs - p.act < Inactivity

IsRenewal(p, s) ==
    /\ p.phase \in RenewablePhases /\ s.phase = "active"
    /\ SameAccess(p, s) /\ s.renew = p.renew + 1
    /\ s.time >= p.time /\ s.act = s.time /\ s.obs = s.time

IsRevocation(p, s) ==
    /\ p.phase = "active" /\ s.phase = "revoked"
    /\ SameAccess(p, s) /\ s.renew = p.renew
    /\ s.time >= p.time /\ s.act = p.act /\ s.obs = s.time /\ s.obs - p.act < Inactivity

IsSigned(p, s) == IsRequestToken(p, s) \/ IsAccessToken(p, s) \/ IsRenewal(p, s) \/ IsRevocation(p, s)

Canonical(k, e) ==
    LET p == journal[k].state
        s == e.state
    IN  \/ /\ s = p
           /\ ~(p.phase = "authorization_confirmed" /\ ReplayOnly(k))
           /\ ReplayOnlyAdvance(k, e)
        \/ /\ s.n = p.n + 1
           /\ \/ /\ NoDelta(e)
                 /\ s \in UNION {BeginAuthorization(p), RequireReauthorization(p),
                                 BeginReauthorization(p), RotateConsumer(p)}
              \/ /\ s \in Authorize(p)
                 /\ e.water = << >>
                 /\ AdjacentFingerprint(k, e) = VerifierFingerprint(p)
              \/ /\ IsSigned(p, s)
                 /\ ~(p.phase = "authorization_confirmed" /\ e.fp # << >> /\ ReplayOnly(k))
                 /\ SigningCoupled(k, e)
              \/ NoDelta(e) /\ IsObservation(p, s)

----------------------------------------------------------------------------
(* The callers.                                                            *)

Tip == Len(journal)
Current == journal[Tip].state

Intents(operations) ==
    {[op |-> o, nonce |-> c, time |-> now, gen |-> Current.gen, ref |-> Current.ref] :
        o \in operations, c \in Nonce}

\* Only access signing needs the capability of this confirmed state.
MaySign(p, i) == i.op = "access" => capability[p] = Current.n

\* Bound: processes work side by side on a journal of up to MaxShared events,
\* and one at a time on a longer one.
Room == Tip < IF \A p \in Process : stage[p] = "idle" THEN MaxEvents ELSE MaxShared

Offer(event, then) == [base |-> Tip, event |-> event, then |-> then]

\* What a caller may present to advance on the head it has loaded: a state
\* edge, or a signed or verified edge whose fingerprint is consumed in the same
\* event or in a replay-only event that it presents first.
Offers(p) ==
    LET s == Current
        signing == {i \in Intents({"request", "access", "renew", "revoke"}) :
                        MaySign(p, i) /\ SigningConsumable(Tip, i)}
    IN  UNION {
          {Offer(Event(x, << >>, << >>), << >>) : x \in StateOnly(s, now)},
          UNION {{Offer(Consuming(Tip, i, x), << >>), Offer(Consuming(Tip, i, s), <<x>>)} :
                    <<i, x>> \in {<<j, y>> \in signing \X UNION {Signed(s, j) : j \in signing} :
                                    y \in Signed(s, j)}},
          UNION {{Offer(Event(x, VerifierFingerprint(s), << >>), << >>),
                  Offer(Event(s, VerifierFingerprint(s), << >>), <<x>>)} :
                    x \in {y \in Authorize(s) : Consumable(Tip, VerifierFingerprint(s))}}}

\* load, then one reducer: authorization mints a capability for its result,
\* access signing consumes it.
Prepare(p) ==
    /\ stage[p] = "idle"
    /\ Room
    /\ \E o \in Offers(p) :
        /\ proposal' = [proposal EXCEPT ![p] = o]
        /\ capability' = [capability EXCEPT ![p] =
                CASE Current.phase = "authorization_pending" -> Current.n + 1
                  [] Current.phase = "authorization_confirmed" -> 0
                  [] OTHER -> @]
    /\ stage' = [stage EXCEPT ![p] = "advance"]
    /\ UNCHANGED <<now, journal, sent>>

\* issue_token_runtime_currentness_reservation, the claim and the preflight of
\* execute_etrade_oauth_injected_token_exchange.
Claim(p) ==
    /\ stage[p] = "idle"
    /\ Room
    /\ \E i \in Intents({"request", "access"}) : \E x \in Signed(Current, i) :
        /\ MaySign(p, i)
        /\ SigningConsumable(Tip, i)
        /\ proposal' = [proposal EXCEPT ![p] = Offer(Consuming(Tip, i, Current), <<x>>)]
    /\ stage' = [stage EXCEPT ![p] = "reserve"]
    /\ UNCHANGED <<now, journal, capability, sent>>

\* Mutation: the swap compares the session state and not the event cursor.
AdmitsSameState(o) == Canonical(o.base, o.event) /\ Current = journal[o.base].state

\* The compare-and-swap of advance, under the write lock.
Admits(o) == Canonical(o.base, o.event) /\ Tip = o.base

\* The exact event is already the current one.
AlreadyCurrent(o) == Canonical(o.base, o.event) /\ Tip = o.base + 1 /\ journal[Tip] = o.event

Idle(p) ==
    /\ stage' = [stage EXCEPT ![p] = "idle"]
    /\ proposal' = [proposal EXCEPT ![p] = NoProposal]

\* The snapshot advance returned, with what the caller presents on it.
Follow(p) == [base |-> proposal[p].base + 1,
              event |-> Event(proposal[p].then[1], << >>, << >>), then |-> << >>]

Returned(p) ==
    IF proposal[p].then = << >>
    THEN Idle(p)
    ELSE proposal' = [proposal EXCEPT ![p] = Follow(p)] /\ UNCHANGED stage

\* advance: the event is appended, and the answer arrives or is lost; a lost
\* answer is presented again and converges on the event; anything else has
\* lost the head.
Advance(p) ==
    /\ stage[p] = "advance"
    /\ \/ /\ Admits(proposal[p])
          /\ journal' = Append(journal, proposal[p].event)
          /\ Returned(p) \/ UNCHANGED <<stage, proposal>>
       \/ /\ AlreadyCurrent(proposal[p])
          /\ Returned(p)
          /\ UNCHANGED journal
       \/ /\ ~Admits(proposal[p]) /\ ~AlreadyCurrent(proposal[p])
          /\ Idle(p)
          /\ UNCHANGED journal
    /\ UNCHANGED <<now, capability, sent>>

\* Mutation: the reservation converges on an event that is already current.
ReserveConverging(p) ==
    /\ stage[p] = "reserve"
    /\ \/ /\ Admits(proposal[p]) \/ AlreadyCurrent(proposal[p])
          /\ journal' = IF Admits(proposal[p]) THEN Append(journal, proposal[p].event) ELSE journal
          /\ \/ stage' = [stage EXCEPT ![p] = "signing"] /\ UNCHANGED proposal
             \/ Idle(p)
       \/ /\ ~Admits(proposal[p]) /\ ~AlreadyCurrent(proposal[p])
          /\ Idle(p)
          /\ UNCHANGED journal
    /\ UNCHANGED <<now, capability, sent>>

\* _reserve_signing_intent_for_token_runtime: the same write with
\* allow_exact_retry=False, so that only a newly burned fingerprint lets the
\* exchange go on.
Reserve(p) ==
    /\ stage[p] = "reserve"
    /\ \/ /\ Admits(proposal[p])
          /\ journal' = Append(journal, proposal[p].event)
          /\ \/ stage' = [stage EXCEPT ![p] = "signing"] /\ UNCHANGED proposal
             \/ Idle(p)
       \/ /\ ~Admits(proposal[p])
          /\ Idle(p)
          /\ UNCHANGED journal
    /\ UNCHANGED <<now, capability, sent>>

\* The rest of the exchange: sign, consuming the capability, and let the
\* request out.  A token comes back with its successor state, which the caller
\* presents on the replay snapshot of the result, or the transport fails.
Exchange(p) ==
    /\ stage[p] = "signing"
    /\ sent' = Append(sent, proposal[p].event.fp)
    /\ capability' = [capability EXCEPT ![p] =
            IF proposal[p].event.state.phase = "authorization_confirmed" THEN 0 ELSE @]
    /\ \/ /\ stage' = [stage EXCEPT ![p] = "advance"]
          /\ proposal' = [proposal EXCEPT ![p] = Follow(p)]
       \/ Idle(p)
    /\ UNCHANGED <<now, journal>>

\* A process dies, and with it its proposal and its capability; or a call of
\* the exchange raises before the request is signed.
Crash(p) ==
    /\ stage[p] # "idle" \/ capability[p] # 0
    /\ Idle(p)
    /\ capability' = [capability EXCEPT ![p] = 0]
    /\ UNCHANGED <<now, journal, sent>>

Raise(p) ==
    /\ stage[p] = "signing"
    /\ Idle(p)
    /\ UNCHANGED <<now, journal, capability, sent>>

Tick ==
    /\ now < MaxTime
    /\ now' = now + 1
    /\ UNCHANGED <<journal, stage, proposal, capability, sent>>

\* initialize commits the root; a second initialize verifies it and changes nothing.
Init ==
    /\ now = 1
    /\ journal = <<Event(Root, << >>, << >>)>>
    /\ stage = [p \in Process |-> "idle"]
    /\ proposal = [p \in Process |-> NoProposal]
    /\ capability = [p \in Process |-> 0]
    /\ sent = << >>

Step(p) == Prepare(p) \/ Claim(p) \/ Advance(p) \/ Reserve(p) \/ Exchange(p) \/ Crash(p) \/ Raise(p)

Next == Tick \/ \E p \in Process : Step(p)

Spec == Init /\ [][Next]_vars

----------------------------------------------------------------------------
(* Properties.                                                             *)

\* _validate_phase_shape, with the horizons of the access phases.
Shaped(s) ==
    /\ s.phase = "needs_request_token" =>
         /\ s.act = 0 /\ s.obs = 0 /\ s.exp = 0 /\ s.renew = 0 /\ s.reason = ""
         /\ s.gen = 1 => s.tok = 0 /\ s.time = 0
         /\ s.gen > 1 => s.tok > 0 /\ s.time > 0
    /\ s.phase \in RequestPhases => s.exp = 0 /\ s.renew = 0 /\ s.reason = "" /\ s.time > 0
    /\ s.phase \in AccessPhases \union {"reauthorization_required"} =>
         /\ s.act <= s.obs /\ s.act < s.exp /\ s.obs <= s.time
         /\ (s.phase = "reauthorization_required") <=> (s.reason # "")
    /\ s.phase = "active" => s.obs < s.exp /\ s.obs - s.act < Inactivity
    /\ s.phase = "inactive" \/ s.reason = "inactivity" =>
         s.obs < s.exp /\ s.obs - s.act >= Inactivity
    /\ s.phase = "expired" \/ s.reason = "daily_expiry" => s.obs >= s.exp
    /\ s.phase = "revoked" \/ s.reason = "revocation" => s.obs < s.exp

\* The session states in the journal have the shape that every construction of
\* an EtradeOAuthSessionState validates, so no reducer builds a state its own
\* validation refuses; the processes are where the code can be.
TypeOK ==
    /\ now \in 1..MaxTime
    /\ \A k \in 1..Tip : journal[k].state.phase \in Phases /\ Shaped(journal[k].state)
    /\ stage \in [Process -> {"idle", "advance", "reserve", "signing"}]
    /\ \A p \in Process : proposal[p].base <= Tip /\ (stage[p] = "idle" <=> proposal[p] = NoProposal)
    /\ capability \in [Process -> 0..MaxEvents]

\* authenticate_etrade_oauth_durable_snapshot: whatever the processes race for,
\* every event that advance has appended is a canonical successor of the event
\* before it, repeats no fingerprint and rolls nothing back, so that the full
\* read of the journal never fails on what the coordinator itself wrote.
JournalAuthenticates ==
    \A k \in 1..(Tip - 1) :
        LET e == journal[k + 1]
            p == journal[k].state
        IN  /\ Canonical(k, e)
            /\ e.fp = << >> \/ e.fp \notin Fingerprints(k)
            /\ Cardinality(Fingerprints(k + 1)) <= MaxFingerprints
            /\ e.water # << >> =>
                 LET w == HighWater(k, e.water[1])
                 IN  w = << >> \/ (w # e.water /\ w[2] <= e.water[2] /\ w[3] <= e.water[3])
            /\ e.state.ref >= p.ref /\ e.state.gen >= p.gen
            /\ e.state.tok >= p.tok /\ e.state.time >= p.time

\* The token runtime lets a signed request out at most once per fingerprint,
\* and only after the journal holds it: two processes given the same nonce, a
\* lost answer to the reservation and a restart included.
SignedOnce ==
    /\ \A i, j \in 1..Len(sent) : sent[i] = sent[j] => i = j
    /\ \A i \in 1..Len(sent) : sent[i] \in Fingerprints(Tip)

\* The journal couples every signed transition with the fingerprint of the very
\* intent it records as evidence, and not with one that another process burned
\* in between.
EvidenceIsConsumed ==
    \A k \in 1..(Tip - 1) :
        LET e == journal[k + 1]
        IN  e.state # journal[k].state /\ IsSigned(journal[k].state, e.state) =>
                AdjacentFingerprint(k, e) = <<"signing", e.state.ref, e.state.ev[3], e.state.ev[2]>>

\* A token is never paired with another consumer reference: from the request
\* token of a generation on, the generation keeps its consumer reference.
TokenKeepsConsumer ==
    \A j, k \in 1..Tip :
        /\ j < k
        /\ journal[j].state.gen = journal[k].state.gen
        /\ journal[j].state.phase # "needs_request_token"
        => journal[j].state.ref = journal[k].state.ref

\* An access token that the journal has seen expired or revoked is not used
\* again: only a later generation can be active.
DeadStaysDead ==
    \A j, k \in 1..Tip :
        /\ j < k
        /\ journal[j].state.phase \in {"expired", "revoked"}
        /\ journal[k].state.phase \in {"active", "inactive"}
        => journal[j].state.gen < journal[k].state.gen
============================================================================
