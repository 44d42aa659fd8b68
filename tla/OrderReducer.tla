---------------------------- MODULE OrderReducer ----------------------------
(***************************************************************************)
(* packages/domain/order_reducer.py: the state of one order is rebuilt,    *)
(* whenever it is needed, from its submission, at most one cancel request  *)
(* and the broker events delivered so far.  A history the reducer refuses  *)
(* has state Invalid.                                                      *)
(***************************************************************************)
EXTENDS Integers, Sequences, SequencesExt, FiniteSetsExt, Functions

CONSTANTS
    Execution,  \* execution_id
    Quantity    \* ordered shares

ASSUME QuantityAssumption == Quantity \in Nat \ {0}

NoEvent == [kind |-> "none", quantity |-> 0]
Conflict == [id |-> 0, sequence |-> 0]
NoCancel == [requested |-> 0, prior |-> << >>]
Invalid == [status |-> "invalid"]
Terminal == {"filled", "canceled", "rejected"}

-----------------------------------------------------------------------------
Filled(heads) == FoldFunction(LAMBDA head, sum : sum + head.quantity, 0, heads)

(* The rule of each kind of event in the loop of reduce_order_lifecycle.    *)
Admits(state, event, request) ==
    CASE event.kind = "accepted" ->
            ~state.accepted /\ ~state.rejected /\ ~state.canceled
      [] event.kind = "rejected" ->
            /\ ~state.accepted /\ ~state.rejected /\ ~state.canceled
            /\ \A x \in Execution : state.heads[x] = NoEvent
      [] event.kind = "canceled" ->
            /\ ~state.rejected /\ ~state.canceled
            /\ request # NoCancel
            /\ event.occurred >= request.requested
      [] event.kind = "execution" ->
            ~state.rejected /\ state.heads[event.execution] = NoEvent
      [] event.kind = "execution_correction" ->
            LET previous == state.heads[event.execution]
            IN  /\ previous # NoEvent
                /\ event.revision = previous.revision + 1
                /\ event.supersedes = previous.id

Start ==
    [valid |-> TRUE, accepted |-> FALSE, rejected |-> FALSE, canceled |-> FALSE,
     heads |-> [x \in Execution |-> NoEvent]]

(* One turn of the loop; a refused event invalidates the whole history.     *)
Apply(state, event, request) ==
    LET isExecution == event.kind \in {"execution", "execution_correction"}
        heads == IF isExecution /\ event.execution \in Execution
                 THEN [state.heads EXCEPT ![event.execution] = event] ELSE state.heads
    IN  [valid    |-> state.valid /\ Admits(state, event, request) /\ Filled(heads) <= Quantity,
         accepted |-> state.accepted \/ event.kind = "accepted",
         rejected |-> state.rejected \/ event.kind = "rejected",
         canceled |-> state.canceled \/ event.kind = "canceled",
         heads    |-> heads]

(* Mutation: the filled quantity is only compared at the end.               *)
FoldCheckedOnce(ordered, request) ==
    LET folded == FoldLeft(LAMBDA state, event :
                      [Apply(state, event, request) EXCEPT
                         !.valid = state.valid /\ Admits(state, event, request)],
                      Start, ordered)
    IN  [folded EXCEPT !.valid = @ /\ Filled(folded.heads) <= Quantity]

Fold(ordered, request) ==
    FoldLeft(LAMBDA state, event : Apply(state, event, request),
             Start, ordered)

Status(folded) ==
    LET filled == Filled(folded.heads)
    IN  IF folded.rejected THEN "rejected"
        ELSE IF filled = Quantity THEN "filled"
        ELSE IF folded.canceled THEN "canceled"
        ELSE IF filled > 0 THEN "partially_filled"
        ELSE IF folded.accepted THEN "working" ELSE "submitted"

(* One delivery in _unique_broker_events: a repetition is dropped; another  *)
(* event with a known identity or broker sequence is a conflict.            *)
Keep(kept, event) ==
    IF event \in kept THEN kept
    ELSE IF \E e \in kept : e.id = event.id \/ e.sequence = event.sequence
         THEN kept \union {Conflict}
         ELSE kept \union {event}

_unique_broker_events(delivered) == FoldLeft(Keep, {}, delivered)

(* Contiguous sequence numbers, times that do not run backwards.            *)
Canonical(ordered) ==
    /\ \A i \in DOMAIN ordered : ordered[i].sequence = i
    /\ \A i \in 2 .. Len(ordered) : /\ ordered[i].occurred >= ordered[i - 1].occurred
                                    /\ ordered[i].received >= ordered[i - 1].received

(* The delivered events, each once, by broker sequence.                     *)
Ordered(kept) == SetToSortSeq(kept, LAMBDA e, f : e.sequence < f.sequence)

(* as_of, for an order submitted at instant 0.                              *)
AsOf(ordered, request) ==
    Max({0, request.requested} \union {ordered[i].received : i \in DOMAIN ordered})

(* The canonical state of an ordered history, cancel request apart.  The    *)
(* status and executions are determined by it; its events are its digest.   *)
State(ordered, request) ==
    IF Canonical(ordered) /\ Fold(ordered, request).valid
    THEN [status |-> Status(Fold(ordered, request)), events |-> ordered,
          heads |-> Fold(ordered, request).heads]
    ELSE Invalid

(* A cancel request is bound to the state of the events received before it. *)
Bound(ordered, request) ==
    LET prior == SelectSeq(ordered, LAMBDA e : e.received < request.requested)
        state == State(prior, NoCancel)
    IN  /\ state # Invalid
        /\ prior = request.prior
        /\ request.requested > AsOf(prior, NoCancel)
        /\ state.status \notin Terminal

reduce_order_lifecycle(delivered, request) ==
    LET kept == _unique_broker_events(delivered)
    IN  IF Conflict \notin kept /\ (request # NoCancel => Bound(Ordered(kept), request))
        THEN State(Ordered(kept), request)
        ELSE Invalid
=============================================================================
