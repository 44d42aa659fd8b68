---------------------------- MODULE OrderHistory ----------------------------
(***************************************************************************)
(* The life of one order as its broker events are delivered, in any order  *)
(* and any number of times, and at most one cancel request is made.        *)
(***************************************************************************)
EXTENDS OrderReducer

CONSTANTS
    BrokerEvent,   \* the events the broker may send
    MaxDeliveries, \* bound: deliveries
    MaxTime        \* bound: instants a cancel request may be made at

VARIABLES
    deliveries,  \* events in the order of delivery, repetitions included
    cancel       \* OrderCancelRequest, or NoCancel

vars == <<deliveries, cancel>>

Init == deliveries = << >> /\ cancel = NoCancel

Deliver(event) ==
    /\ Len(deliveries) < MaxDeliveries
    /\ deliveries' = Append(deliveries, event)
    /\ UNCHANGED cancel

create_cancel_request(at) ==
    LET state == reduce_order_lifecycle(deliveries, cancel)
    IN  /\ state # Invalid
        /\ cancel = NoCancel
        /\ state.status \notin Terminal
        /\ at > AsOf(state.events, cancel)
        /\ cancel' = [requested |-> at, prior |-> state.events]
        /\ UNCHANGED deliveries

Next ==
    \/ \E event \in BrokerEvent : Deliver(event)
    \/ \E at \in 1 .. MaxTime : create_cancel_request(at)

Spec == Init /\ [][Next]_vars

-----------------------------------------------------------------------------
Current == reduce_order_lifecycle(deliveries, cancel)

(* A state the reducer returns has a status of CanonicalOrderStatus and an  *)
(* execution never leaves more shares filled than were ordered.             *)
TypeOK ==
    /\ Len(deliveries) <= MaxDeliveries
    /\ Current # Invalid =>
          /\ Current.status \in Terminal \union {"submitted", "working", "partially_filled"}
          /\ Filled(Current.heads) \in 0 .. Quantity

(* _unique_broker_events keeps the delivered events or reports a conflict   *)
(* depending on which events were delivered, not on the order in which they *)
(* were or on how often.                                                    *)
DeliveryOrderIrrelevant ==
    LET kept == _unique_broker_events(deliveries)
        clash == \E e, f \in Range(deliveries) :
                    e # f /\ (e.id = f.id \/ e.sequence = f.sequence)
    IN  IF clash THEN Conflict \in kept ELSE kept = Range(deliveries)

(* The rejection is the whole history of a rejected order: nothing the      *)
(* broker sends before or after it is compatible with it, so a rejection    *)
(* that released capacity remains the last event of its order.              *)
RejectionIsWholeHistory ==
    Current # Invalid /\ Current.status = "rejected" => Len(Current.events) = 1

(* Every prefix of a history the reducer accepts is accepted, with the      *)
(* cancel request when it holds the cancellation and without it otherwise:  *)
(* what _possible_order_state_digests relies on when it rebuilds the state  *)
(* a release fact was written from.                                         *)
PrefixesStayCanonical ==
    Current # Invalid =>
        \A k \in 0 .. Len(Current.events) :
            LET prefix == SubSeq(Current.events, 1, k)
                request == IF \E i \in 1 .. k : prefix[i].kind = "canceled"
                           THEN cancel ELSE NoCancel
            IN  reduce_order_lifecycle(prefix, request) # Invalid
=============================================================================
