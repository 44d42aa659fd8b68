------------------------ MODULE MCSubmissionAttempt ------------------------
(***************************************************************************)
(* What is sent to the broker, and what is read back from the evidence of  *)
(* it: the attempts of two orders of one batch under two dispatchers and   *)
(* one owner that may lose and regain the account once                     *)
(* (SubmissionAttempt), the broker events of one order (OrderHistory) and  *)
(* the attempts an expiry was decided on (ExpiryReplay).  The three share  *)
(* no state; a behaviour is a behaviour of the one that "part" names.      *)
(***************************************************************************)
EXTENDS SubmissionAttempt, Sequences, TLC

CONSTANTS
    a1, a2, w1, w2, o1,
    t, u,            \* the order that may expire, and another of its batch
    MaxDeliveries, MaxCancelTime, MaxRetries, MaxWatermark

VARIABLES
    part,
    deliveries, cancel,          \* of OrderHistory
    watermark, events, release   \* of ExpiryReplay

Symmetry == Permutations({a1, a2}) \cup Permutations({w1, w2})

-----------------------------------------------------------------------------
(* Two executions of an order for two shares.  Some events are alternative  *)
(* contents of one broker sequence, two share an identity, one is received  *)
(* before its predecessor.                                                  *)
Plain(id, sequence, kind, occurred, received) ==
    [id |-> id, sequence |-> sequence, kind |-> kind, execution |-> "none", revision |-> 0,
     supersedes |-> 0, quantity |-> 0, occurred |-> occurred, received |-> received]

Fill(id, sequence, execution, quantity, at) ==
    [id |-> id, sequence |-> sequence, kind |-> "execution", execution |-> execution,
     revision |-> 1, supersedes |-> 0, quantity |-> quantity, occurred |-> at, received |-> at]

Correct(id, sequence, revision, supersedes, quantity, at) ==
    [id |-> id, sequence |-> sequence, kind |-> "execution_correction", execution |-> "x",
     revision |-> revision, supersedes |-> supersedes, quantity |-> quantity,
     occurred |-> at, received |-> at]

BrokerEvents ==
    {Plain(1, 1, "accepted", 1, 1), Plain(2, 1, "rejected", 1, 1), Plain(3, 2, "rejected", 2, 2),
     Plain(4, 1, "canceled", 1, 1), Plain(5, 2, "canceled", 1, 3), Plain(6, 3, "canceled", 3, 3),
     Fill(7, 1, "x", 1, 1), Fill(7, 1, "x", 2, 1), Fill(8, 2, "x", 1, 2), Fill(9, 3, "y", 2, 3),
     Fill(10, 2, "y", 1, 2), Fill(11, 4, "y", 1, 2),
     Correct(12, 2, 2, 7, 2, 2), Correct(13, 3, 2, 8, 0, 3), Correct(14, 3, 3, 12, 1, 3),
     Correct(15, 3, 2, 7, 1, 3)}

History == INSTANCE OrderHistory
           WITH Execution <- {"x", "y"}, Quantity <- 2, BrokerEvent <- BrokerEvents,
                MaxTime <- MaxCancelTime

Expiry == INSTANCE ExpiryReplay
          WITH Order <- {t, u}, Target <- t, MaxAttempts <- MaxRetries

-----------------------------------------------------------------------------
MCInit ==
    /\ part \in {"submission", "history", "expiry"}
    /\ Init
    /\ History!Init
    /\ Expiry!Init

SubmissionStep ==
    /\ part = "submission"
    /\ Next
    /\ UNCHANGED <<part, deliveries, cancel, watermark, events, release>>

HistoryStep ==
    /\ part = "history"
    /\ History!Next
    /\ UNCHANGED <<vars, part, watermark, events, release>>

ExpiryStep ==
    /\ part = "expiry"
    /\ Expiry!Next
    /\ UNCHANGED <<vars, part, deliveries, cancel>>

MCNext == SubmissionStep \/ HistoryStep \/ ExpiryStep

MCSpec == MCInit /\ [][MCNext]_<<vars, part, deliveries, cancel, watermark, events, release>>

-----------------------------------------------------------------------------
(* OrderHistory: which broker events are kept, and whether a conflict is    *)
(* reported, does not depend on the order of their delivery; the state the  *)
(* reducer returns is canonical and never overfilled; a rejection is the    *)
(* whole history of a rejected order; and every prefix of a history the     *)
(* reducer accepts is accepted.                                             *)
HistoryIsCanonical ==
    part = "history" =>
        /\ History!TypeOK
        /\ History!DeliveryOrderIrrelevant
        /\ History!RejectionIsWholeHistory
        /\ History!PrefixesStayCanonical

(* ExpiryReplay: the attempt histories an expiry release was written from   *)
(* are found again among the causally possible prefixes, in every later     *)
(* state.                                                                   *)
SnapshotIsFound == part = "expiry" => Expiry!TypeOK /\ Expiry!SnapshotIsFound
=============================================================================
