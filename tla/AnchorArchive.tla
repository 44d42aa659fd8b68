---------------------------- MODULE AnchorArchive ----------------------------
(***************************************************************************)
(* What the head-anchor protocol promises the reader of the remote         *)
(* archive: a write-once list of checkpoints of the local journal.  Each   *)
(* checkpoint names a later local head than the one before it, nothing is  *)
(* ever replaced or removed, and a successor is stored only after its      *)
(* predecessor has been acknowledged by a durable receipt.                 *)
(***************************************************************************)
EXTENDS Naturals, Sequences

CONSTANT Heads        \* the ordinals of the local journal

VARIABLES archive,        \* the stored checkpoints, by anchor sequence
          acknowledged    \* how many of them have a receipt

vars == << archive, acknowledged >>

Init == archive = << >> /\ acknowledged = 0

\* Store the next checkpoint; the previous one is acknowledged.
Store(h) ==
  /\ acknowledged = Len(archive)
  /\ archive = << >> \/ archive[Len(archive)] < h
  /\ archive' = Append(archive, h)
  /\ UNCHANGED acknowledged

\* Acknowledge the newest checkpoint.
Acknowledge ==
  /\ acknowledged < Len(archive)
  /\ acknowledged' = acknowledged + 1
  /\ UNCHANGED archive

Next == Acknowledge \/ \E h \in Heads : Store(h)

Spec == Init /\ [][Next]_vars
=============================================================================
