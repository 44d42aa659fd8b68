------------------------- MODULE MCHeadAnchorWorker -------------------------
(* The supervisor's thread and the background thread of the worker.         *)
EXTENDS HeadAnchorWorker
=============================================================================
