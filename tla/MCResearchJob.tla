--------------------------- MODULE MCResearchJob ---------------------------
(* One job, two hosts that may take it over from one another, and one key   *)
(* under which its owner may cancel it.                                     *)
EXTENDS ResearchJob

CONSTANTS h1, h2, j1, k1
=============================================================================
