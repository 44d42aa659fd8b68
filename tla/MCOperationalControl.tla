------------------------ MODULE MCOperationalControl ------------------------
(* Keys of one kind are interchangeable, and so are callers.                *)
EXTENDS OperationalControl, TLC

CONSTANTS c1, c2, o1, o2, o3, o4

CallSymmetry == Permutations({c1, c2}) \union Permutations({o1, o2, o3, o4})
=============================================================================
