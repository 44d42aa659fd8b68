------------------------ MODULE MCAccountCoordinator ------------------------
(* Three coordinator processes; p1 and p2 present the same owner id, as a   *)
(* restarted process and its predecessor do.                                *)
EXTENDS AccountCoordinator, TLC

CONSTANTS p1, p2, p3, o1, o2

MCOwnerOf == (p1 :> o1) @@ (p2 :> o1) @@ (p3 :> o2)
=============================================================================
