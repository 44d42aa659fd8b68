----------------------- MODULE MCReservationLifecycle -----------------------
(* A batch of two orders for two shares.                                    *)
EXTENDS ReservationLifecycle

CONSTANTS a1, a2, x1, x2

Symmetry == Permutations({a1, a2}) \union Permutations({x1, x2})
=============================================================================
