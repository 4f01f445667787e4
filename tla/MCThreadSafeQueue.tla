------------------------- MODULE MCThreadSafeQueue --------------------------
(* Instances of ThreadSafeQueue for TLC. *)
EXTENDS ThreadSafeQueue

CONSTANTS p1, p2, c1, c2
=============================================================================
