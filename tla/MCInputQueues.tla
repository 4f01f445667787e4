--------------------------- MODULE MCInputQueues ----------------------------
(* Instances of InputQueues for TLC. *)
EXTENDS InputQueues, TLC

CONSTANTS k1, f10, b1, b2

ButtonSymmetry == Permutations({b1, b2})
=============================================================================
