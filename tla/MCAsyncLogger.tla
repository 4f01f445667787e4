--------------------------- MODULE MCAsyncLogger ----------------------------
(* Instances of AsyncLogger for TLC. *)
EXTENDS AsyncLogger

CONSTANTS w1, w2, c1, c2
=============================================================================
