-------------------------- MODULE MCClientProgram --------------------------
(* Instances of ClientProgram for TLC. *)
EXTENDS ClientProgram

CONSTANTS kbd, mouse
=============================================================================
