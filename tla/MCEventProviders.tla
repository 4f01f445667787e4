-------------------------- MODULE MCEventProviders --------------------------
(* Instances of EventProviders for TLC. *)
EXTENDS EventProviders

CONSTANTS t1, w1, w2
=============================================================================
