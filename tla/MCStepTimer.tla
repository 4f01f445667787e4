---------------------------- MODULE MCStepTimer ----------------------------
(* Instances of StepTimer for TLC. *)
EXTENDS StepTimer

(* A negative target, none, and two that a delta holds. *)
AnyTargets == {-1, 0, 1, 2}
=============================================================================
