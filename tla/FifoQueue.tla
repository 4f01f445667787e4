----------------------------- MODULE FifoQueue ------------------------------
(***************************************************************************)
(* An unbounded first-in first-out queue shared by any number of threads:  *)
(* what is taken is what was put, in the same order, each item once.       *)
(***************************************************************************)
EXTENDS Naturals, Sequences

CONSTANT Items

VARIABLES
    put,    \* all items ever put, in order
    taken   \* all items ever taken, in order

Init == put = << >> /\ taken = << >>

Put == \E i \in Items : put' = Append(put, i) /\ UNCHANGED taken

Take ==
    /\ Len(taken) < Len(put)
    /\ taken' = Append(taken, put[Len(taken) + 1])
    /\ UNCHANGED put

Spec == Init /\ [][Put \/ Take]_<<put, taken>>
=============================================================================
