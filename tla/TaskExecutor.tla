---------------------------- MODULE TaskExecutor ----------------------------
(***************************************************************************)
(* What a thread pool promises to the code that submits tasks to it: tasks *)
(* are numbered in the order they are accepted, start in that order, each  *)
(* at most once.  It may give up the tasks that have not started only when *)
(* it closes, and only after every started task has finished.              *)
(***************************************************************************)
EXTENDS Naturals

VARIABLES
    accepted,   \* number of tasks accepted so far
    started,    \* number of tasks started so far: tasks 1..started
    running,    \* tasks being run
    ready,      \* tasks whose future holds a result
    abandoned,  \* tasks whose future holds broken_promise
    open        \* FALSE once the executor is destroyed

vars == <<accepted, started, running, ready, abandoned, open>>

Init ==
    /\ accepted = 0 /\ started = 0
    /\ running = {} /\ ready = {} /\ abandoned = {}
    /\ open = TRUE

Accept ==
    /\ open
    /\ accepted' = accepted + 1
    /\ UNCHANGED <<started, running, ready, abandoned, open>>

Begin ==
    /\ open
    /\ started < accepted
    /\ started' = started + 1
    /\ running' = running \cup {started + 1}
    /\ UNCHANGED <<accepted, ready, abandoned, open>>

Finish(i) ==
    /\ i \in running
    /\ running' = running \ {i}
    /\ ready' = ready \cup {i}
    /\ UNCHANGED <<accepted, started, abandoned, open>>

Close ==
    /\ open
    /\ running = {}
    /\ open' = FALSE
    /\ abandoned' = (started + 1) .. accepted
    /\ UNCHANGED <<accepted, started, running, ready>>

Next == Accept \/ Begin \/ (\E i \in running : Finish(i)) \/ Close

Spec == Init /\ [][Next]_vars
=============================================================================
