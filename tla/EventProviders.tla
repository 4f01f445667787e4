--------------------------- MODULE EventProviders ---------------------------
(***************************************************************************)
(* The two providers of Core/EventProvider.hpp side by side: a program     *)
(* chooses EventProvider or AsyncEventProvider, and what both promise is   *)
(* stated once.  In the first all Threads are callers and the workers'     *)
(* variables stay as they are.                                             *)
(***************************************************************************)
EXTENDS AsyncEventProvider

CONSTANT MaxAsyncFires     \* bound: calls of the asynchronous Fire

VARIABLE kind   \* which of the two the program uses: "sync" or "async"

vars == <<avars, kind>>

Init == AsyncInit /\ kind \in {"sync", "async"}

Sync(A) == kind = "sync" /\ A /\ UNCHANGED <<asyncVars, kind>>
Async(A) == kind = "async" /\ A /\ fires' <= MaxAsyncFires /\ UNCHANGED kind

Next == Sync(EventNext) \/ Async(AsyncNext)

(* What a thread does next without a lock, and with one. *)
GoesOn(t) ==
    \/ Sync(FireGoesOn(t)) \/ Async(ThreadGoesOn(t))
    \/ t \in Workers /\ Async(Park(t) \/ TaskReturns(t))

GetsLock(t) ==
    \/ Sync(Locks(t)) \/ Async(ThreadLocks(t))
    \/ t \in Workers /\ Async(WaitStep(t))

(* Threads go on and handlers return; a lock that is free again and again  *)
(* is granted.                                                             *)
Fairness ==
    /\ \A t \in Threads : WF_vars(GoesOn(t)) /\ SF_vars(GetsLock(t))
    /\ WF_vars(Async(NotifyAll \/ JoinAll))

Spec == Init /\ [][Next]_vars /\ Fairness
=============================================================================
