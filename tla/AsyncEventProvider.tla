------------------------- MODULE AsyncEventProvider -------------------------
(***************************************************************************)
(* Core/EventProvider.hpp, AsyncEventProvider: subscriptions as in         *)
(* EventProvider, but Fire only copies the handlers into m_TaskQueue; its  *)
(* workers call the copies later, with no lock, and the destructor stops   *)
(* the workers once the queue is empty.                                    *)
(*                                                                         *)
(* The threads of EventProvider are the callers and the workers; a worker  *)
(* uses the provider only from within a handler.  Tasks are numbered in    *)
(* the order of the queue.  m_QueueMutex is held across two steps only by  *)
(* a worker between its false predicate and its sleep ("park").  Only the  *)
(* overloads without an argument are modelled.                             *)
(***************************************************************************)
EXTENDS EventProvider

CONSTANT Workers        \* the threads of m_Workers

ASSUME AsyncWorkersAssumption == Workers \subseteq Threads

VARIABLES
    m_TaskQueue,    \* queued calls: [nr, id], oldest first
    m_Stop,
    wpc,            \* where each worker is
    task,           \* worker -> the call it makes, NoTask if none
    owner,          \* where the thread that owns the provider is
    enqueued,       \* number of tasks queued so far
    ran,            \* numbers of the tasks that have returned
    cutoff          \* history: id -> value of enqueued when its Unsub returned

asyncVars == <<m_TaskQueue, m_Stop, wpc, task, owner, enqueued, ran, cutoff>>
avars == <<evars, asyncVars>>

Callers == Threads \ Workers
NoTask == [nr |-> 0, id |-> 0]
Queued == {m_TaskQueue[k] : k \in DOMAIN m_TaskQueue}
Running == {task[w] : w \in Workers} \ {NoTask}

QueueMutexFree == \A w \in Workers : wpc[w] # "park"
Asleep == {w \in Workers : wpc[w] = "asleep"}

(* The threads that may use the provider now; the owner destroys it when   *)
(* no caller uses it any more.                                             *)
MayUse(t) == IF t \in Workers THEN wpc[t] = "task" ELSE owner = "up"

AsyncInit ==
    /\ EventInit
    /\ m_TaskQueue = << >>
    /\ m_Stop = FALSE
    /\ wpc = [w \in Workers |-> "unborn"]
    /\ task = [w \in Workers |-> NoTask]
    /\ owner = "ctor"
    /\ enqueued = 0 /\ ran = {}
    /\ cutoff = [i \in HandlerIDs |-> MaxFires * MaxIds]

-----------------------------------------------------------------------------
StartWorker(w) ==
    /\ owner = "ctor"
    /\ wpc[w] = "unborn"
    /\ wpc' = [wpc EXCEPT ![w] = "wait"]
    /\ UNCHANGED <<evars, m_TaskQueue, m_Stop, task, owner, enqueued, ran, cutoff>>

Constructed ==
    /\ owner = "ctor"
    /\ \A w \in Workers : wpc[w] # "unborn"
    /\ owner' = "up"
    /\ UNCHANGED <<evars, m_TaskQueue, m_Stop, wpc, task, enqueued, ran, cutoff>>

-----------------------------------------------------------------------------
Call(t) ==
    /\ MayUse(t)
    /\ CallSubscribe(t) \/ CallUnsub(t) \/ CallFire(t)
    /\ UNCHANGED asyncVars

Lock(t) == (Subscribe(t) \/ Fire(t)) /\ UNCHANGED asyncVars

Disconnected(t) ==
    /\ Unsub(t)
    /\ cutoff' = [cutoff EXCEPT ![target[t]] = enqueued]
    /\ UNCHANGED <<m_TaskQueue, m_Stop, wpc, task, owner, enqueued, ran>>

(* Enqueue([cb] { cb(); }), up to the unlock of m_QueueMutex.              *)
Enqueue(t) ==
    /\ InFireLoop(t)
    /\ QueueMutexFree
    /\ \E i \in Top(t).left :
          /\ m_TaskQueue' = Append(m_TaskQueue, [nr |-> enqueued + 1, id |-> i])
          /\ frames' = WithTop(t, [left |-> Top(t).left \ {i}, current |-> 0,
                                   called |-> Top(t).called \cup {i}])
    /\ enqueued' = enqueued + 1
    /\ pc' = [pc EXCEPT ![t] = "notify"]
    /\ UNCHANGED <<m_SimpleEvents, m_NextID, connections, target, fires,
                   m_Stop, wpc, task, owner, ran, cutoff>>

NotifyOne(t) ==
    /\ pc[t] = "notify"
    /\ pc' = [pc EXCEPT ![t] = "run"]
    /\ \/ Asleep = {} /\ UNCHANGED wpc
       \/ \E w \in Asleep : wpc' = [wpc EXCEPT ![w] = "wait"]
    /\ UNCHANGED <<m_SimpleEvents, m_NextID, connections, target, frames, fires,
                   m_TaskQueue, m_Stop, task, owner, enqueued, ran, cutoff>>

FireReturns(t) == FireEnd(t) /\ UNCHANGED asyncVars

-----------------------------------------------------------------------------
(* WorkerLoop.                                                             *)
Take(w) ==
    /\ wpc[w] = "wait"
    /\ QueueMutexFree
    /\ m_TaskQueue # << >>
    /\ task' = [task EXCEPT ![w] = Head(m_TaskQueue)]
    /\ m_TaskQueue' = Tail(m_TaskQueue)
    /\ wpc' = [wpc EXCEPT ![w] = "task"]
    /\ UNCHANGED <<evars, m_Stop, owner, enqueued, ran, cutoff>>

LeaveLoop(w) ==
    /\ wpc[w] = "wait"
    /\ QueueMutexFree
    /\ m_Stop
    /\ wpc' = [wpc EXCEPT ![w] = "exited"]
    /\ UNCHANGED <<evars, m_TaskQueue, m_Stop, task, owner, enqueued, ran, cutoff>>

(* if(m_Stop && m_TaskQueue.empty()) return;  LeaveLoop alone is the fault *)
(* if(m_Stop) return;                                                      *)
ReturnWhenDrained(w) == m_TaskQueue = << >> /\ LeaveLoop(w)

PredicateFalse(w) ==
    /\ wpc[w] = "wait"
    /\ QueueMutexFree
    /\ ~m_Stop /\ m_TaskQueue = << >>
    /\ wpc' = [wpc EXCEPT ![w] = "park"]
    /\ UNCHANGED <<evars, m_TaskQueue, m_Stop, task, owner, enqueued, ran, cutoff>>

Park(w) ==
    /\ wpc[w] = "park"
    /\ wpc' = [wpc EXCEPT ![w] = "asleep"]
    /\ UNCHANGED <<evars, m_TaskQueue, m_Stop, task, owner, enqueued, ran, cutoff>>

SpuriousWake(w) ==
    /\ wpc[w] = "asleep"
    /\ wpc' = [wpc EXCEPT ![w] = "wait"]
    /\ UNCHANGED <<evars, m_TaskQueue, m_Stop, task, owner, enqueued, ran, cutoff>>

(* task() returns: the handler is in none of the provider's functions.     *)
TaskReturns(w) ==
    /\ wpc[w] = "task"
    /\ pc[w] = "run" /\ frames[w] = << >>
    /\ ran' = ran \cup {task[w].nr}
    /\ task' = [task EXCEPT ![w] = NoTask]
    /\ wpc' = [wpc EXCEPT ![w] = "wait"]
    /\ UNCHANGED <<evars, m_TaskQueue, m_Stop, owner, enqueued, cutoff>>

-----------------------------------------------------------------------------
(* ~AsyncEventProvider: m_Stop = true;                                     *)
SetStopUnlocked ==
    /\ owner = "up"
    /\ \A t \in Callers : pc[t] = "run" /\ frames[t] = << >>
    /\ m_Stop' = TRUE
    /\ owner' = "stopped"
    /\ UNCHANGED <<evars, m_TaskQueue, wpc, task, enqueued, ran, cutoff>>

(* ... with m_QueueMutex held.  Without it, it is Stop of ThreadPool.      *)
SetStop == QueueMutexFree /\ SetStopUnlocked

NotifyAll ==
    /\ owner = "stopped"
    /\ wpc' = [w \in Workers |-> IF w \in Asleep THEN "wait" ELSE wpc[w]]
    /\ owner' = "joining"
    /\ UNCHANGED <<evars, m_TaskQueue, m_Stop, task, enqueued, ran, cutoff>>

JoinAll ==
    /\ owner = "joining"
    /\ \A w \in Workers : wpc[w] = "exited"
    /\ owner' = "down"
    /\ UNCHANGED <<evars, m_TaskQueue, m_Stop, wpc, task, enqueued, ran, cutoff>>

-----------------------------------------------------------------------------
WaitStep(w) == Take(w) \/ ReturnWhenDrained(w) \/ PredicateFalse(w)
ThreadGoesOn(t) == NotifyOne(t) \/ FireReturns(t)
ThreadLocks(t) == Lock(t) \/ Disconnected(t) \/ Enqueue(t)

AsyncNext ==
    \/ \E w \in Workers : StartWorker(w) \/ WaitStep(w) \/ Park(w)
    \/ \E w \in Workers : SpuriousWake(w) \/ TaskReturns(w)
    \/ \E t \in Threads : Call(t) \/ ThreadLocks(t) \/ ThreadGoesOn(t)
    \/ Constructed \/ SetStop \/ NotifyAll \/ JoinAll

-----------------------------------------------------------------------------
(* The destructor returns with every queued call made, also those that     *)
(* handlers have fired while it waited; nothing a Fire has queued is lost. *)
AllTasksRun ==
    /\ owner = "down" => ran = 1 .. enqueued
    /\ 1 .. enqueued = ran \cup {e.nr : e \in Queued \cup Running}

(* A handler can still be called after its Disconnect has returned, but    *)
(* only by a task that was queued before.                                  *)
DisconnectCutsOff ==
    \A e \in Queued \cup Running :
        e.id \notin m_SimpleEvents => e.nr <= cutoff[e.id]

(* The destructor returns: as m_Stop is set with m_QueueMutex held, no     *)
(* worker can miss it, and as no lock is held while a handler runs, no     *)
(* handler that uses the provider blocks.                                  *)
DestructorReturns == m_Stop ~> owner = "down"
=============================================================================
