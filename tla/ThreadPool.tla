----------------------------- MODULE ThreadPool -----------------------------
(***************************************************************************)
(* Core/ThreadPool.hpp: a fixed set of worker threads that take tasks from *)
(* a FIFO queue under m_mutex and wait on m_cv, and a destructor that sets *)
(* the atomic m_done WITHOUT m_mutex, notifies and joins.                  *)
(*                                                                         *)
(* A step ends wherever another thread can observe or change something:    *)
(* at an atomic access, at the mutex, at the condition variable.  m_mutex  *)
(* is held across two steps in one place only, between a false wait        *)
(* predicate and the sleep it leads to (pc = "park"); everywhere else its  *)
(* critical section is a single step.  Tasks are numbered as submitted.    *)
(***************************************************************************)
EXTENDS Naturals, Sequences, FiniteSets, Functions

CONSTANTS
    Workers,    \* the threads of m_threads
    Clients,    \* threads outside the pool that call Submit
    MaxTasks    \* bound: tasks submitted in the pool's life

ASSUME WorkersAssumption == IsFiniteSet(Workers)
ASSUME ClientsAssumption == IsFiniteSet(Clients) /\ Workers \cap Clients = {}
ASSUME MaxTasksAssumption == MaxTasks \in Nat

VARIABLES
    m_tasks,    \* queued task numbers, oldest first
    m_done,     \* the atomic flag
    pc,         \* where each thread is
    task,       \* worker -> the task it runs, 0 if none
    submitted,  \* number of tasks pushed so far
    ready,      \* tasks that ran: their future holds a result
    broken,     \* tasks destroyed unrun: their future holds broken_promise
    owner,      \* where the thread that constructs and destroys the pool is
    late        \* history: worker -> tasks it took after m_done was set

vars == <<m_tasks, m_done, pc, task, submitted, ready, broken, owner, late>>

Threads == Workers \cup Clients
TaskIds == 1 .. MaxTasks

WorkerPc == {"unborn", "loop", "acquire", "park", "asleep", "run", "notify",
             "exited"}
ClientPc == {"idle", "notify"}

(* The owner is constructing the pool, using it, past m_done.store, past   *)
(* notify_all, done; "failed": std::thread threw while the pool was built. *)
OwnerStates == {"ctor", "up", "stored", "joining", "down", "failed"}

MutexFree == \A w \in Workers : pc[w] # "park"
Asleep == {w \in Workers : pc[w] = "asleep"}
RunningTasks == {task[w] : w \in Workers} \ {0}
Started == submitted - Len(m_tasks) - Cardinality(broken)

Init ==
    /\ m_tasks = << >>
    /\ m_done = FALSE
    /\ pc = [t \in Threads |-> IF t \in Workers THEN "unborn" ELSE "idle"]
    /\ task = [w \in Workers |-> 0]
    /\ submitted = 0
    /\ ready = {} /\ broken = {}
    /\ owner = "ctor"
    /\ late = [w \in Workers |-> 0]

-----------------------------------------------------------------------------
(* Constructor: Start spawns the threads one by one; those already spawned *)
(* run while it goes on.                                                   *)
StartThread(w) ==
    /\ owner = "ctor"
    /\ pc[w] = "unborn"
    /\ pc' = [pc EXCEPT ![w] = "loop"]
    /\ UNCHANGED <<m_tasks, m_done, task, submitted, ready, broken, owner, late>>

StartDone ==
    /\ owner = "ctor"
    /\ \A w \in Workers : pc[w] # "unborn"
    /\ owner' = "up"
    /\ UNCHANGED <<m_tasks, m_done, pc, task, submitted, ready, broken, late>>

(* std::thread's constructor throws.  With a thread already joinable the   *)
(* unwinding of m_threads calls std::terminate; with none the exception    *)
(* just leaves the constructor.  Either way no thread is left.             *)
StartThrows ==
    /\ owner = "ctor"
    /\ \E w \in Workers : pc[w] = "unborn"
    /\ owner' = "failed"
    /\ pc' = [t \in Threads |-> IF t \in Workers THEN "exited" ELSE pc[t]]
    /\ UNCHANGED <<m_tasks, m_done, task, submitted, ready, broken, late>>

(* m_tasks.emplace of the packaged task.                                   *)
Enqueue ==
    /\ submitted < MaxTasks
    /\ m_tasks' = Append(m_tasks, submitted + 1)
    /\ submitted' = submitted + 1
    /\ UNCHANGED <<m_done, task, ready, broken, owner, late>>

(* Submit holds m_mutex for it; notify_one is a step of its own, after the *)
(* unlock.                                                                 *)
Push == MutexFree /\ Enqueue

(* Fault: the notify_one of line 67 is missing. *)
SubmitSilent(c) ==
    /\ owner = "up"
    /\ pc[c] = "idle"
    /\ Push
    /\ UNCHANGED pc

(* A thread outside the pool submits, while the pool is alive.             *)
Submit(c) ==
    /\ owner = "up"
    /\ pc[c] = "idle"
    /\ Push
    /\ pc' = [pc EXCEPT ![c] = "notify"]

(* A running task submits another one; nothing stops it during Stop.       *)
SubmitFromTask(w) ==
    /\ pc[w] = "run"
    /\ Push
    /\ pc' = [pc EXCEPT ![w] = "notify"]

AfterSubmit(t) == IF t \in Workers THEN "run" ELSE "idle"

(* m_cv.notify_one: wakes one of the sleepers, or nobody.                  *)
NotifyOne(t) ==
    /\ pc[t] = "notify"
    /\ \/ /\ Asleep = {}
          /\ pc' = [pc EXCEPT ![t] = AfterSubmit(t)]
       \/ \E w \in Asleep :
             pc' = [pc EXCEPT ![t] = AfterSubmit(t), ![w] = "acquire"]
    /\ UNCHANGED <<m_tasks, m_done, task, submitted, ready, broken, owner, late>>

-----------------------------------------------------------------------------
(* The worker's loop.                                                      *)

(* Fault: while(true), leaving the exit to the test of line 104. *)
LoopForever(w) ==
    /\ pc[w] = "loop"
    /\ pc' = [pc EXCEPT ![w] = "acquire"]
    /\ UNCHANGED <<m_tasks, m_done, task, submitted, ready, broken, owner, late>>

(* while(!m_done.load())                                                   *)
LoopTest(w) ==
    /\ pc[w] = "loop"
    /\ pc' = [pc EXCEPT ![w] = IF m_done THEN "exited" ELSE "acquire"]
    /\ UNCHANGED <<m_tasks, m_done, task, submitted, ready, broken, owner, late>>

(* With m_mutex held the predicate is true: task i leaves the queue.       *)
TakeWith(w, i, remaining) ==
    /\ pc[w] = "acquire"
    /\ MutexFree
    /\ m_tasks # << >>
    /\ task' = [task EXCEPT ![w] = i]
    /\ m_tasks' = remaining
    /\ pc' = [pc EXCEPT ![w] = "run"]
    /\ late' = [late EXCEPT ![w] = IF m_done THEN @ + 1 ELSE @]
    /\ UNCHANGED <<m_done, submitted, ready, broken, owner>>

(* Fault: the pop of line 108 is missing. *)
TakeWithoutPop(w) == TakeWith(w, Head(m_tasks), m_tasks)

(* Fault: a stack in place of the queue. *)
TakeNewest(w) ==
    TakeWith(w, m_tasks[Len(m_tasks)], SubSeq(m_tasks, 1, Len(m_tasks) - 1))

(* task = std::move(m_tasks.front()); m_tasks.pop();                       *)
TakeTask(w) == TakeWith(w, Head(m_tasks), Tail(m_tasks))

(* if(m_done && m_tasks.empty()) return;                                   *)
ReturnEmpty(w) ==
    /\ pc[w] = "acquire"
    /\ MutexFree
    /\ m_done
    /\ m_tasks = << >>
    /\ pc' = [pc EXCEPT ![w] = "exited"]
    /\ UNCHANGED <<m_tasks, m_done, task, submitted, ready, broken, owner, late>>

(* The worker will sleep, with m_mutex held until it does.                 *)
GoToSleep(w) ==
    /\ pc[w] = "acquire"
    /\ MutexFree
    /\ m_tasks = << >>
    /\ pc' = [pc EXCEPT ![w] = "park"]
    /\ UNCHANGED <<m_tasks, m_done, task, submitted, ready, broken, owner, late>>

(* The predicate of the wait is false: not done, and no task.              *)
PredicateFalse(w) == ~m_done /\ GoToSleep(w)

(* The wait releases m_mutex and sleeps, in one atomic step.               *)
Park(w) ==
    /\ pc[w] = "park"
    /\ pc' = [pc EXCEPT ![w] = "asleep"]
    /\ UNCHANGED <<m_tasks, m_done, task, submitted, ready, broken, owner, late>>

(* A condition variable may wake a thread nobody notified.                 *)
SpuriousWake(w) ==
    /\ pc[w] = "asleep"
    /\ pc' = [pc EXCEPT ![w] = "acquire"]
    /\ UNCHANGED <<m_tasks, m_done, task, submitted, ready, broken, owner, late>>

(* task() returns, its packaged_task having settled the future.            *)
FinishTask(w) ==
    /\ pc[w] = "run"
    /\ ready' = ready \cup {task[w]}
    /\ task' = [task EXCEPT ![w] = 0]
    /\ pc' = [pc EXCEPT ![w] = "loop"]
    /\ UNCHANGED <<m_tasks, m_done, submitted, broken, owner, late>>

-----------------------------------------------------------------------------
(* Stop, called by the destructor: no other thread may still be in Submit. *)
StoreDone ==
    /\ owner = "up"
    /\ \A c \in Clients : pc[c] = "idle"
    /\ m_done' = TRUE
    /\ owner' = "stored"
    /\ UNCHANGED <<m_tasks, pc, task, submitted, ready, broken, late>>

NotifyAll ==
    /\ owner = "stored"
    /\ pc' = [t \in Threads |-> IF t \in Asleep THEN "acquire" ELSE pc[t]]
    /\ owner' = "joining"
    /\ UNCHANGED <<m_tasks, m_done, task, submitted, ready, broken, late>>

(* The queue is destroyed with what it still holds, which breaks the       *)
(* promises of those tasks.                                                *)
DestroyQueue ==
    /\ owner = "joining"
    /\ owner' = "down"
    /\ broken' = broken \cup Range(m_tasks)
    /\ m_tasks' = << >>
    /\ UNCHANGED <<m_done, pc, task, submitted, ready, late>>

(* Fault: the loop of line 132 stops after one join. *)
JoinOne == (\E w \in Workers : pc[w] = "exited") /\ DestroyQueue

(* Every join has returned.                                                *)
JoinAndDestroy == (\A w \in Workers : pc[w] = "exited") /\ DestroyQueue

-----------------------------------------------------------------------------
AcquireStep(w) == TakeTask(w) \/ ReturnEmpty(w) \/ PredicateFalse(w)

WorkerStep(w) ==
    \/ LoopTest(w)
    \/ AcquireStep(w)
    \/ Park(w)
    \/ FinishTask(w)

OwnerStep == StartDone \/ StoreDone \/ NotifyAll \/ JoinAndDestroy

Next ==
    \/ \E w \in Workers : StartThread(w)
    \/ StartThrows
    \/ \E c \in Clients : Submit(c)
    \/ \E w \in Workers : SubmitFromTask(w)
    \/ \E t \in Threads : NotifyOne(t)
    \/ \E w \in Workers : WorkerStep(w)
    \/ \E w \in Workers : SpuriousWake(w)
    \/ OwnerStep

Spec == Init /\ [][Next]_vars

(* A thread that can go on does; a thread that waits for m_mutex gets it   *)
(* in the end; tasks return.  Nobody has to submit or to destroy the pool, *)
(* and no spurious wake-up ever has to happen.                             *)
Fairness ==
    /\ \A w \in Workers :
          /\ WF_vars(LoopTest(w)) /\ WF_vars(Park(w)) /\ WF_vars(FinishTask(w))
          /\ SF_vars(AcquireStep(w))
    /\ \A t \in Threads : WF_vars(NotifyOne(t))
    /\ WF_vars(NotifyAll) /\ WF_vars(JoinAndDestroy)

FairSpec == Spec /\ Fairness

-----------------------------------------------------------------------------
(* Properties.                                                             *)

(* The type invariant of the pool's state.                                 *)
TypeOK ==
    /\ m_tasks \in Seq(TaskIds)
    /\ m_done \in BOOLEAN
    /\ pc \in [Threads -> WorkerPc \cup ClientPc]
    /\ \A w \in Workers : pc[w] \in WorkerPc
    /\ \A c \in Clients : pc[c] \in ClientPc
    /\ task \in [Workers -> TaskIds \cup {0}]
    /\ submitted \in 0 .. MaxTasks
    /\ ready \subseteq TaskIds
    /\ broken \subseteq TaskIds
    /\ owner \in OwnerStates
    /\ late \in [Workers -> Nat]

(* A worker has a task exactly while it is inside line 111.                *)
RunsATask == \A w \in Workers : pc[w] \in {"run", "notify"} <=> task[w] # 0

(* Workers that start while the constructor runs find nothing to do.       *)
NoTaskBeforeUp ==
    owner = "ctor" => m_tasks = << >> /\ \A w \in Workers : task[w] = 0

(* Submit notifies after it has unlocked m_mutex.  Yet while the pool is   *)
(* not being stopped and a worker sleeps, there is for every queued task a *)
(* thread that is about to look at the queue or to wake a sleeper: the     *)
(* late notification and the wait predicate together lose no wake-up.      *)
OnTheWay == {t \in Threads : pc[t] \in {"loop", "acquire", "notify"}}
NoLostWakeup ==
    (~m_done /\ Asleep # {}) => Len(m_tasks) <= Cardinality(OnTheWay)

(* The queue holds the last submitted tasks, in submission order.          *)
QueueInOrder ==
    \A i \in 1 .. Len(m_tasks) : m_tasks[i] = submitted - Len(m_tasks) + i

(* Every task submitted so far is in exactly one place: queued, run by     *)
(* exactly one worker, or settled; so none is run twice and none is lost   *)
(* between Submit, the workers and the destructor.                         *)
EveryTaskInOnePlace ==
    /\ \A v, w \in Workers : v # w /\ task[v] # 0 => task[v] # task[w]
    /\ 1 .. submitted = Range(m_tasks) \cup RunningTasks \cup ready \cup broken
    /\ Range(m_tasks) \cap (RunningTasks \cup ready \cup broken) = {}
    /\ RunningTasks \cap (ready \cup broken) = {}
    /\ ready \cap broken = {}

(* While m_mutex is held across a step the queue stays empty.              *)
ParkedOnEmptyQueue == (\E w \in Workers : pc[w] = "park") => m_tasks = << >>

(* Once m_done is set a worker starts at most one more task, however long  *)
(* the queue is: the loop condition of line 96, not the emptiness test of  *)
(* line 104, ends it.                                                      *)
AtMostOneLateTask == \A w \in Workers : late[w] <= 1

(* ... because a worker that has not yet seen m_done has taken none.       *)
LateTaskIsLast ==
    \A w \in Workers :
        /\ ~m_done => late[w] = 0
        /\ pc[w] \in {"acquire", "park", "asleep"} => late[w] = 0

(* m_done follows the owner; the owner gets past its joins only when all   *)
(* workers have left, and only destroying the queue breaks promises.       *)
OwnerInv ==
    /\ m_done <=> owner \in {"stored", "joining", "down"}
    /\ owner = "down" => m_tasks = << >> /\ \A w \in Workers : pc[w] = "exited"
    /\ owner # "down" => broken = {}

(* When the destructor has returned every future is settled, also those of *)
(* tasks that running tasks submitted while Stop was joining.              *)
FuturesSettled ==
    owner = "down" => (ready \cup broken = 1 .. submitted /\ RunningTasks = {})

(* The inductive invariant the proofs use.                                 *)
PoolInv ==
    /\ TypeOK
    /\ RunsATask
    /\ NoTaskBeforeUp
    /\ ParkedOnEmptyQueue
    /\ NoLostWakeup
    /\ QueueInOrder
    /\ EveryTaskInOnePlace
    /\ AtMostOneLateTask
    /\ LateTaskIsLast
    /\ OwnerInv

(* The pool implements the executor its users are promised.                *)
Executor == INSTANCE TaskExecutor WITH
    accepted <- submitted, started <- Started, running <- RunningTasks,
    abandoned <- broken, open <- owner # "down"
ImplementsTaskExecutor == Executor!Spec

(* A queued task starts, unless the pool is destroyed first.               *)
QueuedTaskStarts ==
    \A i \in TaskIds :
        i \in Range(m_tasks) ~> (i \notin Range(m_tasks) \/ m_done)

(* A worker that sleeps, or is about to, cannot miss a Stop for any other  *)
(* reason than being between its predicate and its sleep when m_cv was     *)
(* notified: if none is there once notify_all returns, ~ThreadPool does.   *)
StopReturnsUnlessParked ==
    (owner = "joining" /\ \A w \in Workers : pc[w] \notin {"park", "asleep"})
        ~> owner = "down"

(* Line 34: "Destroy the Thread Pool, waits for all threads to finish."    *)
(* and line 121, "Wakes any threads waiting for tasks.": the destructor    *)
(* returns.                                                                *)
StopReturns == m_done ~> owner = "down"
=============================================================================
