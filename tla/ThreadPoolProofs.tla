-------------------------- MODULE ThreadPoolProofs --------------------------
(***************************************************************************)
(* Proofs about ThreadPool and the AsyncLogger built on it, for any finite *)
(* set of workers and clients and any number of tasks.                     *)
(***************************************************************************)
EXTENDS AsyncLogger, FiniteSetTheorems, SequenceTheorems, TLAPS

ConstantFacts == WorkersAssumption /\ ClientsAssumption /\ MaxTasksAssumption

LEMMA ConstantsHold == ConstantFacts
BY WorkersAssumption, ClientsAssumption, MaxTasksAssumption DEF ConstantFacts

-----------------------------------------------------------------------------
(* Every reachable state of the pool has the declared types. *)

LEMMA TypeInit == Init => TypeOK /\ RunsATask /\ NoTaskBeforeUp
<1> SUFFICES ASSUME Init PROVE TypeOK /\ RunsATask /\ NoTaskBeforeUp
  OBVIOUS
<1>1. m_tasks \in Seq(TaskIds)
  BY DEF Init
<1>2. \A w \in Workers : w \in Threads /\ pc[w] = "unborn"
  BY DEF Init, Threads
<1>3. \A c \in Clients : c \in Threads /\ pc[c] = "idle"
  BY ClientsAssumption DEF Init, Threads
<1>4. pc \in [Threads -> WorkerPc \cup ClientPc]
  BY DEF Init, WorkerPc, ClientPc
<1>5. task \in [Workers -> TaskIds \cup {0}] /\ late \in [Workers -> Nat]
  BY DEF Init
<1>6. submitted \in 0 .. MaxTasks
  BY MaxTasksAssumption DEF Init
<1>7. RunsATask /\ NoTaskBeforeUp
  BY <1>2 DEF Init, RunsATask, NoTaskBeforeUp
<1> QED
  BY <1>1, <1>2, <1>3, <1>4, <1>5, <1>6, <1>7
  DEF Init, TypeOK, WorkerPc, ClientPc, OwnerStates

LEMMA TypeStep == TypeOK /\ RunsATask /\ [Next]_vars => TypeOK'
<1> SUFFICES ASSUME TypeOK, RunsATask, [Next]_vars PROVE TypeOK'
  OBVIOUS
<1> USE MaxTasksAssumption, ClientsAssumption DEF Threads, WorkerPc, ClientPc, TaskIds, OwnerStates
<1>0. Push => /\ m_tasks' \in Seq(TaskIds)
              /\ submitted' \in 0 .. MaxTasks
  <2> SUFFICES ASSUME Push PROVE m_tasks' \in Seq(TaskIds) /\ submitted' \in 0 .. MaxTasks
    OBVIOUS
  <2>1. submitted + 1 \in TaskIds /\ submitted' \in 0 .. MaxTasks
    BY DEF Push, Enqueue, TypeOK
  <2>2. m_tasks' \in Seq(TaskIds)
    BY <2>1, AppendProperties DEF Push, Enqueue, TypeOK
  <2> QED BY <2>1, <2>2
<1>1. ASSUME NEW w \in Workers, StartThread(w) PROVE TypeOK'
  BY <1>1 DEF StartThread, TypeOK
<1>2. CASE StartThrows
  BY <1>2 DEF StartThrows, TypeOK
<1>3. ASSUME NEW c \in Clients, Submit(c) PROVE TypeOK'
  BY <1>3, <1>0 DEF Submit, Push, Enqueue, TypeOK
<1>4. ASSUME NEW w \in Workers, SubmitFromTask(w) PROVE TypeOK'
  BY <1>4, <1>0 DEF SubmitFromTask, Push, Enqueue, TypeOK
<1>5. ASSUME NEW t \in Threads, NotifyOne(t) PROVE TypeOK'
  BY <1>5 DEF NotifyOne, AfterSubmit, Asleep, TypeOK
<1>6. ASSUME NEW w \in Workers, LoopTest(w) PROVE TypeOK'
  BY <1>6 DEF LoopTest, TypeOK
<1>7. ASSUME NEW w \in Workers, TakeTask(w) PROVE TypeOK'
  <2>1. m_tasks' \in Seq(TaskIds) /\ Head(m_tasks) \in TaskIds
    BY <1>7, HeadTailProperties DEF TakeTask, TakeWith, TypeOK
  <2> QED BY <1>7, <2>1 DEF TakeTask, TakeWith, TypeOK
<1>8. ASSUME NEW w \in Workers, ReturnEmpty(w) PROVE TypeOK'
  BY <1>8 DEF ReturnEmpty, TypeOK
<1>9. ASSUME NEW w \in Workers, PredicateFalse(w) PROVE TypeOK'
  BY <1>9 DEF PredicateFalse, GoToSleep, TypeOK
<1>10. ASSUME NEW w \in Workers, Park(w) PROVE TypeOK'
  BY <1>10 DEF Park, TypeOK
<1>11. ASSUME NEW w \in Workers, SpuriousWake(w) PROVE TypeOK'
  BY <1>11 DEF SpuriousWake, TypeOK
<1>12. ASSUME NEW w \in Workers, FinishTask(w) PROVE TypeOK'
  <2>1. task[w] \in TaskIds
    BY <1>12 DEF FinishTask, RunsATask, TypeOK
  <2> QED BY <1>12, <2>1 DEF FinishTask, TypeOK
<1>13. CASE StartDone
  BY <1>13 DEF StartDone, TypeOK
<1>14. CASE StoreDone
  BY <1>14 DEF StoreDone, TypeOK
<1>15. CASE NotifyAll
  BY <1>15 DEF NotifyAll, Asleep, TypeOK
<1>16. CASE JoinAndDestroy
  <2>1. Range(m_tasks) \subseteq TaskIds /\ << >> \in Seq(TaskIds)
    BY DEF TypeOK, Range
  <2> QED BY <1>16, <2>1 DEF JoinAndDestroy, DestroyQueue, TypeOK
<1>17. CASE UNCHANGED vars
  BY <1>17 DEF vars, TypeOK
<1> QED
  BY <1>1, <1>2, <1>3, <1>4, <1>5, <1>6, <1>7, <1>8, <1>9, <1>10, <1>11,
     <1>12, <1>13, <1>14, <1>15, <1>16, <1>17
  DEF Next, WorkerStep, AcquireStep, OwnerStep

(* A worker has a task exactly while it runs one. *)
LEMMA RunsATaskStep ==
    TypeOK /\ RunsATask /\ NoTaskBeforeUp /\ [Next]_vars
        => RunsATask' /\ NoTaskBeforeUp'
<1> SUFFICES ASSUME TypeOK, RunsATask, NoTaskBeforeUp, [Next]_vars PROVE RunsATask' /\ NoTaskBeforeUp'
  OBVIOUS
<1> USE DEF RunsATask, NoTaskBeforeUp, TypeOK, Threads
<1>1. ASSUME NEW w \in Workers, StartThread(w) PROVE RunsATask' /\ NoTaskBeforeUp'
  BY <1>1 DEF StartThread
<1>2. CASE StartThrows
  BY <1>2 DEF StartThrows
<1>3. ASSUME NEW c \in Clients, Submit(c) PROVE RunsATask' /\ NoTaskBeforeUp'
  BY <1>3, ClientsAssumption DEF Submit, Push, Enqueue
<1>4. ASSUME NEW w \in Workers, SubmitFromTask(w) PROVE RunsATask' /\ NoTaskBeforeUp'
  BY <1>4 DEF SubmitFromTask, Push, Enqueue
<1>5. ASSUME NEW t \in Threads, NotifyOne(t) PROVE RunsATask' /\ NoTaskBeforeUp'
  BY <1>5, ClientsAssumption DEF NotifyOne, AfterSubmit, Asleep
<1>6. ASSUME NEW w \in Workers, LoopTest(w) PROVE RunsATask' /\ NoTaskBeforeUp'
  BY <1>6 DEF LoopTest
<1>7. ASSUME NEW w \in Workers, TakeTask(w) PROVE RunsATask' /\ NoTaskBeforeUp'
  <2>1. Head(m_tasks) # 0
    BY <1>7, HeadTailProperties, MaxTasksAssumption DEF TakeTask, TakeWith, TaskIds
  <2> QED BY <1>7, <2>1 DEF TakeTask, TakeWith
<1>8. ASSUME NEW w \in Workers, ReturnEmpty(w) PROVE RunsATask' /\ NoTaskBeforeUp'
  BY <1>8 DEF ReturnEmpty
<1>9. ASSUME NEW w \in Workers, PredicateFalse(w) PROVE RunsATask' /\ NoTaskBeforeUp'
  BY <1>9 DEF PredicateFalse, GoToSleep
<1>10. ASSUME NEW w \in Workers, Park(w) PROVE RunsATask' /\ NoTaskBeforeUp'
  BY <1>10 DEF Park
<1>11. ASSUME NEW w \in Workers, SpuriousWake(w) PROVE RunsATask' /\ NoTaskBeforeUp'
  BY <1>11 DEF SpuriousWake
<1>12. ASSUME NEW w \in Workers, FinishTask(w) PROVE RunsATask' /\ NoTaskBeforeUp'
  BY <1>12 DEF FinishTask
<1>13. CASE OwnerStep
  BY <1>13 DEF OwnerStep, StartDone, StoreDone, NotifyAll, JoinAndDestroy, DestroyQueue, Asleep
<1>14. CASE UNCHANGED vars
  BY <1>14 DEF vars
<1> QED
  BY <1>1, <1>2, <1>3, <1>4, <1>5, <1>6, <1>7, <1>8, <1>9, <1>10, <1>11,
     <1>12, <1>13, <1>14
  DEF Next, WorkerStep, AcquireStep

-----------------------------------------------------------------------------
(* No wake-up is lost. *)

LEMMA OnTheWayFinite == IsFiniteSet(Threads) /\ IsFiniteSet(OnTheWay)
<1>1. IsFiniteSet(Threads)
  BY WorkersAssumption, ClientsAssumption, FS_Union DEF Threads
<1> QED BY <1>1, FS_Subset DEF OnTheWay

(* A thread that leaves a finite set and one that enters it. *)
LEMMA CardinalityOfSwap ==
    ASSUME NEW S, IsFiniteSet(S), NEW t \in S, NEW w, w \notin S
    PROVE  /\ Cardinality(S) \in Nat
           /\ Cardinality(S \cup {w}) = Cardinality(S) + 1
           /\ Cardinality(S \ {t}) = Cardinality(S) - 1
           /\ Cardinality((S \ {t}) \cup {w}) = Cardinality(S)
<1>1. Cardinality(S) \in Nat /\ IsFiniteSet(S \ {t})
  BY FS_CardinalityType, FS_RemoveElement
<1>2. Cardinality(S \ {t}) = Cardinality(S) - 1
  BY FS_RemoveElement
<1>3. Cardinality(S \cup {w}) = Cardinality(S) + 1
  BY FS_AddElement
<1>4. Cardinality((S \ {t}) \cup {w}) = Cardinality(S \ {t}) + 1
  BY <1>1, FS_AddElement
<1> QED BY <1>1, <1>2, <1>3, <1>4

LEMMA ParkedStep ==
    TypeOK /\ ParkedOnEmptyQueue /\ [Next]_vars => ParkedOnEmptyQueue'
<1> SUFFICES ASSUME TypeOK, ParkedOnEmptyQueue, [Next]_vars
             PROVE  ParkedOnEmptyQueue'
  OBVIOUS
<1> USE DEF TypeOK, ParkedOnEmptyQueue, Threads
<1>1. ASSUME NEW w \in Workers, StartThread(w) PROVE ParkedOnEmptyQueue'
  BY <1>1 DEF StartThread
<1>2. CASE StartThrows
  BY <1>2 DEF StartThrows
<1>3. ASSUME NEW c \in Clients, Submit(c) PROVE ParkedOnEmptyQueue'
  BY <1>3, ClientsAssumption DEF Submit, Push, Enqueue, MutexFree
<1>4. ASSUME NEW w \in Workers, SubmitFromTask(w) PROVE ParkedOnEmptyQueue'
  BY <1>4 DEF SubmitFromTask, Push, Enqueue, MutexFree
<1>5. ASSUME NEW t \in Threads, NotifyOne(t) PROVE ParkedOnEmptyQueue'
  BY <1>5, ClientsAssumption DEF NotifyOne, AfterSubmit, Asleep
<1>6. ASSUME NEW w \in Workers, LoopTest(w) PROVE ParkedOnEmptyQueue'
  BY <1>6 DEF LoopTest
<1>7. ASSUME NEW w \in Workers, AcquireStep(w) PROVE ParkedOnEmptyQueue'
  BY <1>7 DEF AcquireStep, TakeTask, TakeWith, ReturnEmpty, PredicateFalse, GoToSleep, MutexFree
<1>8. ASSUME NEW w \in Workers, Park(w) \/ SpuriousWake(w) \/ FinishTask(w)
      PROVE  ParkedOnEmptyQueue'
  BY <1>8 DEF Park, SpuriousWake, FinishTask
<1>9. CASE OwnerStep
  BY <1>9 DEF OwnerStep, StartDone, StoreDone, NotifyAll, JoinAndDestroy, DestroyQueue, Asleep
<1>10. CASE UNCHANGED vars
  BY <1>10 DEF vars
<1> QED
  BY <1>1, <1>2, <1>3, <1>4, <1>5, <1>6, <1>7, <1>8, <1>9, <1>10
  DEF Next, WorkerStep

LEMMA WakeupStep ==
    TypeOK /\ ParkedOnEmptyQueue /\ NoLostWakeup /\ [Next]_vars
        => NoLostWakeup'
<1> SUFFICES ASSUME TypeOK, ParkedOnEmptyQueue, NoLostWakeup, [Next]_vars,
                    ~m_done', Asleep' # {}
             PROVE  Len(m_tasks') <= Cardinality(OnTheWay')
  BY DEF NoLostWakeup
<1> USE DEF Threads
<1>0. /\ Cardinality(OnTheWay) \in Nat
      /\ IsFiniteSet(OnTheWay) /\ IsFiniteSet(OnTheWay')
      /\ Cardinality(OnTheWay') \in Nat
      /\ Len(m_tasks) \in Nat
  <2>1. IsFiniteSet(OnTheWay')
    BY OnTheWayFinite, FS_Subset DEF OnTheWay
  <2> QED BY <2>1, OnTheWayFinite, FS_CardinalityType, LenProperties DEF TypeOK
(* the queue is no longer, and whoever was on the way still is *)
<1>A. ASSUME OnTheWay \subseteq OnTheWay', ~m_done, Asleep # {}, m_tasks' = m_tasks
      PROVE  Len(m_tasks') <= Cardinality(OnTheWay')
  BY <1>A, <1>0, FS_Subset DEF NoLostWakeup
<1>B. ASSUME m_tasks' = << >> PROVE Len(m_tasks') <= Cardinality(OnTheWay')
  BY <1>B, <1>0
<1>1. ASSUME NEW w \in Workers, StartThread(w)
      PROVE  Len(m_tasks') <= Cardinality(OnTheWay')
  BY <1>1, <1>A DEF StartThread, OnTheWay, Asleep, TypeOK
<1>2. CASE StartThrows
  BY <1>2 DEF StartThrows, Asleep, TypeOK
<1>3. ASSUME NEW t \in Threads, Push, pc[t] \notin {"loop", "acquire", "notify", "asleep"},
             pc' = [pc EXCEPT ![t] = "notify"]
      PROVE  Len(m_tasks') <= Cardinality(OnTheWay')
  <2>1. OnTheWay' = OnTheWay \cup {t} /\ t \notin OnTheWay /\ Asleep # {} /\ ~m_done
    BY <1>3 DEF Push, Enqueue, OnTheWay, Asleep, TypeOK
  <2>2. Cardinality(OnTheWay') = Cardinality(OnTheWay) + 1
    BY <2>1, <1>0, FS_AddElement
  <2>3. Len(m_tasks') = Len(m_tasks) + 1
    BY <1>3, MaxTasksAssumption DEF Push, Enqueue, TypeOK, TaskIds
  <2> QED BY <2>1, <2>2, <2>3, <1>0 DEF NoLostWakeup
<1>4. ASSUME NEW t \in Threads, NotifyOne(t)
      PROVE  Len(m_tasks') <= Cardinality(OnTheWay')
  <2>1. CASE Asleep = {}
    BY <1>4, <2>1 DEF NotifyOne, AfterSubmit, Asleep, TypeOK
  <2>2. ASSUME NEW w \in Asleep,
               pc' = [pc EXCEPT ![t] = AfterSubmit(t), ![w] = "acquire"]
        PROVE  Len(m_tasks') <= Cardinality(OnTheWay')
    <3>1. t # w /\ t \in OnTheWay /\ w \notin OnTheWay /\ w \in Threads
      BY <1>4, <2>2 DEF NotifyOne, OnTheWay, Asleep
    <3>2. OnTheWay' = (OnTheWay \ {t}) \cup {w}
      BY <2>2, <3>1 DEF OnTheWay, AfterSubmit, TypeOK
    <3>3. Cardinality(OnTheWay') = Cardinality(OnTheWay)
      BY <3>1, <3>2, <1>0, CardinalityOfSwap
    <3> QED BY <1>4, <2>2, <3>3 DEF NotifyOne, NoLostWakeup
  <2> QED BY <1>4, <2>1, <2>2 DEF NotifyOne
<1>5. ASSUME NEW w \in Workers, LoopTest(w)
      PROVE  Len(m_tasks') <= Cardinality(OnTheWay')
  BY <1>5, <1>A DEF LoopTest, OnTheWay, Asleep, TypeOK
<1>6. ASSUME NEW w \in Workers, TakeTask(w)
      PROVE  Len(m_tasks') <= Cardinality(OnTheWay')
  <2>1. /\ w \in OnTheWay /\ OnTheWay' = OnTheWay \ {w}
        /\ Asleep # {} /\ ~m_done
    BY <1>6 DEF TakeTask, TakeWith, OnTheWay, Asleep, TypeOK
  <2>2. Cardinality(OnTheWay') = Cardinality(OnTheWay) - 1
    BY <2>1, <1>0, FS_RemoveElement
  <2>3. Len(m_tasks') = Len(m_tasks) - 1
    BY <1>6, HeadTailProperties DEF TakeTask, TakeWith, TypeOK
  <2> QED BY <2>1, <2>2, <2>3, <1>0 DEF NoLostWakeup
<1>7. ASSUME NEW w \in Workers, ReturnEmpty(w) \/ PredicateFalse(w)
      PROVE  Len(m_tasks') <= Cardinality(OnTheWay')
  BY <1>7, <1>B DEF ReturnEmpty, PredicateFalse, GoToSleep
<1>8. ASSUME NEW w \in Workers, Park(w)
      PROVE  Len(m_tasks') <= Cardinality(OnTheWay')
  BY <1>8, <1>B DEF Park, ParkedOnEmptyQueue
<1>9. ASSUME NEW w \in Workers, SpuriousWake(w) \/ FinishTask(w)
      PROVE  Len(m_tasks') <= Cardinality(OnTheWay')
  <2>1. OnTheWay \subseteq OnTheWay' /\ Asleep # {}
    BY <1>9 DEF SpuriousWake, FinishTask, OnTheWay, Asleep, TypeOK
  <2> QED BY <1>9, <2>1, <1>A DEF SpuriousWake, FinishTask
<1>10. CASE NotifyAll
  BY <1>10 DEF NotifyAll, Asleep, TypeOK
<1>11. CASE StartDone \/ StoreDone
  BY <1>11, <1>A DEF StartDone, StoreDone, OnTheWay, Asleep
<1>12. CASE JoinAndDestroy
  BY <1>12, <1>B DEF JoinAndDestroy, DestroyQueue
<1>13. CASE UNCHANGED vars
  BY <1>13, <1>A DEF vars, OnTheWay, Asleep
<1>14. ASSUME NEW c \in Clients, Submit(c)
       PROVE  Len(m_tasks') <= Cardinality(OnTheWay')
  BY <1>14, <1>3 DEF Submit
<1>15. ASSUME NEW w \in Workers, SubmitFromTask(w)
       PROVE  Len(m_tasks') <= Cardinality(OnTheWay')
  BY <1>15, <1>3 DEF SubmitFromTask
<1> QED
  BY <1>1, <1>2, <1>4, <1>5, <1>6, <1>7, <1>8, <1>9, <1>10, <1>11, <1>12,
     <1>13, <1>14, <1>15
  DEF Next, WorkerStep, AcquireStep, OwnerStep

-----------------------------------------------------------------------------
(* Tasks start in order, and each is in one place. *)

(* A sequence of task numbers that counts up to n is the interval that     *)
(* ends at n.                                                              *)
LEMMA CountingSequence ==
    ASSUME NEW q \in Seq(TaskIds), NEW n \in 0 .. MaxTasks,
           \A i \in 1 .. Len(q) : q[i] = n - Len(q) + i
    PROVE  /\ Len(q) \in Nat /\ Len(q) <= n
           /\ Range(q) = (n - Len(q) + 1) .. n
<1> USE MaxTasksAssumption DEF TaskIds
<1>1. /\ Len(q) \in Nat /\ DOMAIN q = 1 .. Len(q)
      /\ \A i \in 1 .. Len(q) : q[i] \in 1 .. MaxTasks
  BY LenProperties, ElementOfSeq
<1>2. Len(q) <= n
  <2>1. CASE Len(q) = 0
    BY <2>1
  <2>2. CASE Len(q) > 0
    <3>1. q[1] = n - Len(q) + 1 /\ q[1] \in 1 .. MaxTasks
      BY <1>1, <2>2
    <3> QED BY <3>1, <1>1
  <2> QED BY <1>1, <2>1, <2>2
<1>3. Range(q) \subseteq (n - Len(q) + 1) .. n
  <2> SUFFICES ASSUME NEW i \in 1 .. Len(q)
               PROVE  q[i] \in (n - Len(q) + 1) .. n
    BY <1>1 DEF Range
  <2> QED BY <1>1, <1>2
<1>4. ASSUME NEW k \in (n - Len(q) + 1) .. n PROVE k \in Range(q)
  <2> DEFINE i == k - (n - Len(q))
  <2>1. i \in 1 .. Len(q) /\ q[i] = k
    BY <1>1, <1>2, <1>4
  <2> QED BY <2>1, <1>1 DEF Range
<1> QED BY <1>1, <1>2, <1>3, <1>4

(* The queue is the interval of the last submitted tasks. *)
LEMMA QueueIsInterval ==
    TypeOK /\ QueueInOrder =>
        /\ Len(m_tasks) \in Nat /\ Len(m_tasks) <= submitted
        /\ Range(m_tasks) = (submitted - Len(m_tasks) + 1) .. submitted
BY CountingSequence DEF TypeOK, QueueInOrder

LEMMA OrderStep == TypeOK /\ QueueInOrder /\ [Next]_vars => QueueInOrder'
<1> SUFFICES ASSUME TypeOK, QueueInOrder, [Next]_vars PROVE QueueInOrder'
  OBVIOUS
<1>0. Len(m_tasks) \in Nat /\ submitted \in Nat
  BY QueueIsInterval DEF TypeOK
<1>1. ASSUME Push PROVE QueueInOrder'
  <2>1. /\ Len(m_tasks') = Len(m_tasks) + 1
        /\ \A i \in 1 .. Len(m_tasks) : m_tasks'[i] = m_tasks[i]
        /\ m_tasks'[Len(m_tasks) + 1] = submitted + 1
        /\ submitted' = submitted + 1
    BY <1>1, AppendProperties, MaxTasksAssumption DEF Push, Enqueue, TypeOK, TaskIds
  <2> QED BY <1>0, <2>1 DEF QueueInOrder
<1>2. ASSUME NEW w \in Workers, TakeTask(w) PROVE QueueInOrder'
  <2>1. /\ Len(m_tasks') = Len(m_tasks) - 1
        /\ \A i \in 1 .. Len(m_tasks) - 1 : m_tasks'[i] = m_tasks[i + 1]
        /\ submitted' = submitted
    BY <1>2, HeadTailProperties DEF TakeTask, TakeWith, TypeOK
  <2> QED BY <1>0, <2>1 DEF QueueInOrder
<1>3. CASE JoinAndDestroy
  BY <1>3 DEF JoinAndDestroy, DestroyQueue, QueueInOrder
<1>4. CASE UNCHANGED <<m_tasks, submitted>>
  BY <1>4 DEF QueueInOrder
<1> QED
  BY <1>1, <1>2, <1>3, <1>4
  DEF Next, WorkerStep, AcquireStep, OwnerStep, StartThread, StartThrows,
      Submit, SubmitFromTask, NotifyOne, LoopTest, ReturnEmpty, PredicateFalse, GoToSleep,
      Park, SpuriousWake, FinishTask, StartDone, StoreDone, NotifyAll, vars

LEMMA OnePlaceStep ==
    TypeOK /\ RunsATask /\ QueueInOrder /\ EveryTaskInOnePlace /\ [Next]_vars
        => EveryTaskInOnePlace'
<1> SUFFICES ASSUME TypeOK, RunsATask, QueueInOrder, EveryTaskInOnePlace,
                    [Next]_vars
             PROVE  EveryTaskInOnePlace'
  OBVIOUS
<1>0. submitted \in Nat /\ MaxTasks \in Nat
  BY MaxTasksAssumption DEF TypeOK
<1>1. ASSUME Push PROVE EveryTaskInOnePlace'
  <2>1. Range(m_tasks') = Range(m_tasks) \cup {submitted + 1}
    <3>1. submitted + 1 \in TaskIds
      BY <1>1, <1>0 DEF Push, Enqueue, TypeOK, TaskIds
    <3>2. /\ Len(m_tasks') = Len(m_tasks) + 1 /\ Len(m_tasks) \in Nat
          /\ DOMAIN m_tasks' = 1 .. Len(m_tasks') /\ DOMAIN m_tasks = 1 .. Len(m_tasks)
          /\ \A i \in 1 .. Len(m_tasks) : m_tasks'[i] = m_tasks[i]
          /\ m_tasks'[Len(m_tasks) + 1] = submitted + 1
      BY <1>1, <3>1, AppendProperties, LenProperties DEF Push, Enqueue, TypeOK
    <3> QED BY <3>2 DEF Range
  <2>2. 1 .. submitted' = (1 .. submitted) \cup {submitted + 1}
    BY <1>1, <1>0 DEF Push, Enqueue
  <2>3. RunningTasks' = RunningTasks /\ ready' = ready /\ broken' = broken /\ task' = task
    BY <1>1 DEF Push, Enqueue, RunningTasks
  <2>4. submitted + 1 \notin 1 .. submitted
    BY <1>0
  <2> QED BY <2>1, <2>2, <2>3, <2>4 DEF EveryTaskInOnePlace
<1>2. ASSUME NEW w \in Workers, TakeTask(w) PROVE EveryTaskInOnePlace'
  <2> DEFINE h == Head(m_tasks)
  <2>1. /\ Len(m_tasks) \in Nat /\ Len(m_tasks) <= submitted
        /\ Range(m_tasks) = (submitted - Len(m_tasks) + 1) .. submitted
    BY QueueIsInterval
  <2>2. Len(m_tasks) >= 1 /\ h = submitted - Len(m_tasks) + 1
    BY <1>2, <2>1, HeadTailProperties, EmptySeq DEF TakeTask, TakeWith, TypeOK, QueueInOrder
  <2>3. Range(m_tasks') = (submitted - Len(m_tasks) + 2) .. submitted
    <3>1. TypeOK' /\ QueueInOrder'
      BY TypeStep, OrderStep
    <3>2. Len(m_tasks') = Len(m_tasks) - 1 /\ submitted' = submitted
      BY <1>2, HeadTailProperties DEF TakeTask, TakeWith, TypeOK
    <3>3. Range(m_tasks') = (submitted' - Len(m_tasks') + 1) .. submitted'
      BY <3>1, CountingSequence DEF TypeOK, QueueInOrder
    <3> QED BY <3>2, <3>3, <2>1, <1>0
  <2>4. Range(m_tasks) = Range(m_tasks') \cup {h} /\ h \notin Range(m_tasks') /\ h # 0
    BY <2>1, <2>2, <2>3, <1>0
  <2>5. task[w] = 0 /\ task' = [task EXCEPT ![w] = h]
    BY <1>2 DEF TakeTask, TakeWith, RunsATask
  <2>6. RunningTasks' = RunningTasks \cup {h}
    BY <2>4, <2>5 DEF RunningTasks, TypeOK
  <2>7. \A v \in Workers : task[v] # h
    BY <2>4 DEF EveryTaskInOnePlace, RunningTasks
  <2>8. \A u, v \in Workers : u # v /\ task'[u] # 0 => task'[u] # task'[v]
    BY <2>4, <2>5, <2>7 DEF EveryTaskInOnePlace, TypeOK
  <2>9. ready' = ready /\ broken' = broken /\ submitted' = submitted
    BY <1>2 DEF TakeTask, TakeWith
  <2> HIDE DEF h
  <2> QED BY <2>4, <2>6, <2>8, <2>9 DEF EveryTaskInOnePlace
<1>3. ASSUME NEW w \in Workers, FinishTask(w) PROVE EveryTaskInOnePlace'
  <2>1. task[w] # 0 /\ task' = [task EXCEPT ![w] = 0]
    BY <1>3 DEF FinishTask, RunsATask
  <2>2. RunningTasks' = RunningTasks \ {task[w]} /\ task[w] \in RunningTasks
    BY <2>1 DEF RunningTasks, TypeOK, EveryTaskInOnePlace
  <2>3. \A u, v \in Workers : u # v /\ task'[u] # 0 => task'[u] # task'[v]
    BY <2>1 DEF EveryTaskInOnePlace, TypeOK
  <2>4. /\ ready' = ready \cup {task[w]} /\ broken' = broken
        /\ submitted' = submitted /\ m_tasks' = m_tasks
    BY <1>3 DEF FinishTask
  <2> QED BY <2>2, <2>3, <2>4 DEF EveryTaskInOnePlace
<1>4. CASE JoinAndDestroy
  <2>1. Range(<< >>) = {}
    BY DEF Range
  <2> QED BY <1>4, <2>1 DEF JoinAndDestroy, DestroyQueue, EveryTaskInOnePlace, RunningTasks
<1>5. CASE UNCHANGED <<m_tasks, submitted, task, ready, broken>>
  BY <1>5 DEF EveryTaskInOnePlace, RunningTasks
<1> QED
  BY <1>1, <1>2, <1>3, <1>4, <1>5
  DEF Next, WorkerStep, AcquireStep, OwnerStep, StartThread, StartThrows,
      Submit, SubmitFromTask, NotifyOne, LoopTest, ReturnEmpty, PredicateFalse, GoToSleep,
      Park, SpuriousWake, StartDone, StoreDone, NotifyAll, vars

-----------------------------------------------------------------------------
(* The history of late tasks, and the owner. *)

LEMMA LateStep ==
    TypeOK /\ AtMostOneLateTask /\ LateTaskIsLast /\ [Next]_vars
        => AtMostOneLateTask' /\ LateTaskIsLast'
<1> SUFFICES ASSUME TypeOK, AtMostOneLateTask, LateTaskIsLast, [Next]_vars
             PROVE  AtMostOneLateTask' /\ LateTaskIsLast'
  OBVIOUS
<1> USE DEF TypeOK, Threads, AtMostOneLateTask, LateTaskIsLast
<1>1. ASSUME NEW w \in Workers, StartThread(w)
      PROVE  AtMostOneLateTask' /\ LateTaskIsLast'
  BY <1>1 DEF StartThread
<1>2. CASE StartThrows
  BY <1>2 DEF StartThrows
<1>3. ASSUME NEW c \in Clients, Submit(c)
      PROVE  AtMostOneLateTask' /\ LateTaskIsLast'
  BY <1>3 DEF Submit, Push, Enqueue
<1>4. ASSUME NEW w \in Workers, SubmitFromTask(w)
      PROVE  AtMostOneLateTask' /\ LateTaskIsLast'
  BY <1>4 DEF SubmitFromTask, Push, Enqueue
<1>5. ASSUME NEW t \in Threads, NotifyOne(t)
      PROVE  AtMostOneLateTask' /\ LateTaskIsLast'
  BY <1>5 DEF NotifyOne, AfterSubmit, Asleep
<1>6. ASSUME NEW w \in Workers, LoopTest(w)
      PROVE  AtMostOneLateTask' /\ LateTaskIsLast'
  BY <1>6 DEF LoopTest
<1>7. ASSUME NEW w \in Workers, AcquireStep(w)
      PROVE  AtMostOneLateTask' /\ LateTaskIsLast'
  BY <1>7 DEF AcquireStep, TakeTask, TakeWith, ReturnEmpty, PredicateFalse, GoToSleep
<1>8. ASSUME NEW w \in Workers, Park(w) \/ SpuriousWake(w) \/ FinishTask(w)
      PROVE  AtMostOneLateTask' /\ LateTaskIsLast'
  BY <1>8 DEF Park, SpuriousWake, FinishTask
<1>9. CASE OwnerStep
  BY <1>9 DEF OwnerStep, StartDone, StoreDone, NotifyAll, JoinAndDestroy, DestroyQueue, Asleep
<1>10. CASE UNCHANGED vars
  BY <1>10 DEF vars
<1> QED
  BY <1>1, <1>2, <1>3, <1>4, <1>5, <1>6, <1>7, <1>8, <1>9, <1>10
  DEF Next, WorkerStep

LEMMA OwnerStepLemma == TypeOK /\ OwnerInv /\ [Next]_vars => OwnerInv'
<1> SUFFICES ASSUME TypeOK, OwnerInv, [Next]_vars PROVE OwnerInv'
  OBVIOUS
<1> USE DEF TypeOK, Threads, OwnerInv
<1>1. ASSUME NEW w \in Workers, StartThread(w) PROVE OwnerInv'
  BY <1>1 DEF StartThread
<1>2. CASE StartThrows
  BY <1>2 DEF StartThrows
<1>3. ASSUME NEW c \in Clients, Submit(c) PROVE OwnerInv'
  BY <1>3 DEF Submit, Push, Enqueue
<1>4. ASSUME NEW w \in Workers, SubmitFromTask(w) PROVE OwnerInv'
  BY <1>4 DEF SubmitFromTask, Push, Enqueue
<1>5. ASSUME NEW t \in Threads, NotifyOne(t) PROVE OwnerInv'
  BY <1>5 DEF NotifyOne, AfterSubmit, Asleep
<1>6. ASSUME NEW w \in Workers, LoopTest(w) PROVE OwnerInv'
  BY <1>6 DEF LoopTest
<1>7. ASSUME NEW w \in Workers, AcquireStep(w) PROVE OwnerInv'
  BY <1>7 DEF AcquireStep, TakeTask, TakeWith, ReturnEmpty, PredicateFalse, GoToSleep
<1>8. ASSUME NEW w \in Workers, Park(w) \/ SpuriousWake(w) \/ FinishTask(w)
      PROVE  OwnerInv'
  BY <1>8 DEF Park, SpuriousWake, FinishTask
<1>9. CASE OwnerStep
  BY <1>9 DEF OwnerStep, StartDone, StoreDone, NotifyAll, JoinAndDestroy, DestroyQueue, Asleep
<1>10. CASE UNCHANGED vars
  BY <1>10 DEF vars
<1> QED
  BY <1>1, <1>2, <1>3, <1>4, <1>5, <1>6, <1>7, <1>8, <1>9, <1>10
  DEF Next, WorkerStep

-----------------------------------------------------------------------------
(* The inductive invariant and what follows from it. *)

LEMMA PoolInvInit == Init => PoolInv
<1> SUFFICES ASSUME Init PROVE PoolInv
  OBVIOUS
<1>1. TypeOK /\ RunsATask /\ NoTaskBeforeUp
  BY TypeInit
<1>2. \A w \in Workers : w \in Threads /\ pc[w] = "unborn"
  BY DEF Init, Threads
<1>3. Asleep = {} /\ ParkedOnEmptyQueue
  BY <1>2 DEF Asleep, ParkedOnEmptyQueue
<1>4. QueueInOrder
  BY DEF Init, QueueInOrder
<1>5. EveryTaskInOnePlace
  BY DEF Init, EveryTaskInOnePlace, RunningTasks, Range
<1>6. AtMostOneLateTask /\ LateTaskIsLast /\ OwnerInv
  BY DEF Init, AtMostOneLateTask, LateTaskIsLast, OwnerInv
<1> QED
  BY <1>1, <1>3, <1>4, <1>5, <1>6 DEF PoolInv, NoLostWakeup

LEMMA PoolInvStep == PoolInv /\ [Next]_vars => PoolInv'
BY TypeStep, RunsATaskStep, ParkedStep, WakeupStep, OrderStep, OnePlaceStep,
   LateStep, OwnerStepLemma
DEF PoolInv

(* The invariant holds for any finite sets of workers and clients and any  *)
(* number of tasks.                                                        *)
THEOREM PoolInvariant == Spec => []PoolInv
BY PoolInvInit, PoolInvStep, PTL DEF Spec

(* The state of the pool has the declared types. *)
THEOREM PoolTypeCorrect == Spec => []TypeOK
<1>1. PoolInv => TypeOK
  BY DEF PoolInv
<1> QED BY <1>1, PoolInvariant, PTL

(* Notifying after the unlock loses no wake-up: see NoLostWakeup. *)
THEOREM WakeupsNotLost == Spec => []NoLostWakeup
<1>1. PoolInv => NoLostWakeup
  BY DEF PoolInv
<1> QED BY <1>1, PoolInvariant, PTL

(* No task is run twice and none is lost: see EveryTaskInOnePlace. *)
THEOREM TasksKept == Spec => []EveryTaskInOnePlace
<1>1. PoolInv => EveryTaskInOnePlace
  BY DEF PoolInv
<1> QED BY <1>1, PoolInvariant, PTL

(* A worker takes one task at most once Stop has begun. *)
THEOREM LateTasksBounded == Spec => []AtMostOneLateTask
<1>1. PoolInv => AtMostOneLateTask
  BY DEF PoolInv
<1> QED BY <1>1, PoolInvariant, PTL

(* Once the destructor has returned no future is left unsettled. *)
THEOREM DestructorSettlesFutures == Spec => []FuturesSettled
<1>1. PoolInv => FuturesSettled
  <2> SUFFICES ASSUME PoolInv, owner = "down"
               PROVE  ready \cup broken = 1 .. submitted /\ RunningTasks = {}
    BY DEF FuturesSettled
  <2>1. m_tasks = << >> /\ \A w \in Workers : task[w] = 0
    BY DEF PoolInv, OwnerInv, RunsATask
  <2>2. Range(m_tasks) = {} /\ RunningTasks = {}
    BY <2>1 DEF Range, RunningTasks
  <2> QED BY <2>2 DEF PoolInv, EveryTaskInOnePlace
<1> QED BY <1>1, PoolInvariant, PTL

-----------------------------------------------------------------------------
(* Sleepers and Stop. *)

Sleepers == {w \in Workers : pc[w] \in {"park", "asleep"}}

(* Once m_done is set no worker goes to sleep any more, and notify_all     *)
(* wakes all but those that are between their predicate and their sleep:   *)
(* the destructor blocks for good only on a worker that was there then.    *)
THEOREM OnlyParkedMissStop ==
    Spec => [][/\ m_done => Sleepers' \subseteq Sleepers
               /\ NotifyAll => Sleepers' = {w \in Workers : pc[w] = "park"}]_vars
<1> DEFINE A == /\ m_done => Sleepers' \subseteq Sleepers
                /\ NotifyAll => Sleepers' = {w \in Workers : pc[w] = "park"}
<1>1. PoolInv /\ [Next]_vars => [A]_vars
  <2> SUFFICES ASSUME PoolInv, Next PROVE A
    OBVIOUS
  <2>1. pc \in [Threads -> WorkerPc \cup ClientPc] /\ Workers \subseteq Threads
    BY DEF PoolInv, TypeOK, Threads
  <2>2. NotifyAll => Sleepers' = {w \in Workers : pc[w] = "park"}
    BY <2>1 DEF NotifyAll, Sleepers, Asleep
  <2>3. ASSUME m_done, NEW t \in Threads, NEW x,
               x \notin {"park", "asleep"} \/ (pc[t] = "park" /\ x = "asleep"),
               pc' = [pc EXCEPT ![t] = x]
        PROVE  Sleepers' \subseteq Sleepers
    BY <2>1, <2>3 DEF Sleepers
  <2>4. ASSUME UNCHANGED pc PROVE Sleepers' \subseteq Sleepers
    BY <2>4 DEF Sleepers
  <2>5. ASSUME m_done, NEW t \in Threads, NotifyOne(t) PROVE Sleepers' \subseteq Sleepers
    <3>1. AfterSubmit(t) \in {"run", "idle"}
      BY DEF AfterSubmit
    <3>2. ASSUME NEW w \in Workers PROVE pc'[w] \in {pc[w], "run", "idle", "acquire"}
      BY <2>1, <2>5, <3>1, <3>2 DEF NotifyOne, Asleep
    <3> QED BY <3>2 DEF Sleepers
  <2>6. ASSUME m_done, NEW w \in Workers, StartThread(w) \/ SubmitFromTask(w) \/ SpuriousWake(w)
        PROVE  Sleepers' \subseteq Sleepers
    BY <2>1, <2>3, <2>6 DEF StartThread, SubmitFromTask, SpuriousWake
  <2>7. ASSUME m_done, NEW w \in Workers, WorkerStep(w) PROVE Sleepers' \subseteq Sleepers
    <3>1. CASE LoopTest(w)
      BY <2>1, <2>3, <2>7, <3>1 DEF LoopTest
    <3>2. CASE TakeTask(w) \/ ReturnEmpty(w) \/ Park(w) \/ FinishTask(w)
      BY <2>1, <2>3, <2>7, <3>2 DEF TakeTask, TakeWith, ReturnEmpty, Park, FinishTask
    <3> QED BY <2>7, <3>1, <3>2 DEF WorkerStep, AcquireStep, PredicateFalse
  <2>8. ASSUME m_done, NEW c \in Clients, Submit(c) PROVE Sleepers' \subseteq Sleepers
    BY <2>3, <2>8 DEF Submit, Threads
  <2>9. CASE StartThrows
    <3>1. \A w \in Workers : pc'[w] = "exited"
      BY <2>1, <2>9 DEF StartThrows
    <3> QED BY <3>1, <2>2 DEF Sleepers
  <2>10. CASE OwnerStep
    <3>1. CASE NotifyAll
      BY <2>2, <3>1 DEF Sleepers
    <3>2. CASE StartDone \/ StoreDone \/ JoinAndDestroy
      BY <2>2, <2>4, <3>2 DEF StartDone, StoreDone, JoinAndDestroy, DestroyQueue
    <3> QED BY <2>10, <3>1, <3>2 DEF OwnerStep
  <2> QED BY <2>2, <2>5, <2>6, <2>7, <2>8, <2>9, <2>10 DEF Next
<1> QED BY <1>1, PoolInvariant, PTL DEF Spec

-----------------------------------------------------------------------------
(* ThreadPool implements TaskExecutor: a push is Accept, taking a task is  *)
(* Begin, the return of a task is Finish, the end of the destructor is     *)
(* Close, and everything else is invisible.                                *)

LEMMA NothingBrokenWhileOpen ==
    PoolInv /\ owner # "down" => Started = submitted - Len(m_tasks)
<1> SUFFICES ASSUME PoolInv, owner # "down"
             PROVE  Started = submitted - Len(m_tasks)
  OBVIOUS
<1>1. broken = {} /\ Cardinality(broken) = 0
  BY FS_EmptySet DEF PoolInv, OwnerInv
<1>2. Len(m_tasks) \in Nat /\ submitted \in Nat
  BY MaxTasksAssumption DEF PoolInv, TypeOK
<1> QED BY <1>1, <1>2 DEF Started

LEMMA RefinementInit == Init => Executor!Init
<1> SUFFICES ASSUME Init PROVE Executor!Init
  OBVIOUS
<1>1. Started = 0
  BY FS_EmptySet DEF Init, Started
<1>2. RunningTasks = {}
  BY DEF Init, RunningTasks
<1> QED BY <1>1, <1>2 DEF Init, Executor!Init

LEMMA RefinementStep ==
    PoolInv /\ PoolInv' /\ [Next]_vars => [Executor!Next]_(Executor!vars)
<1> SUFFICES ASSUME PoolInv, PoolInv', [Next]_vars
             PROVE  Executor!Next \/ UNCHANGED Executor!vars
  OBVIOUS
<1>0. Len(m_tasks) \in Nat /\ submitted \in Nat /\ Len(m_tasks) <= submitted
  BY QueueIsInterval, MaxTasksAssumption DEF PoolInv, TypeOK
<1>1. ASSUME Push, owner # "down" PROVE Executor!Next
  <2>1. Len(m_tasks') = Len(m_tasks) + 1 /\ submitted' = submitted + 1
    BY <1>1, MaxTasksAssumption DEF Push, Enqueue, PoolInv, TypeOK, TaskIds
  <2>2. broken' = broken /\ broken = {}
    BY <1>1 DEF Push, Enqueue, PoolInv, OwnerInv
  <2>3. Started' = Started
    BY <1>0, <2>1, <2>2, FS_EmptySet DEF Started
  <2>4. Executor!Accept
    BY <1>1, <2>1, <2>2, <2>3 DEF Executor!Accept, Push, Enqueue, RunningTasks
  <2> QED BY <2>4 DEF Executor!Next
<1>2. ASSUME NEW w \in Workers, TakeTask(w) PROVE Executor!Next
  <2>1. owner # "down" /\ owner' = owner
    BY <1>2 DEF TakeTask, TakeWith, PoolInv, OwnerInv
  <2>2. /\ Len(m_tasks) >= 1 /\ Len(m_tasks') = Len(m_tasks) - 1
        /\ Head(m_tasks) = submitted - Len(m_tasks) + 1
    BY <1>0, <1>2, HeadTailProperties, EmptySeq
    DEF TakeTask, TakeWith, PoolInv, TypeOK, QueueInOrder
  <2>3. submitted' = submitted /\ broken' = broken /\ broken = {}
    BY <1>2, <2>1 DEF TakeTask, TakeWith, PoolInv, OwnerInv
  <2>4. Started' = Started + 1 /\ Started < submitted /\ Head(m_tasks) = Started + 1
    BY <1>0, <2>2, <2>3, FS_EmptySet DEF Started
  <2>5. RunningTasks' = RunningTasks \cup {Head(m_tasks)}
    <3>1. task[w] = 0 /\ task' = [task EXCEPT ![w] = Head(m_tasks)]
      BY <1>2 DEF TakeTask, TakeWith, PoolInv, RunsATask
    <3>2. Head(m_tasks) # 0
      BY <1>0, <2>2
    <3> QED BY <3>1, <3>2 DEF RunningTasks, PoolInv, TypeOK
  <2>6. Executor!Begin
    BY <1>2, <2>1, <2>3, <2>4, <2>5 DEF Executor!Begin, TakeTask, TakeWith
  <2> QED BY <2>6 DEF Executor!Next
<1>3. ASSUME NEW w \in Workers, FinishTask(w) PROVE Executor!Next
  <2>1. task[w] # 0 /\ task' = [task EXCEPT ![w] = 0]
    BY <1>3 DEF FinishTask, PoolInv, RunsATask
  <2>2. RunningTasks' = RunningTasks \ {task[w]} /\ task[w] \in RunningTasks
    BY <2>1 DEF RunningTasks, PoolInv, TypeOK, EveryTaskInOnePlace
  <2>3. Started' = Started
    BY <1>3 DEF FinishTask, Started
  <2>4. Executor!Finish(task[w])
    BY <1>3, <2>2, <2>3 DEF Executor!Finish, FinishTask
  <2> QED BY <2>2, <2>4 DEF Executor!Next
<1>4. CASE JoinAndDestroy
  <2>1. /\ owner # "down" /\ owner' = "down" /\ submitted' = submitted
        /\ ready' = ready /\ task' = task /\ m_tasks' = << >>
        /\ broken = {} /\ broken' = Range(m_tasks)
    BY <1>4 DEF JoinAndDestroy, DestroyQueue, PoolInv, OwnerInv
  <2>2. Started = submitted - Len(m_tasks)
    BY <2>1, NothingBrokenWhileOpen
  <2>3. broken' = (Started + 1) .. submitted
    BY <1>0, <2>1, <2>2, QueueIsInterval DEF PoolInv
  <2>4. Cardinality(broken') = Len(m_tasks)
    <3> DEFINE a == submitted - Len(m_tasks) + 1
    <3>1. a \in Int /\ submitted \in Int /\ broken' = a .. submitted
      BY <1>0, <2>2, <2>3
    <3>2. Cardinality(a .. submitted) = IF a > submitted THEN 0 ELSE submitted - a + 1
      BY <3>1, FS_Interval
    <3> QED BY <3>1, <3>2, <1>0
  <2>5. Started' = Started
    BY <1>0, <2>1, <2>2, <2>4 DEF Started
  <2>6. RunningTasks' = RunningTasks /\ RunningTasks = {}
    BY <1>4, <2>1 DEF JoinAndDestroy, DestroyQueue, RunningTasks, PoolInv, RunsATask
  <2>7. Executor!Close
    BY <2>1, <2>3, <2>5, <2>6 DEF Executor!Close
  <2> QED BY <2>7 DEF Executor!Next
<1>5. CASE /\ UNCHANGED <<m_tasks, submitted, task, ready, broken>>
           /\ owner' = owner \/ (owner # "down" /\ owner' # "down")
  BY <1>5 DEF Executor!vars, Started, RunningTasks
<1>6. ASSUME NEW c \in Clients, Submit(c) PROVE Executor!Next
  BY <1>1, <1>6 DEF Submit
<1>7. ASSUME NEW w \in Workers, SubmitFromTask(w) PROVE Executor!Next
  BY <1>1, <1>7 DEF SubmitFromTask, PoolInv, OwnerInv
<1> QED
  BY <1>2, <1>3, <1>4, <1>5, <1>6, <1>7
  DEF Next, WorkerStep, AcquireStep, OwnerStep, StartThread, StartThrows,
      NotifyOne, LoopTest, ReturnEmpty, PredicateFalse, GoToSleep, Park, SpuriousWake,
      StartDone, StoreDone, NotifyAll, vars

(* The pool behaves as the executor its users are promised. *)
THEOREM PoolImplementsExecutor == Spec => ImplementsTaskExecutor
<1>1. Spec => Executor!Spec
  BY RefinementInit, RefinementStep, PoolInvariant, PTL DEF Spec, Executor!Spec
<1> QED BY <1>1 DEF ImplementsTaskExecutor

-----------------------------------------------------------------------------
(* The logger, on top of the pool: its lines. *)

Bodies == {"none", "file", "console", "done"}
InFile(i) == \E k \in 1 .. Len(file) : file[k] = i
OnConsole(i) == \E k \in 1 .. Len(console) : console[k] = i

(* A task has a body while it runs, and writes lines that exist. *)
LinesTypeOK ==
    /\ body \in [Workers -> Bodies]
    /\ \A w \in Workers : body[w] # "none" <=> task[w] # 0
    /\ file \in Seq(TaskIds)
    /\ console \in Seq(TaskIds)

(* What was written was written by a task that ended or is past that block, *)
WrittenByTask ==
    /\ \A k \in 1 .. Len(file) :
          \/ file[k] \in ready
          \/ \E w \in Workers : task[w] = file[k] /\ body[w] \in {"console", "done"}
    /\ \A k \in 1 .. Len(console) :
          \/ console[k] \in ready
          \/ \E w \in Workers : task[w] = console[k] /\ body[w] = "done"

(* which wrote it to the console, and to the file as long as that is open. *)
TaskWrote ==
    /\ \A i \in ready : OnConsole(i) /\ (FileOpen => InFile(i))
    /\ \A w \in Workers :
          /\ body[w] = "done" => OnConsole(task[w])
          /\ body[w] \in {"console", "done"} /\ FileOpen => InFile(task[w])

(* There are no tasks before the file is open, and the destructor's        *)
(* WaitAll is the one that ends that stage.                                *)
StageInv ==
    /\ stage = "building" => submitted = 0
    /\ waiter = Destructor /\ waiter # NoOne => stage = "waiting"

LinesInv == LinesTypeOK /\ WrittenByTask /\ NoLineTwice /\ TaskWrote /\ StageInv

LEMMA LinesInit == LoggerInit => LinesInv
<1> SUFFICES ASSUME LoggerInit PROVE LinesInv
  OBVIOUS
<1>1. LinesTypeOK
  BY DEF LoggerInit, Init, LinesTypeOK, Bodies
<1>2. WrittenByTask /\ NoLineTwice
  BY DEF LoggerInit, WrittenByTask, NoLineTwice
<1>3. TaskWrote
  BY DEF LoggerInit, Init, TaskWrote
<1>4. StageInv
  BY DEF LoggerInit, Init, StageInv
<1> QED BY <1>1, <1>2, <1>3, <1>4 DEF LinesInv

(* Every step of the logger is a step of its pool, or none of it. *)
LEMMA LoggerStepsPool == [LoggerNext]_lvars => [Next]_vars
<1> SUFFICES ASSUME [LoggerNext]_lvars PROVE [Next]_vars
  OBVIOUS
<1>1. CASE UNCHANGED lvars
  BY <1>1 DEF lvars
<1>2. CASE OpenFile \/ Destroy \/ CloseFile \/ DestroyMembers \/ WaitStep
  BY <1>2 DEF OpenFile, Destroy, CloseFile, DestroyMembers, WaitStep, WaitLook, WaitTake,
              WaitGet, WaitEnd, ClearFutures
<1>3. CASE PoolOwner
  BY <1>3 DEF PoolOwner, Next, OwnerStep
<1>4. ASSUME NEW c \in Clients, LogSubmit(c) \/ Notify(c) PROVE Next
  BY <1>4 DEF LogSubmit, Notify, Next, Threads
<1>5. ASSUME NEW c \in Clients, LogStore(c) \/ LogBack(c) \/ ShareRead(c) \/ ShareEmpty(c) PROVE UNCHANGED vars
  BY <1>5 DEF LogStore, StoreFuture, LogBack, ShareRead, ShareEmpty
<1>6. ASSUME NEW t \in Clients \cup {Destructor}, WaitBegin(t) PROVE UNCHANGED vars
  BY <1>6 DEF WaitBegin
<1>7. ASSUME NEW w \in Workers, Acquire(w) \/ PoolWorker(w) PROVE Next
  BY <1>7 DEF Acquire, StartBody, PoolWorker, Next, WorkerStep, AcquireStep
<1>8. ASSUME NEW w \in Workers, WriteFile(w) \/ WriteConsole(w) PROVE UNCHANGED vars
  BY <1>8 DEF WriteFile, AppendToFile, WriteConsole
<1>9. ASSUME NEW w \in Workers, EndBody(w) PROVE Next
  BY <1>9 DEF EndBody, EndFrom, Next, WorkerStep
<1> QED
  BY <1>1, <1>2, <1>3, <1>4, <1>5, <1>6, <1>7, <1>8, <1>9 DEF LoggerNext

(* The logger uses its pool as anybody may: what is proved of the pool     *)
(* holds inside the logger, to begin with that its tasks are those of an   *)
(* executor.                                                               *)
THEOREM LoggerImplementsExecutor == LoggerSpec => Spec /\ ImplementsTaskExecutor
<1>1. LoggerInit => Init
  BY DEF LoggerInit
<1>2. LoggerSpec => Spec
  BY <1>1, LoggerStepsPool, PTL DEF LoggerSpec, Spec
<1> QED BY <1>2, PoolImplementsExecutor, PTL

LEMMA StageStep == StageInv /\ [LoggerNext]_lvars => StageInv'
<1> SUFFICES ASSUME StageInv, [LoggerNext]_lvars PROVE StageInv'
  OBVIOUS
<1> USE DestructorAssumption DEF StageInv, loggerVars, futuresVars, callVars, waitVars, vars, Threads
<1>1. CASE UNCHANGED lvars
  BY <1>1 DEF lvars
<1>2. CASE OpenFile \/ Destroy \/ CloseFile \/ DestroyMembers
  BY <1>2 DEF OpenFile, Destroy, CloseFile, DestroyMembers
<1>3. CASE WaitLook \/ WaitTake \/ WaitGet
  BY <1>3 DEF WaitLook, WaitTake, WaitGet
<1>4. CASE WaitEnd
  BY <1>4 DEF WaitEnd, ClearFutures
<1>5. CASE PoolOwner
  BY <1>5 DEF PoolOwner, StartThrows, StartDone, StoreDone, NotifyAll, JoinAndDestroy,
              DestroyQueue
<1>6. ASSUME NEW c \in Clients, LogSubmit(c) \/ Notify(c) PROVE StageInv'
  BY <1>6 DEF LogSubmit, Notify, NotifyOne
<1>7. ASSUME NEW c \in Clients, LogStore(c) \/ LogBack(c) \/ ShareRead(c) \/ ShareEmpty(c) PROVE StageInv'
  BY <1>7 DEF LogStore, StoreFuture, LogBack, ShareRead, ShareEmpty
<1>8. ASSUME NEW t \in Clients \cup {Destructor}, WaitBegin(t) PROVE StageInv'
  BY <1>8 DEF WaitBegin
<1>9. ASSUME NEW w \in Workers, Acquire(w) PROVE StageInv'
  BY <1>9 DEF Acquire, StartBody, TakeTask, TakeWith, ReturnEmpty, PredicateFalse, GoToSleep
<1>10. ASSUME NEW w \in Workers, PoolWorker(w) PROVE StageInv'
  BY <1>10 DEF PoolWorker, StartThread, LoopTest, Park, SpuriousWake
<1>11. ASSUME NEW w \in Workers, WriteFile(w) \/ WriteConsole(w) \/ EndBody(w) PROVE StageInv'
  BY <1>11 DEF WriteFile, AppendToFile, WriteConsole, EndBody, EndFrom, FinishTask
<1> QED
  BY <1>1, <1>2, <1>3, <1>4, <1>5, <1>6, <1>7, <1>8, <1>9, <1>10, <1>11
  DEF LoggerNext, WaitStep

(* Steps in which no line is written and no task begins or ends; the file  *)
(* is opened by such a step, before there are lines.                       *)
Quiet ==
    /\ UNCHANGED <<body, task, ready, file, console>>
    /\ FileOpen' => FileOpen \/ stage = "building"

LEMMA QuietSteps ==
    ASSUME StageInv, [LoggerNext]_lvars
    PROVE  \/ Quiet
           \/ \E w \in Workers : StartBody(w) \/ WriteFile(w) \/ WriteConsole(w) \/ EndBody(w)
<1> USE DEF Quiet, FileOpen, loggerVars, outputVars, vars
<1>1. CASE UNCHANGED lvars
  BY <1>1 DEF lvars
<1>2. CASE OpenFile \/ Destroy \/ CloseFile \/ DestroyMembers
  BY <1>2 DEF OpenFile, Destroy, CloseFile, DestroyMembers
<1>3. CASE WaitLook \/ WaitTake \/ WaitGet
  BY <1>3 DEF WaitLook, WaitTake, WaitGet
<1>4. CASE WaitEnd
  BY <1>4 DEF WaitEnd, ClearFutures, StageInv
<1>5. CASE PoolOwner
  BY <1>5 DEF PoolOwner, StartThrows, StartDone, StoreDone, NotifyAll, JoinAndDestroy,
              DestroyQueue
<1>6. ASSUME NEW c \in Clients, LogSubmit(c) \/ Notify(c) PROVE Quiet
  BY <1>6 DEF LogSubmit, Submit, Push, Enqueue, Notify, NotifyOne
<1>7. ASSUME NEW c \in Clients, LogStore(c) \/ LogBack(c) \/ ShareRead(c) \/ ShareEmpty(c) PROVE Quiet
  BY <1>7 DEF LogStore, StoreFuture, LogBack, ShareRead, ShareEmpty
<1>8. ASSUME NEW t \in Clients \cup {Destructor}, WaitBegin(t) PROVE Quiet
  BY <1>8 DEF WaitBegin
<1>9. ASSUME NEW w \in Workers, Acquire(w), ~StartBody(w) PROVE Quiet
  BY <1>9 DEF Acquire, ReturnEmpty, PredicateFalse, GoToSleep
<1>10. ASSUME NEW w \in Workers, PoolWorker(w) PROVE Quiet
  BY <1>10 DEF PoolWorker, StartThread, LoopTest, Park, SpuriousWake
<1> QED
  BY <1>1, <1>2, <1>3, <1>4, <1>5, <1>6, <1>7, <1>8, <1>9, <1>10
  DEF LoggerNext, WaitStep

(* Before the file is open there is nothing to be in it. *)
LEMMA NothingBeforeOpen ==
    ASSUME PoolInv, LinesInv, stage = "building"
    PROVE  ready = {} /\ \A w \in Workers : body[w] = "none"
<1>1. 1 .. submitted = {}
  BY DEF LinesInv, StageInv
<1>2. ready = {} /\ RunningTasks = {}
  BY <1>1 DEF PoolInv, EveryTaskInOnePlace
<1>3. \A w \in Workers : task[w] = 0
  BY <1>2, Zenon DEF RunningTasks
<1> QED
  BY <1>2, <1>3 DEF LinesInv, LinesTypeOK

LEMMA QuietKeepsLines ==
    ASSUME PoolInv, LinesInv, Quiet
    PROVE  LinesTypeOK' /\ WrittenByTask' /\ NoLineTwice' /\ TaskWrote'
<1> USE DEF Quiet, LinesInv
<1>1. LinesTypeOK' /\ WrittenByTask' /\ NoLineTwice'
  BY DEF LinesTypeOK, WrittenByTask, NoLineTwice
<1>2. \A i : (InFile(i)' <=> InFile(i)) /\ (OnConsole(i)' <=> OnConsole(i))
  BY DEF InFile, OnConsole
<1>3. CASE stage = "building"
  <2>1. ready' = {} /\ \A w \in Workers : body'[w] = "none"
    BY <1>3, NothingBeforeOpen
  <2> QED BY <1>1, <2>1 DEF TaskWrote
<1>4. CASE FileOpen' => FileOpen
  BY <1>1, <1>2, <1>4 DEF TaskWrote
<1> QED BY <1>3, <1>4

LEMMA StartKeepsLines ==
    ASSUME PoolInv, LinesInv, NEW w \in Workers, StartBody(w)
    PROVE  LinesTypeOK' /\ WrittenByTask' /\ NoLineTwice' /\ TaskWrote'
<1> USE DEF LinesInv, LinesTypeOK
<1>1. /\ body' = [body EXCEPT ![w] = "file"] /\ task' = [task EXCEPT ![w] = Head(m_tasks)]
      /\ UNCHANGED <<ready, file, console, stage>> /\ m_tasks # << >> /\ pc[w] = "acquire"
  BY DEF StartBody, TakeTask, TakeWith, futuresVars
<1>2. Head(m_tasks) \in TaskIds /\ Head(m_tasks) # 0
  BY <1>1, MaxTasksAssumption DEF PoolInv, TypeOK, TaskIds
<1>3. task[w] = 0 /\ body[w] = "none" /\ task \in [Workers -> TaskIds \cup {0}]
  BY <1>1 DEF PoolInv, RunsATask, TypeOK
<1>4. LinesTypeOK'
  BY <1>1, <1>2, <1>3 DEF Bodies
<1>5. \A v \in Workers : body[v] \in {"console", "done"} => body'[v] = body[v] /\ task'[v] = task[v]
  BY <1>1, <1>3
<1>6. \A v \in Workers : body'[v] \in {"console", "done"} => body'[v] = body[v] /\ task'[v] = task[v]
  BY <1>1, <1>3
<1>7. WrittenByTask'
  BY <1>1, <1>5 DEF WrittenByTask
<1>8. NoLineTwice'
  BY <1>1 DEF NoLineTwice
<1>9. TaskWrote'
  BY <1>1, <1>6 DEF TaskWrote, InFile, OnConsole, FileOpen
<1> QED BY <1>4, <1>7, <1>8, <1>9

(* A line that its own worker has not written is nowhere. *)
LEMMA NotYetWritten ==
    ASSUME PoolInv, LinesInv, NEW w \in Workers, task[w] # 0
    PROVE  /\ task[w] \in TaskIds /\ task[w] \notin ready
           /\ body[w] \notin {"console", "done"} => ~InFile(task[w])
           /\ body[w] # "done" => ~OnConsole(task[w])
<1> USE DEF LinesInv
<1>1. task[w] \in TaskIds /\ task[w] \in RunningTasks
  BY DEF PoolInv, TypeOK, RunningTasks
<1>2. task[w] \notin ready /\ \A v \in Workers : task[v] = task[w] => v = w
  BY <1>1 DEF PoolInv, EveryTaskInOnePlace
<1> QED
  BY <1>1, <1>2 DEF WrittenByTask, InFile, OnConsole

(* What appending a new line does. *)
LEMMA AppendNew ==
    ASSUME NEW s \in Seq(TaskIds), NEW i \in TaskIds,
           \A j, k \in 1 .. Len(s) : s[j] = s[k] => j = k,
           \A k \in 1 .. Len(s) : s[k] # i
    PROVE  /\ Append(s, i) \in Seq(TaskIds)
           /\ Len(Append(s, i)) = Len(s) + 1
           /\ \A k \in 1 .. Len(s) : Append(s, i)[k] = s[k]
           /\ Append(s, i)[Len(s) + 1] = i
           /\ \A j, k \in 1 .. Len(Append(s, i)) : Append(s, i)[j] = Append(s, i)[k] => j = k
<1>1. /\ Append(s, i) \in Seq(TaskIds) /\ Len(Append(s, i)) = Len(s) + 1
      /\ \A k \in 1 .. Len(s) : Append(s, i)[k] = s[k]
      /\ Append(s, i)[Len(s) + 1] = i
  BY AppendProperties
<1>2. \A k \in 1 .. Len(s) + 1 : k \in 1 .. Len(s) \/ k = Len(s) + 1
  BY LenProperties
<1> QED BY <1>1, <1>2

LEMMA FileKeepsLines ==
    ASSUME PoolInv, LinesInv, NEW w \in Workers, WriteFile(w)
    PROVE  LinesTypeOK' /\ WrittenByTask' /\ NoLineTwice' /\ TaskWrote'
<1> USE DEF LinesInv
<1>1. /\ body' = [body EXCEPT ![w] = "console"] /\ body[w] = "file"
      /\ file' = (IF FileOpen THEN Append(file, task[w]) ELSE file)
      /\ UNCHANGED <<ready, task, console, stage>>
  BY DEF WriteFile, AppendToFile, vars
<1>2. task[w] # 0 /\ \A v \in Workers \ {w} : body'[v] = body[v]
  BY <1>1 DEF LinesTypeOK
<1>3. body'[w] = "console" /\ body' \in [Workers -> Bodies]
  BY <1>1 DEF LinesTypeOK, Bodies
<1>4. task[w] \in TaskIds /\ \A k \in 1 .. Len(file) : file[k] # task[w]
  BY <1>1, <1>2, NotYetWritten DEF InFile
<1>5. CASE FileOpen
  <2>1. /\ file' \in Seq(TaskIds) /\ Len(file') = Len(file) + 1
        /\ \A k \in 1 .. Len(file) : file'[k] = file[k]
        /\ file'[Len(file) + 1] = task[w]
        /\ \A j, k \in 1 .. Len(file') : file'[j] = file'[k] => j = k
    BY <1>1, <1>4, <1>5, AppendNew DEF LinesTypeOK, NoLineTwice
  <2>2. Len(file) \in Nat
    BY LenProperties DEF LinesTypeOK
  <2>3. LinesTypeOK'
    BY <1>1, <1>2, <1>3, <2>1 DEF LinesTypeOK
  <2>4. \A k \in 1 .. Len(file') : k \in 1 .. Len(file) \/ file'[k] = task[w]
    BY <2>1, <2>2
  <2>5. \A k \in 1 .. Len(file') :
           file'[k] \in ready \/ \E v \in Workers : task[v] = file'[k] /\ body'[v] \in {"console", "done"}
    BY <1>2, <1>3, <2>1, <2>4 DEF WrittenByTask
  <2>6. \A k \in 1 .. Len(console) :
           console[k] \in ready \/ \E v \in Workers : task[v] = console[k] /\ body'[v] = "done"
    BY <1>1, <1>2 DEF WrittenByTask
  <2>7. WrittenByTask'
    BY <1>1, <2>5, <2>6 DEF WrittenByTask
  <2>8. NoLineTwice'
    BY <1>1, <2>1 DEF NoLineTwice
  <2>9. \A i : InFile(i) \/ i = task[w] => InFile(i)'
    BY <2>1, <2>2 DEF InFile
  <2>10. TaskWrote'
    BY <1>1, <1>2, <1>3, <1>5, <2>9 DEF TaskWrote, OnConsole, FileOpen
  <2> QED BY <2>3, <2>7, <2>8, <2>10
<1>6. CASE ~FileOpen
  <2>1. UNCHANGED file /\ ~FileOpen'
    BY <1>1, <1>6 DEF FileOpen
  <2>2. LinesTypeOK' /\ NoLineTwice'
    BY <1>1, <1>2, <1>3, <2>1 DEF LinesTypeOK, NoLineTwice
  <2>3. WrittenByTask'
    BY <1>1, <1>2, <1>3, <2>1 DEF WrittenByTask
  <2>4. TaskWrote'
    BY <1>1, <1>2, <1>3, <2>1 DEF TaskWrote, OnConsole
  <2> QED BY <2>2, <2>3, <2>4
<1> QED BY <1>5, <1>6

LEMMA ConsoleKeepsLines ==
    ASSUME PoolInv, LinesInv, NEW w \in Workers, WriteConsole(w)
    PROVE  LinesTypeOK' /\ WrittenByTask' /\ NoLineTwice' /\ TaskWrote'
<1> USE DEF LinesInv
<1>1. /\ body' = [body EXCEPT ![w] = "done"] /\ body[w] = "console"
      /\ console' = Append(console, task[w])
      /\ UNCHANGED <<ready, task, file, stage>>
  BY DEF WriteConsole, vars
<1>2. task[w] # 0 /\ \A v \in Workers \ {w} : body'[v] = body[v]
  BY <1>1 DEF LinesTypeOK
<1>3. body'[w] = "done" /\ body' \in [Workers -> Bodies]
  BY <1>1 DEF LinesTypeOK, Bodies
<1>4. task[w] \in TaskIds /\ \A k \in 1 .. Len(console) : console[k] # task[w]
  BY <1>1, <1>2, NotYetWritten DEF OnConsole
<1>5. /\ console' \in Seq(TaskIds) /\ Len(console') = Len(console) + 1
      /\ \A k \in 1 .. Len(console) : console'[k] = console[k]
      /\ console'[Len(console) + 1] = task[w]
      /\ \A j, k \in 1 .. Len(console') : console'[j] = console'[k] => j = k
  BY <1>1, <1>4, AppendNew DEF LinesTypeOK, NoLineTwice
<1>6. Len(console) \in Nat
  BY LenProperties DEF LinesTypeOK
<1>7. LinesTypeOK'
  BY <1>1, <1>2, <1>3, <1>5 DEF LinesTypeOK
<1>8. \A k \in 1 .. Len(console') : k \in 1 .. Len(console) \/ console'[k] = task[w]
  BY <1>5, <1>6
<1>9. \A k \in 1 .. Len(console') :
         console'[k] \in ready \/ \E v \in Workers : task[v] = console'[k] /\ body'[v] = "done"
  BY <1>1, <1>2, <1>3, <1>5, <1>8 DEF WrittenByTask
<1>10. \A k \in 1 .. Len(file) :
         file[k] \in ready \/ \E v \in Workers : task[v] = file[k] /\ body'[v] \in {"console", "done"}
  BY <1>1, <1>2, <1>3 DEF WrittenByTask
<1>11. WrittenByTask'
  BY <1>1, <1>9, <1>10 DEF WrittenByTask
<1>12. NoLineTwice'
  BY <1>1, <1>5 DEF NoLineTwice
<1>13. \A i : OnConsole(i) \/ i = task[w] => OnConsole(i)'
  BY <1>5, <1>6 DEF OnConsole
<1>14. TaskWrote'
  BY <1>1, <1>2, <1>3, <1>13 DEF TaskWrote, InFile, FileOpen
<1> QED BY <1>7, <1>11, <1>12, <1>14

LEMMA EndKeepsLines ==
    ASSUME PoolInv, LinesInv, NEW w \in Workers, EndBody(w)
    PROVE  LinesTypeOK' /\ WrittenByTask' /\ NoLineTwice' /\ TaskWrote'
<1> USE DEF LinesInv
<1>1. /\ body' = [body EXCEPT ![w] = "none"] /\ body[w] = "done"
      /\ task' = [task EXCEPT ![w] = 0] /\ ready' = ready \cup {task[w]}
      /\ UNCHANGED <<file, console, stage>>
  BY DEF EndBody, EndFrom, FinishTask
<1>2. task \in [Workers -> TaskIds \cup {0}]
  BY DEF PoolInv, TypeOK
<1>3. /\ body'[w] = "none" /\ task'[w] = 0 /\ body' \in [Workers -> Bodies]
      /\ \A v \in Workers \ {w} : body'[v] = body[v] /\ task'[v] = task[v]
  BY <1>1, <1>2 DEF LinesTypeOK, Bodies
<1>4. LinesTypeOK' /\ NoLineTwice'
  BY <1>1, <1>3 DEF LinesTypeOK, NoLineTwice
<1>5. WrittenByTask'
  BY <1>1, <1>3 DEF WrittenByTask
<1>6. TaskWrote'
  BY <1>1, <1>3 DEF TaskWrote, InFile, OnConsole, FileOpen
<1> QED BY <1>4, <1>5, <1>6

LEMMA LinesStep == PoolInv /\ LinesInv /\ [LoggerNext]_lvars => LinesInv'
<1> SUFFICES ASSUME PoolInv, LinesInv, [LoggerNext]_lvars PROVE LinesInv'
  OBVIOUS
<1>1. StageInv'
  BY StageStep DEF LinesInv
<1>2. LinesTypeOK' /\ WrittenByTask' /\ NoLineTwice' /\ TaskWrote'
  BY QuietSteps, QuietKeepsLines, StartKeepsLines, FileKeepsLines, ConsoleKeepsLines,
     EndKeepsLines DEF LinesInv
<1> QED BY <1>1, <1>2 DEF LinesInv

(* In every reachable state of the logger its pool keeps the pool's        *)
(* invariant, and LinesInv holds.                                          *)
LEMMA LoggerInvariant == LoggerSpec => [](PoolInv /\ LinesInv)
<1>1. LoggerInit => PoolInv /\ LinesInv
  BY PoolInvInit, LinesInit DEF LoggerInit
<1>2. PoolInv /\ LinesInv /\ [LoggerNext]_lvars => PoolInv' /\ LinesInv'
  BY PoolInvStep, LoggerStepsPool, LinesStep
<1> QED BY <1>1, <1>2, PTL DEF LoggerSpec

(* No line is written twice, to the file or to the console, whichever      *)
(* workers run the tasks of Log and however they overlap.                  *)
THEOREM LinesWrittenOnce == LoggerSpec => []NoLineTwice
<1>1. LinesInv => NoLineTwice
  BY DEF LinesInv
<1> QED BY <1>1, LoggerInvariant, PTL

(* A settled future means a written line, while the file is open. *)
THEOREM SettledIsWritten == LoggerSpec => []ReadyMeansWritten
<1>1. LinesInv => ReadyMeansWritten
  BY DEF LinesInv, TaskWrote, ReadyMeansWritten, InFile, OnConsole
<1> QED BY <1>1, LoggerInvariant, PTL

-----------------------------------------------------------------------------
(* Futures: what Log has stored and what its calls refer to. *)
Futures == [line : TaskIds, valid : BOOLEAN]

FutureTypeOK ==
    /\ m_futures \in Seq(Futures)
    /\ \A i \in DOMAIN m_futures : m_futures[i].line \in 1 .. submitted
    /\ logPc \in [Clients -> {"idle", "store", "back", "share", "empty"}]
    /\ ref \in [Clients -> Nat]
    /\ \A c \in Clients : ref[c] <= Len(m_futures)
    /\ line \in [Clients -> 0 .. submitted]
    /\ \A c \in Clients : logPc[c] = "store" => line[c] # 0
    /\ got \in [Clients -> Nat]
    /\ cursor \in Nat \ {0}
    /\ waitPc \in {"look", "take", "get"}
    /\ waitPc # "look" => waiter # NoOne /\ cursor <= Len(m_futures)

LEMMA AnyFuture ==
    ASSUME NEW s \in Seq(Futures), NEW i \in DOMAIN s
    PROVE  s[i] \in Futures
BY ElementOfSeq, LenProperties

LEMMA FutureInit == LoggerInit => FutureTypeOK
BY DEF LoggerInit, Init, FutureTypeOK, NoFuture

LEMMA SubmitKeepsFutures ==
    ASSUME PoolInv, FutureTypeOK, NEW c \in Clients, LogSubmit(c)
    PROVE  FutureTypeOK'
<1> USE MaxTasksAssumption
<1>1. /\ submitted \in Nat /\ submitted' = submitted + 1
      /\ line' = [line EXCEPT ![c] = submitted + 1]
      /\ logPc' = [logPc EXCEPT ![c] = "store"]
      /\ UNCHANGED <<m_futures, ref, got, waitVars>>
  BY DEF LogSubmit, Submit, Push, Enqueue, PoolInv, TypeOK
<1>2. /\ line' \in [Clients -> 0 .. submitted'] /\ line'[c] = submitted + 1
      /\ \A d \in Clients \ {c} : line'[d] = line[d] /\ logPc'[d] = logPc[d]
  BY <1>1 DEF FutureTypeOK
<1> QED BY <1>1, <1>2 DEF FutureTypeOK, waitVars

(* What emplace_back makes of the elements. *)
LEMMA Stored ==
    ASSUME PoolInv, FutureTypeOK, NEW c \in Clients, StoreFuture(c)
    PROVE  /\ m_futures' \in Seq(Futures)
           /\ Len(m_futures) \in Nat /\ DOMAIN m_futures = 1 .. Len(m_futures)
           /\ Len(m_futures') = Len(m_futures) + 1 /\ DOMAIN m_futures' = 1 .. Len(m_futures')
           /\ \A i \in 1 .. Len(m_futures) : m_futures'[i] = m_futures[i]
           /\ m_futures'[Len(m_futures')].line = line[c] /\ m_futures'[Len(m_futures')].valid
           /\ line[c] \in 1 .. submitted
<1> DEFINE f == [line |-> line[c], valid |-> TRUE]
<1>1. m_futures' = Append(m_futures, f) /\ logPc[c] = "store"
  BY DEF StoreFuture
<1>2. line[c] \in TaskIds /\ line[c] \in 1 .. submitted
  <2>1. MaxTasks \in Nat /\ submitted \in 0 .. MaxTasks
    BY MaxTasksAssumption DEF PoolInv, TypeOK
  <2>2. line[c] \in 0 .. submitted /\ line[c] # 0
    BY <1>1 DEF FutureTypeOK
  <2> QED BY <2>1, <2>2 DEF TaskIds
<1>3. f \in Futures /\ m_futures \in Seq(Futures) /\ f.line = line[c] /\ f.valid
  BY <1>2 DEF FutureTypeOK, Futures
<1> HIDE DEF f
<1>4. /\ m_futures' \in Seq(Futures)
      /\ Len(m_futures') = Len(m_futures) + 1
      /\ \A i \in 1 .. Len(m_futures) : m_futures'[i] = m_futures[i]
      /\ m_futures'[Len(m_futures) + 1] = f
  BY <1>1, <1>3, AppendProperties
<1>5. /\ Len(m_futures) \in Nat /\ DOMAIN m_futures = 1 .. Len(m_futures)
      /\ DOMAIN m_futures' = 1 .. Len(m_futures')
  BY <1>3, <1>4, LenProperties
<1> QED BY <1>2, <1>3, <1>4, <1>5

LEMMA StoreKeepsFutures ==
    ASSUME PoolInv, FutureTypeOK, NEW c \in Clients, LogStore(c)
    PROVE  FutureTypeOK'
<1>1. /\ StoreFuture(c) /\ waiter = NoOne
      /\ logPc' = [logPc EXCEPT ![c] = "back"]
      /\ ref' \in {ref, [d \in Clients |-> 0]}
      /\ UNCHANGED <<line, submitted, got, waiter, cursor, waitPc>>
  BY DEF LogStore, StoreFuture, FuturesMutexFree, vars, waitVars
<1>2. /\ m_futures' \in Seq(Futures)
      /\ \A i \in DOMAIN m_futures' : m_futures'[i].line \in 1 .. submitted
  <2>1. ASSUME NEW i \in DOMAIN m_futures'
        PROVE  m_futures'[i].line \in 1 .. submitted
    <3>1. i \in 1 .. Len(m_futures) \/ i = Len(m_futures')
      BY <1>1, Stored
    <3> QED BY <1>1, <3>1, Stored DEF FutureTypeOK
  <2> QED BY <1>1, <2>1, Stored
<1>3. ref' \in [Clients -> Nat] /\ \A d \in Clients : ref'[d] <= Len(m_futures')
  BY <1>1, Stored DEF FutureTypeOK
<1>4. \A d \in Clients : logPc'[d] = "store" => logPc[d] = "store"
  BY <1>1 DEF FutureTypeOK
<1> QED BY <1>1, <1>2, <1>3, <1>4 DEF FutureTypeOK

(* A stored future emptied: by share(), or by get(). *)
LEMMA Emptied ==
    ASSUME FutureTypeOK, NEW n \in DOMAIN m_futures,
           m_futures' = [m_futures EXCEPT ![n].valid = FALSE]
    PROVE  /\ m_futures' \in Seq(Futures)
           /\ Len(m_futures') = Len(m_futures) /\ DOMAIN m_futures' = DOMAIN m_futures
           /\ ~m_futures'[n].valid /\ m_futures'[n].line = m_futures[n].line
           /\ \A i \in DOMAIN m_futures \ {n} : m_futures'[i] = m_futures[i]
<1>1. m_futures' = [m_futures EXCEPT ![n] = [m_futures[n] EXCEPT !.valid = FALSE]]
  OBVIOUS
<1>2. m_futures \in Seq(Futures) /\ m_futures[n] \in Futures
  BY AnyFuture DEF FutureTypeOK
<1> DEFINE e == [m_futures[n] EXCEPT !.valid = FALSE]
<1>3. e \in Futures /\ ~e.valid /\ e.line = m_futures[n].line
  BY <1>2 DEF Futures
<1> HIDE DEF e
<1>4. DOMAIN m_futures = 1 .. Len(m_futures) /\ n \in 1 .. Len(m_futures)
  BY <1>2, LenProperties
<1>5. m_futures' = [m_futures EXCEPT ![n] = e]
  BY <1>1 DEF e
<1>6. /\ [m_futures EXCEPT ![n] = e] \in Seq(Futures)
      /\ Len([m_futures EXCEPT ![n] = e]) = Len(m_futures)
  <2>1. /\ \A i \in 1 .. Len(m_futures) : m_futures[i] \in Futures
        /\ Len(m_futures) \in Nat
    BY <1>2, <1>4, ElementOfSeq, LenProperties
  <2> QED BY <1>2, <1>3, <1>4, ExceptSeq, SMT
<1>7. DOMAIN m_futures' = DOMAIN m_futures
  BY <1>5
<1> QED BY <1>3, <1>4, <1>5, <1>6, <1>7

(* The steps of share().                                                   *)
LEMMA ShareKeepsFutures ==
    ASSUME PoolInv, FutureTypeOK, NEW c \in Clients, LogBack(c) \/ ShareRead(c) \/ ShareEmpty(c)
    PROVE  FutureTypeOK'
<1> USE DEF NoFuture
<1>0. Len(m_futures) \in Nat /\ DOMAIN m_futures = 1 .. Len(m_futures)
  BY LenProperties DEF FutureTypeOK
<1>1. CASE LogBack(c)
  <2>1. /\ ref' = [ref EXCEPT ![c] = Len(m_futures)] /\ logPc' = [logPc EXCEPT ![c] = "share"]
        /\ UNCHANGED <<m_futures, line, submitted, got, waiter, cursor, waitPc>>
    BY <1>1 DEF LogBack, vars, waitVars
  <2>2. \A d \in Clients : logPc'[d] = "store" => logPc[d] = "store"
    BY <2>1
  <2> QED BY <1>0, <2>1, <2>2 DEF FutureTypeOK
<1>2. CASE ShareRead(c)
  <2>1. /\ logPc' = [logPc EXCEPT ![c] = "empty"]
        /\ UNCHANGED <<ref, m_futures, line, submitted, waiter, cursor, waitPc>>
    BY <1>2 DEF ShareRead, vars, waitVars
  <2>2. \A d \in Clients : logPc'[d] = "store" => logPc[d] = "store"
    BY <2>1
  <2>3. PICK g : /\ g = IF ref[c] # 0 /\ m_futures[ref[c]].valid
                        THEN m_futures[ref[c]].line ELSE 0
                 /\ got' = [got EXCEPT ![c] = g]
    BY <1>2 DEF ShareRead
  <2>4. g \in Nat
    <3>1. CASE ref[c] # 0
      <4>1. ref[c] \in DOMAIN m_futures
        BY <1>0, <3>1 DEF FutureTypeOK
      <4>2. m_futures[ref[c]].line \in 1 .. submitted
        BY <4>1 DEF FutureTypeOK
      <4> QED BY <2>3, <4>2
    <3> QED BY <2>3, <3>1
  <2> QED BY <2>1, <2>2, <2>3, <2>4 DEF FutureTypeOK
<1>3. CASE ShareEmpty(c)
  <2>1. /\ logPc' = [logPc EXCEPT ![c] = "idle"] /\ line' = [line EXCEPT ![c] = 0]
        /\ ref' = [ref EXCEPT ![c] = 0] /\ got' = [got EXCEPT ![c] = 0]
        /\ UNCHANGED <<submitted, waiter, cursor, waitPc>>
    BY <1>3 DEF ShareEmpty, vars, waitVars
  <2>2. \A d \in Clients : logPc'[d] = "store" => logPc[d] = "store" /\ line'[d] = line[d]
    BY <2>1 DEF FutureTypeOK
  <2>3. /\ m_futures' \in Seq(Futures) /\ Len(m_futures') = Len(m_futures)
        /\ \A i \in DOMAIN m_futures' : m_futures'[i].line \in 1 .. submitted
    <3>1. CASE ref[c] = 0
      BY <1>3, <3>1 DEF ShareEmpty, FutureTypeOK
    <3>2. CASE ref[c] # 0
      <4>1. ref[c] \in DOMAIN m_futures
        BY <1>0, <3>2 DEF FutureTypeOK
      <4>2. m_futures' = [m_futures EXCEPT ![ref[c]].valid = FALSE]
        BY <1>3, <3>2 DEF ShareEmpty
      <4>3. \A i \in DOMAIN m_futures' : i \in DOMAIN m_futures /\ m_futures'[i].line = m_futures[i].line
        BY <4>1, <4>2, Emptied
      <4> QED BY <4>1, <4>2, <4>3, Emptied DEF FutureTypeOK
    <3> QED BY <3>1, <3>2
  <2>4. submitted \in Nat
    BY MaxTasksAssumption DEF PoolInv, TypeOK
  <2>5. /\ line' \in [Clients -> 0 .. submitted'] /\ ref' \in [Clients -> Nat]
        /\ got' \in [Clients -> Nat]
    BY <2>1, <2>4, <1>0 DEF FutureTypeOK
  <2>6. \A d \in Clients : ref'[d] <= Len(m_futures')
    BY <2>1, <2>3, <1>0 DEF FutureTypeOK
  <2> QED BY <2>1, <2>2, <2>3, <2>5, <2>6 DEF FutureTypeOK
<1> QED BY <1>1, <1>2, <1>3

LEMMA WaitKeepsFutures ==
    ASSUME FutureTypeOK, WaitStep
    PROVE  FutureTypeOK'
<1>0. Len(m_futures) \in Nat /\ DOMAIN m_futures = 1 .. Len(m_futures)
  BY LenProperties DEF FutureTypeOK
<1>1. UNCHANGED <<logPc, line, got, submitted>>
  BY DEF WaitStep, WaitLook, WaitTake, WaitGet, WaitEnd, ClearFutures, callVars, vars
<1>2. CASE WaitLook \/ WaitGet
  <2>1. UNCHANGED <<ref, m_futures, waiter>> /\ waiter # NoOne
    BY <1>2 DEF WaitLook, WaitGet, callVars
  <2>2. /\ cursor' \in Nat \ {0} /\ waitPc' \in {"look", "take"}
        /\ waitPc' = "take" => cursor' <= Len(m_futures)
    BY <1>2 DEF WaitLook, WaitGet, FutureTypeOK
  <2>3. /\ waitPc' \in {"look", "take", "get"}
        /\ waitPc' # "look" => waiter' # NoOne /\ cursor' <= Len(m_futures')
    BY <2>1, <2>2
  <2> QED BY <1>1, <2>1, <2>2, <2>3 DEF FutureTypeOK
<1>3. CASE WaitTake
  <2>1. /\ m_futures' = [m_futures EXCEPT ![cursor].valid = FALSE] /\ UNCHANGED ref
        /\ \/ waitPc' = "look"
           \/ waitPc' = "get" /\ waiter # NoOne /\ waiter' = waiter /\ cursor' = cursor
        /\ cursor' \in {1, cursor}
    BY <1>3 DEF WaitTake, callVars
  <2>2. cursor \in DOMAIN m_futures
    BY <1>0, <1>3 DEF WaitTake, FutureTypeOK
  <2>3. \A i \in DOMAIN m_futures' : i \in DOMAIN m_futures /\ m_futures'[i].line = m_futures[i].line
    BY <2>1, <2>2, Emptied
  <2>4. m_futures' \in Seq(Futures) /\ Len(m_futures') = Len(m_futures)
    BY <2>1, <2>2, Emptied
  <2>5. \A i \in DOMAIN m_futures' : m_futures'[i].line \in 1 .. submitted
    BY <2>3 DEF FutureTypeOK
  <2>6. cursor' \in Nat \ {0}
    BY <2>1 DEF FutureTypeOK
  <2> QED BY <1>0, <1>1, <2>1, <2>2, <2>4, <2>5, <2>6 DEF FutureTypeOK
<1>4. CASE WaitEnd
  BY <1>1, <1>4 DEF WaitEnd, ClearFutures, FutureTypeOK
<1> QED BY <1>2, <1>3, <1>4 DEF WaitStep

LEMMA QuietKeepsFutures ==
    ASSUME FutureTypeOK, UNCHANGED <<callVars, m_futures, cursor, waitPc, submitted>>,
           waitPc # "look" => waiter' = waiter
    PROVE  FutureTypeOK'
BY DEF FutureTypeOK, callVars

LEMMA FutureStep == PoolInv /\ FutureTypeOK /\ [LoggerNext]_lvars => FutureTypeOK'
<1> SUFFICES ASSUME PoolInv, FutureTypeOK, [LoggerNext]_lvars PROVE FutureTypeOK'
  OBVIOUS
<1> USE DEF loggerVars, futuresVars, waitVars, vars
<1>1. CASE UNCHANGED lvars
  BY <1>1, QuietKeepsFutures DEF lvars
<1>2. CASE OpenFile \/ Destroy \/ CloseFile \/ DestroyMembers
  BY <1>2, QuietKeepsFutures DEF OpenFile, Destroy, CloseFile, DestroyMembers
<1>3. CASE WaitStep
  BY <1>3, WaitKeepsFutures
<1>4. CASE PoolOwner
  BY <1>4, QuietKeepsFutures
     DEF PoolOwner, StartThrows, StartDone, StoreDone, NotifyAll, JoinAndDestroy, DestroyQueue
<1>5. ASSUME NEW c \in Clients, Notify(c) PROVE FutureTypeOK'
  BY <1>5, QuietKeepsFutures DEF Notify, NotifyOne
<1>6. ASSUME NEW c \in Clients,
             LogSubmit(c) \/ LogStore(c) \/ LogBack(c) \/ ShareRead(c) \/ ShareEmpty(c)
      PROVE  FutureTypeOK'
  BY <1>6, SubmitKeepsFutures, StoreKeepsFutures, ShareKeepsFutures
<1>7. ASSUME NEW t \in Clients \cup {Destructor}, WaitBegin(t) PROVE FutureTypeOK'
  BY <1>7, QuietKeepsFutures DEF WaitBegin, FuturesMutexFree, FutureTypeOK
<1>8. ASSUME NEW w \in Workers, Acquire(w) PROVE FutureTypeOK'
  BY <1>8, QuietKeepsFutures
     DEF Acquire, StartBody, TakeTask, TakeWith, ReturnEmpty, PredicateFalse, GoToSleep
<1>9. ASSUME NEW w \in Workers, PoolWorker(w) PROVE FutureTypeOK'
  BY <1>9, QuietKeepsFutures DEF PoolWorker, StartThread, LoopTest, Park, SpuriousWake
<1>10. ASSUME NEW w \in Workers, WriteFile(w) \/ WriteConsole(w) \/ EndBody(w) PROVE FutureTypeOK'
  BY <1>10, QuietKeepsFutures
     DEF WriteFile, AppendToFile, WriteConsole, EndBody, EndFrom, FinishTask
<1> QED
  BY <1>1, <1>2, <1>3, <1>4, <1>5, <1>6, <1>7, <1>8, <1>9, <1>10 DEF LoggerNext

-----------------------------------------------------------------------------
(* WaitAll waits with the pool alive: ~ThreadPool comes after it. *)
AliveInv ==
    /\ stage \in {"open", "waiting", "waited", "closed"} => owner = "up"
    /\ waiter # NoOne => stage \in {"open", "waiting"}

LEMMA StepAlive == AliveInv /\ [LoggerNext]_lvars => AliveInv'
<1> SUFFICES ASSUME AliveInv, [LoggerNext]_lvars PROVE AliveInv'
  OBVIOUS
<1> USE DEF AliveInv, vars, loggerVars, futuresVars, callVars, waitVars
<1>1. CASE UNCHANGED lvars
  BY <1>1 DEF lvars
<1>2. CASE OpenFile \/ Destroy \/ CloseFile \/ DestroyMembers
  BY <1>2 DEF OpenFile, Destroy, CloseFile, DestroyMembers
<1>3. CASE WaitStep
  BY <1>3 DEF WaitStep, WaitLook, WaitTake, WaitGet, WaitEnd, ClearFutures
<1>4. CASE PoolOwner
  BY <1>4 DEF PoolOwner, StartThrows, StartDone, StoreDone, NotifyAll, JoinAndDestroy,
              DestroyQueue
<1>5. ASSUME NEW c \in Clients, LogSubmit(c) \/ Notify(c) PROVE AliveInv'
  BY <1>5 DEF LogSubmit, Submit, Push, Enqueue, Notify, NotifyOne
<1>6. ASSUME NEW c \in Clients, LogStore(c) \/ LogBack(c) \/ ShareRead(c) \/ ShareEmpty(c) PROVE AliveInv'
  BY <1>6 DEF LogStore, StoreFuture, LogBack, ShareRead, ShareEmpty
<1>7. ASSUME NEW t \in Clients \cup {Destructor}, WaitBegin(t) PROVE AliveInv'
  BY <1>7 DEF WaitBegin
<1>8. ASSUME NEW w \in Workers, Acquire(w) \/ PoolWorker(w) PROVE AliveInv'
  BY <1>8 DEF Acquire, StartBody, TakeTask, TakeWith, ReturnEmpty, PredicateFalse, GoToSleep,
              PoolWorker, StartThread, LoopTest, Park, SpuriousWake
<1>9. ASSUME NEW w \in Workers, WriteFile(w) \/ WriteConsole(w) \/ EndBody(w) PROVE AliveInv'
  BY <1>9 DEF WriteFile, AppendToFile, WriteConsole, EndBody, EndFrom, FinishTask
<1> QED
  BY <1>1, <1>2, <1>3, <1>4, <1>5, <1>6, <1>7, <1>8, <1>9 DEF LoggerNext

(* WaitAll, which keeps every other Log out while it waits, waits for      *)
(* nothing that cannot come: the line of each future it finds is written,  *)
(* being written, or in the queue of a pool that has not been stopped.     *)
THEOREM AwaitedLineAlive ==
    LoggerSpec => [](waiter # NoOne =>
        /\ ~m_done
        /\ \A i \in DOMAIN m_futures :
              m_futures[i].line \in ready \cup RunningTasks \cup Range(m_tasks))
<1> DEFINE Alive == waiter # NoOne =>
              /\ ~m_done
              /\ \A i \in DOMAIN m_futures :
                    m_futures[i].line \in ready \cup RunningTasks \cup Range(m_tasks)
<1>1. LoggerInit => PoolInv /\ FutureTypeOK /\ AliveInv
  BY PoolInvInit, FutureInit DEF LoggerInit, AliveInv
<1>2. PoolInv /\ FutureTypeOK /\ [LoggerNext]_lvars => PoolInv' /\ FutureTypeOK'
  BY PoolInvStep, LoggerStepsPool, FutureStep
<1>3. PoolInv /\ FutureTypeOK /\ AliveInv => Alive
  <2> SUFFICES ASSUME PoolInv, FutureTypeOK, AliveInv, waiter # NoOne PROVE Alive
    OBVIOUS
  <2>1. ~m_done /\ broken = {}
    BY DEF AliveInv, PoolInv, OwnerInv
  <2>2. \A i \in DOMAIN m_futures : m_futures[i].line \in 1 .. submitted
    BY DEF FutureTypeOK
  <2>3. 1 .. submitted = Range(m_tasks) \cup RunningTasks \cup ready \cup broken
    BY DEF PoolInv, EveryTaskInOnePlace
  <2> QED BY <2>1, <2>2, <2>3, Zenon
<1>4. LoggerSpec => []Alive
  BY <1>1, <1>2, <1>3, StepAlive, PTL DEF LoggerSpec
<1> QED BY <1>4

-----------------------------------------------------------------------------
(* Without a race at most one call of Log is past the lock, nobody is in   *)
(* WaitAll meanwhile, and the last element is the future of that call: the *)
(* only one of m_futures that is valid.                                    *)
SoloInv ==
    ~raced =>
      /\ \A c, d \in Clients : PastLock(c) /\ PastLock(d) => c = d
      /\ \A c \in Clients : PastLock(c) =>
            /\ waiter = NoOne /\ Len(m_futures) # 0
            /\ m_futures[Len(m_futures)].line = line[c] /\ m_futures[Len(m_futures)].valid
            /\ logPc[c] # "back" => ref[c] = Len(m_futures)
            /\ logPc[c] = "empty" => got[c] = line[c]
      /\ \A i \in DOMAIN m_futures : m_futures[i].valid =>
            i = Len(m_futures) /\ \E c \in Clients : PastLock(c)
      /\ waitPc = "look"
      /\ ReturnsItsFuture

LEMMA SoloInit == LoggerInit => SoloInv
BY DEF LoggerInit, SoloInv, PastLock, ReturnsItsFuture

LEMMA SoloStays ==
    ASSUME SoloInv, UNCHANGED <<callVars, m_futures, waiter, waitPc, returned, raced>>
    PROVE  SoloInv'
BY DEF SoloInv, PastLock, ReturnsItsFuture, callVars

LEMMA SoloSubmits ==
    ASSUME FutureTypeOK, SoloInv, NEW c \in Clients, LogSubmit(c)
    PROVE  SoloInv'
<1>1. /\ logPc[c] = "idle" /\ logPc' = [logPc EXCEPT ![c] = "store"]
      /\ line' = [line EXCEPT ![c] = submitted + 1]
      /\ UNCHANGED <<ref, got, m_futures, waiter, waitPc, returned, raced>>
  BY DEF LogSubmit, waitVars
<1>2. /\ ~PastLock(c) /\ ~PastLock(c)'
      /\ \A d \in Clients \ {c} : logPc'[d] = logPc[d] /\ line'[d] = line[d]
  BY <1>1 DEF PastLock, FutureTypeOK
<1>3. \A d \in Clients : PastLock(d)' <=> PastLock(d)
  BY <1>2 DEF PastLock
<1> QED BY <1>1, <1>2, <1>3 DEF SoloInv, ReturnsItsFuture

LEMMA SoloStores ==
    ASSUME PoolInv, FutureTypeOK, SoloInv, NEW c \in Clients, LogStore(c), ~raced'
    PROVE  SoloInv'
<1>1. /\ StoreFuture(c) /\ waiter = NoOne /\ ~raced
      /\ \A d \in Clients : ~PastLock(d)
      /\ logPc' = [logPc EXCEPT ![c] = "back"]
      /\ UNCHANGED <<line, waiter, waitPc, returned>>
  BY DEF LogStore, StoreFuture, TakesLock, FuturesMutexFree, waitVars
<1>2. /\ logPc'[c] = "back" /\ PastLock(c)'
      /\ \A d \in Clients \ {c} : ~PastLock(d)'
  BY <1>1 DEF PastLock, FutureTypeOK
<1>3. \A i \in DOMAIN m_futures : ~m_futures[i].valid
  BY <1>1 DEF SoloInv
<1>4. /\ Len(m_futures') # 0 /\ m_futures'[Len(m_futures')].line = line[c]
      /\ m_futures'[Len(m_futures')].valid
      /\ \A i \in DOMAIN m_futures' : m_futures'[i].valid => i = Len(m_futures')
  <2>1. \A i \in DOMAIN m_futures' : i \in DOMAIN m_futures \/ i = Len(m_futures')
    BY <1>1, Stored
  <2> QED BY <1>1, <1>3, <2>1, Stored
<1> QED BY <1>1, <1>2, <1>4 DEF SoloInv, ReturnsItsFuture

LEMMA SoloTakesBack ==
    ASSUME FutureTypeOK, SoloInv, NEW c \in Clients, LogBack(c)
    PROVE  SoloInv'
<1>1. /\ logPc[c] = "back" /\ logPc' = [logPc EXCEPT ![c] = "share"]
      /\ ref' = [ref EXCEPT ![c] = Len(m_futures)]
      /\ UNCHANGED <<line, got, m_futures, waiter, waitPc, returned, raced>>
  BY DEF LogBack, waitVars
<1>2. /\ logPc'[c] = "share" /\ ref'[c] = Len(m_futures)
      /\ \A d \in Clients \ {c} : logPc'[d] = logPc[d] /\ ref'[d] = ref[d]
      /\ \A d \in Clients : PastLock(d)' <=> PastLock(d)
  BY <1>1 DEF PastLock, FutureTypeOK
<1> QED BY <1>1, <1>2 DEF SoloInv, ReturnsItsFuture

(* What share() reads is the future of its own line, ...                   *)
LEMMA SoloReads ==
    ASSUME FutureTypeOK, SoloInv, NEW c \in Clients, ShareRead(c)
    PROVE  SoloInv'
<1>1. /\ logPc[c] = "share" /\ logPc' = [logPc EXCEPT ![c] = "empty"]
      /\ UNCHANGED <<line, ref, m_futures, waiter, waitPc, returned, raced>>
  BY DEF ShareRead, waitVars
<1>2. /\ logPc'[c] = "empty" /\ PastLock(c)
      /\ \A d \in Clients \ {c} : logPc'[d] = logPc[d]
      /\ \A d \in Clients : PastLock(d)' <=> PastLock(d)
  BY <1>1 DEF PastLock, FutureTypeOK
<1>3. ~raced => got'[c] = line[c] /\ \A d \in Clients \ {c} : got'[d] = got[d]
  <2> SUFFICES ASSUME ~raced PROVE got'[c] = line[c] /\ \A d \in Clients \ {c} : got'[d] = got[d]
    OBVIOUS
  <2>1. /\ ref[c] = Len(m_futures) /\ Len(m_futures) # 0
        /\ m_futures[ref[c]].line = line[c] /\ m_futures[ref[c]].valid
    BY <1>1, <1>2 DEF SoloInv
  <2>2. got' = [got EXCEPT ![c] = line[c]]
    BY <2>1 DEF ShareRead
  <2> QED BY <2>2 DEF FutureTypeOK
<1> QED BY <1>1, <1>2, <1>3 DEF SoloInv, ReturnsItsFuture

(* ... and what it empties, so that none is left to wait for.              *)
LEMMA SoloEmpties ==
    ASSUME FutureTypeOK, SoloInv, NEW c \in Clients, ShareEmpty(c), ~raced
    PROVE  SoloInv'
<1> DEFINE n == Len(m_futures)
<1>1. /\ logPc[c] = "empty" /\ logPc' = [logPc EXCEPT ![c] = "idle"]
      /\ returned' = returned \cup {[line |-> line[c], future |-> got[c]]}
      /\ UNCHANGED <<waiter, waitPc, raced>>
  BY DEF ShareEmpty, waitVars
<1>2. /\ PastLock(c) /\ ~PastLock(c)'
      /\ \A d \in Clients \ {c} : PastLock(d)' <=> PastLock(d)
  BY <1>1 DEF PastLock, FutureTypeOK
<1>3. \A d \in Clients : ~PastLock(d)'
  BY <1>2 DEF SoloInv
<1>4. /\ n # 0 /\ ref[c] = n /\ got[c] = line[c]
      /\ \A i \in DOMAIN m_futures : m_futures[i].valid => i = n
  BY <1>1, <1>2 DEF SoloInv
<1>5. \A i \in DOMAIN m_futures' : ~m_futures'[i].valid
  <2>1. m_futures' = [m_futures EXCEPT ![n].valid = FALSE]
    BY <1>4 DEF ShareEmpty
  <2>2. n \in DOMAIN m_futures
    BY <1>4, LenProperties DEF FutureTypeOK
  <2>3. DOMAIN m_futures' = DOMAIN m_futures /\ ~m_futures'[n].valid
        /\ \A i \in DOMAIN m_futures \ {n} : m_futures'[i] = m_futures[i]
    BY <2>1, <2>2, Emptied
  <2> QED BY <1>4, <2>3
<1>6. ReturnsItsFuture'
  BY <1>1, <1>4 DEF SoloInv, ReturnsItsFuture
<1> QED BY <1>1, <1>3, <1>5, <1>6 DEF SoloInv

LEMMA SoloWaits ==
    ASSUME FutureTypeOK, SoloInv, WaitStep, ~raced
    PROVE  SoloInv'
<1>1. waiter # NoOne /\ UNCHANGED <<logPc, line, got, returned, raced>>
  BY DEF WaitStep, WaitLook, WaitTake, WaitGet, WaitEnd, ClearFutures, callVars
<1>2. /\ \A c \in Clients : ~PastLock(c) /\ ~PastLock(c)'
      /\ waitPc = "look" /\ ReturnsItsFuture
      /\ \A i \in DOMAIN m_futures : ~m_futures[i].valid
  BY <1>1 DEF SoloInv, PastLock
<1>3. waitPc' = "look" /\ \A i \in DOMAIN m_futures' : ~m_futures'[i].valid
  <2>1. CASE WaitLook
    <3>1. cursor \in DOMAIN m_futures
      BY <2>1, LenProperties DEF WaitLook, FutureTypeOK
    <3> QED BY <1>2, <2>1, <3>1 DEF WaitLook
  <2>2. CASE WaitEnd
    BY <1>2, <2>2 DEF WaitEnd, ClearFutures
  <2> QED BY <1>2, <2>1, <2>2 DEF WaitStep, WaitTake, WaitGet
<1> QED BY <1>1, <1>2, <1>3 DEF SoloInv, ReturnsItsFuture

LEMMA SoloStep == PoolInv /\ FutureTypeOK /\ SoloInv /\ [LoggerNext]_lvars => SoloInv'
<1> SUFFICES ASSUME PoolInv, FutureTypeOK, SoloInv, [LoggerNext]_lvars, ~raced' PROVE SoloInv'
  BY DEF SoloInv
<1> USE DEF loggerVars, futuresVars, waitVars
<1>1. CASE UNCHANGED lvars
  BY <1>1, SoloStays DEF lvars
<1>2. CASE OpenFile \/ Destroy \/ CloseFile \/ DestroyMembers
  BY <1>2, SoloStays DEF OpenFile, Destroy, CloseFile, DestroyMembers
<1>3. CASE WaitStep
  <2>1. ~raced
    BY <1>3 DEF WaitStep, WaitLook, WaitTake, WaitGet, WaitEnd, ClearFutures
  <2> QED BY <1>3, <2>1, SoloWaits
<1>4. CASE PoolOwner
  BY <1>4, SoloStays DEF PoolOwner
<1>5. ASSUME NEW c \in Clients, Notify(c) PROVE SoloInv'
  BY <1>5, SoloStays DEF Notify
<1>6. ASSUME NEW c \in Clients, ShareEmpty(c) PROVE SoloInv'
  <2>1. ~raced
    BY <1>6 DEF ShareEmpty
  <2> QED BY <1>6, <2>1, SoloEmpties
<1>7. ASSUME NEW c \in Clients, LogSubmit(c) \/ LogStore(c) \/ LogBack(c) \/ ShareRead(c)
      PROVE  SoloInv'
  BY <1>7, SoloSubmits, SoloStores, SoloTakesBack, SoloReads
<1>8. ASSUME NEW t \in Clients \cup {Destructor}, WaitBegin(t) PROVE SoloInv'
  <2>1. /\ ~raced /\ \A c \in Clients : ~PastLock(c)
        /\ UNCHANGED <<callVars, m_futures, waitPc, returned>>
    BY <1>8 DEF WaitBegin, TakesLock
  <2> QED BY <2>1 DEF SoloInv, PastLock, ReturnsItsFuture, callVars
<1>9. ASSUME NEW w \in Workers, Acquire(w) \/ PoolWorker(w) PROVE SoloInv'
  BY <1>9, SoloStays DEF Acquire, StartBody, PoolWorker
<1>10. ASSUME NEW w \in Workers, WriteFile(w) \/ WriteConsole(w) \/ EndBody(w) PROVE SoloInv'
  BY <1>10, SoloStays DEF WriteFile, AppendToFile, WriteConsole, EndBody, EndFrom
<1> QED
  BY <1>1, <1>2, <1>3, <1>4, <1>5, <1>6, <1>7, <1>8, <1>9, <1>10 DEF LoggerNext

LEMMA SoloInvariant == LoggerSpec => []SoloInv
<1>1. LoggerInit => PoolInv /\ FutureTypeOK /\ SoloInv
  BY PoolInvInit, FutureInit, SoloInit DEF LoggerInit
<1>2. PoolInv /\ FutureTypeOK /\ [LoggerNext]_lvars => PoolInv' /\ FutureTypeOK'
  BY PoolInvStep, LoggerStepsPool, FutureStep
<1> QED BY <1>1, <1>2, SoloStep, PTL DEF LoggerSpec

(* A call of Log returns the future of its own line, for any threads that  *)
(* log and wait, as long as none of them takes m_futuresMutex while        *)
(* another is past it: see OnlyRacesMixFutures.                            *)
THEOREM FuturesReturned == LoggerSpec => []OnlyRacesMixFutures
<1>1. SoloInv => OnlyRacesMixFutures
  BY DEF SoloInv, OnlyRacesMixFutures
<1> QED BY <1>1, SoloInvariant, PTL

(* Without such a race WaitAll, called by anybody or by the destructor,    *)
(* finds no valid future, as share() has emptied every one that Log        *)
(* stored.  It waits for no line whatever, and with it the destructor,     *)
(* which is what leads to the lines SafeShutdown finds lost.               *)
THEOREM WaitAllWaitsForNothing ==
    LoggerSpec => [](waiter # NoOne /\ ~raced =>
        waitPc = "look" /\ \A i \in DOMAIN m_futures : ~m_futures[i].valid)
<1>1. SoloInv => (waiter # NoOne /\ ~raced =>
                    waitPc = "look" /\ \A i \in DOMAIN m_futures : ~m_futures[i].valid)
  BY DEF SoloInv
<1> QED BY <1>1, SoloInvariant, PTL
=============================================================================
