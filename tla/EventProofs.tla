----------------------------- MODULE EventProofs -----------------------------
(* Proofs about the event providers, for any threads, workers and bounds. *)
EXTENDS EventProviders, FiniteSetTheorems, SequenceTheorems, TLAPS

(* The frames a Fire can have while the handlers in E are subscribed; that *)
(* every frame is one of those for m_SimpleEvents is FiresSubscribersOnly. *)
FramesFor(E) ==
    {f \in [left : SUBSET E, current : Nat, called : SUBSET E] :
        f.left \cup f.called = E /\ f.left \cap f.called = {}}

PcStates == {"run", "subscribe", "unsub", "fire", "notify"}
Subscribers == Waiting("subscribe")

EventInv ==
    /\ m_NextID \in Nat
    /\ m_NextID + Cardinality(Subscribers) <= MaxIds
    /\ m_SimpleEvents \subseteq HandlerIDs
    /\ connections \subseteq HandlerIDs
    /\ pc \in [Threads -> PcStates]
    /\ target \in [Threads -> Nat]
    /\ \A t \in Threads : pc[t] = "unsub" => target[t] \in HandlerIDs
    /\ frames \in [Threads -> Seq(FramesFor(m_SimpleEvents))]

-----------------------------------------------------------------------------
(* Sequences and sets *)

(* A handler is called or queued: it goes from left to called. *)
LEMMA FrameMoves ==
    ASSUME NEW E, NEW f \in FramesFor(E), NEW i \in f.left, NEW c \in Nat
    PROVE  [left |-> f.left \ {i}, current |-> c, called |-> f.called \cup {i}]
             \in FramesFor(E)
  BY DEF FramesFor

LEMMA FrameChangesCurrent ==
    ASSUME NEW E, NEW f \in FramesFor(E)
    PROVE  [f EXCEPT !.current = 0] \in FramesFor(E)
  BY DEF FramesFor

LEMMA FrameStarts ==
    ASSUME NEW E
    PROVE  [left |-> E, current |-> 0, called |-> {}] \in FramesFor(E)
  BY DEF FramesFor

LEMMA LastElement ==
    ASSUME NEW S, NEW s \in Seq(S), s # << >>
    PROVE  s[Len(s)] \in S /\ Len(s) \in 1 .. Len(s)
  OBVIOUS

LEMMA LastReplaced ==
    ASSUME NEW S, NEW s \in Seq(S), s # << >>, NEW x \in S
    PROVE  [s EXCEPT ![Len(s)] = x] \in Seq(S)
  BY LastElement, ExceptSeq

LEMMA LastDropped ==
    ASSUME NEW S, NEW s \in Seq(S), s # << >>
    PROVE  SubSeq(s, 1, Len(s) - 1) \in Seq(S)
  OBVIOUS

(* Waiting("subscribe") is finite and counted. *)
LEMMA SubscribersFinite == IsFiniteSet(Subscribers)
  BY ThreadsAssumption, FS_Subset DEF Subscribers, Waiting

LEMMA SubscriberCounts ==
    ASSUME pc \in [Threads -> PcStates], NEW t \in Threads, NEW x \in PcStates,
           pc' = [pc EXCEPT ![t] = x]
    PROVE  /\ pc' \in [Threads -> PcStates]
           /\ pc[t] # "subscribe" /\ x # "subscribe" => Subscribers' = Subscribers
           /\ pc[t] # "subscribe" /\ x = "subscribe" =>
                Cardinality(Subscribers') = Cardinality(Subscribers) + 1
           /\ pc[t] = "subscribe" /\ x # "subscribe" =>
                Cardinality(Subscribers') = Cardinality(Subscribers) - 1
           /\ pc[t] = "subscribe" => Cardinality(Subscribers) >= 1
           /\ Cardinality(Subscribers) \in Nat
  <1>1. pc' \in [Threads -> PcStates]
      OBVIOUS
  <1>2. ASSUME pc[t] # "subscribe", x # "subscribe" PROVE Subscribers' = Subscribers
      BY <1>2 DEF Subscribers, Waiting
  <1>3. ASSUME pc[t] # "subscribe", x = "subscribe"
        PROVE  Subscribers' = Subscribers \cup {t} /\ t \notin Subscribers
      BY <1>3 DEF Subscribers, Waiting
  <1>4. ASSUME pc[t] = "subscribe", x # "subscribe"
        PROVE  Subscribers' = Subscribers \ {t} /\ t \in Subscribers
      BY <1>4 DEF Subscribers, Waiting
  <1>5. pc[t] = "subscribe" => t \in Subscribers
      BY DEF Subscribers, Waiting
  <1>6. pc[t] = "subscribe" => Cardinality(Subscribers) >= 1
    <2>1. Cardinality(Subscribers) \in Nat /\ (Cardinality(Subscribers) = 0 <=> Subscribers = {})
        BY SubscribersFinite, FS_CardinalityType, FS_EmptySet
    <2> QED
        BY <2>1, <1>5
  <1>7. Cardinality(Subscribers) \in Nat
      BY SubscribersFinite, FS_CardinalityType
  <1>8. ASSUME pc[t] # "subscribe", x = "subscribe"
        PROVE  Cardinality(Subscribers') = Cardinality(Subscribers) + 1
      BY <1>8, <1>3, SubscribersFinite, FS_AddElement
  <1>9. ASSUME pc[t] = "subscribe", x # "subscribe"
        PROVE  Cardinality(Subscribers') = Cardinality(Subscribers) - 1
      BY <1>9, <1>4, SubscribersFinite, FS_RemoveElement
  <1> QED
      BY <1>1, <1>2, <1>6, <1>7, <1>8, <1>9

(* A change of the frames of one thread, and none of whom they are for. *)
LEMMA FramesReplaced ==
    ASSUME NEW E, frames \in [Threads -> Seq(FramesFor(E))], NEW t \in Threads,
           NEW s \in Seq(FramesFor(E)), frames' = [frames EXCEPT ![t] = s]
    PROVE  frames' \in [Threads -> Seq(FramesFor(E))]
  OBVIOUS

LEMMA TopReplaced ==
    ASSUME NEW E, frames \in [Threads -> Seq(FramesFor(E))], NEW t \in Threads,
           frames[t] # << >>, NEW f \in FramesFor(E), frames' = WithTop(t, f)
    PROVE  frames' \in [Threads -> Seq(FramesFor(E))]
  <1>1. [frames[t] EXCEPT ![Len(frames[t])] = f] \in Seq(FramesFor(E))
      BY LastReplaced
  <1> QED
      BY <1>1, FramesReplaced DEF WithTop

LEMMA TopIsFrame ==
    ASSUME NEW E, frames \in [Threads -> Seq(FramesFor(E))], NEW t \in Threads,
           frames[t] # << >>
    PROVE  Top(t) \in FramesFor(E)
  BY LastElement DEF Top

-----------------------------------------------------------------------------
(* The subscriptions and the frames *)

LEMMA InitEvent == EventInit => EventInv
  <1> SUFFICES ASSUME EventInit PROVE EventInv
      OBVIOUS
  <1> USE EventBounds DEF EventInit
  <1>1. Subscribers = {}
      BY DEF Subscribers, Waiting
  <1>2. Cardinality(Subscribers) = 0
      BY <1>1, FS_EmptySet
  <1>3. << >> \in Seq(FramesFor(m_SimpleEvents))
      OBVIOUS
  <1> QED
      BY <1>2, <1>3 DEF EventInv, PcStates

LEMMA CallsKeepEvent ==
    ASSUME EventInv, NEW t \in Threads,
           CallSubscribe(t) \/ CallUnsub(t) \/ CallFire(t)
    PROVE  EventInv'
  <1> USE EventBounds DEF EventInv
  <1>1. CASE CallSubscribe(t)
    <2>1. /\ pc' \in [Threads -> PcStates]
          /\ Cardinality(Subscribers') = Cardinality(Subscribers) + 1
          /\ Cardinality(Subscribers) \in Nat
        BY <1>1, SubscriberCounts DEF CallSubscribe, InUserCode, PcStates
    <2>2. m_NextID + Cardinality(Subscribers) < MaxIds
        BY <1>1 DEF CallSubscribe, Subscribers
    <2>3. m_NextID' + Cardinality(Subscribers') <= MaxIds
        BY <1>1, <2>1, <2>2 DEF CallSubscribe
    <2> QED
        BY <1>1, <2>1, <2>3 DEF CallSubscribe
  <1>2. CASE CallUnsub(t)
    <2>1. pc' \in [Threads -> PcStates] /\ Subscribers' = Subscribers
        BY <1>2, SubscriberCounts DEF CallUnsub, InUserCode, PcStates
    <2>2. PICK i \in connections : /\ connections' = connections \ {i}
                                   /\ target' = [target EXCEPT ![t] = i]
        BY <1>2 DEF CallUnsub
    <2>3. target' \in [Threads -> Nat]
        BY <2>2 DEF HandlerIDs
    <2>4. ASSUME NEW u \in Threads, pc'[u] = "unsub" PROVE target'[u] \in HandlerIDs
        BY <1>2, <2>2, <2>4 DEF CallUnsub, HandlerIDs
    <2> QED
        BY <1>2, <2>1, <2>2, <2>3, <2>4 DEF CallUnsub, HandlerIDs
  <1>3. CASE CallFire(t)
    <2>1. pc' \in [Threads -> PcStates] /\ Subscribers' = Subscribers
        BY <1>3, SubscriberCounts DEF CallFire, InUserCode, PcStates
    <2> QED
        BY <1>3, <2>1 DEF CallFire, HandlerIDs
  <1> QED
      BY <1>1, <1>2, <1>3

LEMMA LocksKeepEvent ==
    ASSUME EventInv, NEW t \in Threads, Locks(t)
    PROVE  EventInv'
  <1> USE EventBounds DEF EventInv
  <1>1. CASE Subscribe(t)
    <2>1. /\ pc' \in [Threads -> PcStates]
          /\ Cardinality(Subscribers') = Cardinality(Subscribers) - 1
          /\ Cardinality(Subscribers) \in Nat /\ Cardinality(Subscribers) >= 1
        BY <1>1, SubscriberCounts DEF Subscribe, PcStates
    <2>2. m_NextID' \in HandlerIDs /\ m_NextID' + Cardinality(Subscribers') <= MaxIds
        BY <1>1, <2>1 DEF Subscribe, HandlerIDs
    <2>3. m_SimpleEvents' \subseteq HandlerIDs /\ connections' \subseteq HandlerIDs
        BY <1>1, <2>2 DEF Subscribe
    <2>4. \A u \in Threads : frames'[u] = << >>
        BY <1>1 DEF Subscribe, ExclusiveFree
    <2>5. frames' \in [Threads -> Seq(FramesFor(m_SimpleEvents'))]
        BY <1>1, <2>4 DEF Subscribe
    <2>6. ASSUME NEW u \in Threads, pc'[u] = "unsub" PROVE target'[u] \in HandlerIDs'
        BY <1>1, <2>6 DEF Subscribe, HandlerIDs
    <2>7. m_NextID' \in Nat /\ target' \in [Threads -> Nat]
        BY <1>1 DEF Subscribe
    <2> QED
        BY <2>1, <2>2, <2>3, <2>5, <2>6, <2>7
  <1>2. CASE Unsub(t)
    <2> USE <1>2 DEF Unsub, EraseKeeping
    <2>1. pc' \in [Threads -> PcStates] /\ Subscribers' = Subscribers
        BY SubscriberCounts DEF PcStates
    <2>2. \A u \in Threads : frames'[u] = << >>
        BY DEF ExclusiveFree
    <2>3. frames' \in [Threads -> Seq(FramesFor(m_SimpleEvents'))]
        BY <2>2
    <2>4. ASSUME NEW u \in Threads, pc'[u] = "unsub" PROVE target'[u] \in HandlerIDs'
        BY <2>4 DEF HandlerIDs
    <2>5. target' \in [Threads -> Nat] /\ m_SimpleEvents' \subseteq HandlerIDs'
        BY DEF HandlerIDs
    <2> QED
        BY <2>1, <2>3, <2>4, <2>5 DEF HandlerIDs
  <1>3. CASE Fire(t)
    <2>1. pc' \in [Threads -> PcStates] /\ Subscribers' = Subscribers
        BY <1>3, SubscriberCounts DEF Fire, PcStates
    <2>2. Append(frames[t], [left |-> m_SimpleEvents, current |-> 0, called |-> {}])
            \in Seq(FramesFor(m_SimpleEvents))
        BY FrameStarts
    <2>3. frames' \in [Threads -> Seq(FramesFor(m_SimpleEvents))]
        BY <1>3, <2>2, FramesReplaced DEF Fire
    <2> QED
        BY <1>3, <2>1, <2>3 DEF Fire, HandlerIDs
  <1> QED
      BY <1>1, <1>2, <1>3 DEF Locks

(* What changes nothing but one thread's frames. *)
LEMMA LoopKeepsEvent ==
    ASSUME EventInv, NEW t \in Threads, FireGoesOn(t) \/ HandlerThrows(t)
    PROVE  EventInv'
  <1> SUFFICES ASSUME TRUE
               PROVE  /\ frames' \in [Threads -> Seq(FramesFor(m_SimpleEvents))]
                      /\ UNCHANGED <<m_SimpleEvents, m_NextID, connections, pc, target>>
      BY DEF EventInv, Subscribers, Waiting, HandlerIDs
  <1> USE DEF EventInv
  <1>1. CASE CallHandler(t)
    <2>1. Top(t) \in FramesFor(m_SimpleEvents) /\ frames[t] # << >>
        BY <1>1, TopIsFrame DEF CallHandler, InFireLoop
    <2>2. PICK i \in Top(t).left :
            frames' = WithTop(t, [left |-> Top(t).left \ {i}, current |-> i,
                                  called |-> Top(t).called \cup {i}])
        BY <1>1 DEF CallHandler
    <2>3. i \in Nat
      <3>1. Top(t).left \subseteq m_SimpleEvents
          BY <2>1 DEF FramesFor
      <3>2. m_SimpleEvents \subseteq Nat
          BY EventBounds DEF HandlerIDs
      <3> QED
          BY <3>1, <3>2
    <2>4. [left |-> Top(t).left \ {i}, current |-> i, called |-> Top(t).called \cup {i}]
             \in FramesFor(m_SimpleEvents)
        BY <2>1, <2>3, FrameMoves
    <2> QED
        BY <1>1, <2>1, <2>2, <2>4, TopReplaced DEF CallHandler
  <1>2. CASE HandlerReturns(t)
    <2>1. [Top(t) EXCEPT !.current = 0] \in FramesFor(m_SimpleEvents)
        BY <1>2, TopIsFrame, FrameChangesCurrent DEF HandlerReturns
    <2> QED
        BY <1>2, <2>1, TopReplaced DEF HandlerReturns
  <1>3. ASSUME frames[t] # << >>,
               frames' = [frames EXCEPT ![t] = SubSeq(@, 1, Len(@) - 1)]
        PROVE  frames' \in [Threads -> Seq(FramesFor(m_SimpleEvents))]
    <2>1. SubSeq(frames[t], 1, Len(frames[t]) - 1) \in Seq(FramesFor(m_SimpleEvents))
        BY <1>3, LastDropped
    <2> QED
        BY <1>3, <2>1, FramesReplaced
  <1>4. CASE FireEnd(t)
      BY <1>3, <1>4 DEF FireEnd, InFireLoop
  <1>5. CASE HandlerThrows(t)
      BY <1>3, <1>5 DEF HandlerThrows
  <1> QED
      BY <1>1, <1>2, <1>4, <1>5 DEF FireGoesOn

LEMMA EnqueueKeepsEvent ==
    ASSUME EventInv, NEW t \in Threads, Enqueue(t) \/ NotifyOne(t)
    PROVE  EventInv'
  <1> USE DEF EventInv
  <1>1. CASE Enqueue(t)
    <2>1. pc' \in [Threads -> PcStates] /\ Subscribers' = Subscribers
        BY <1>1, SubscriberCounts DEF Enqueue, InFireLoop, PcStates
    <2>2. Top(t) \in FramesFor(m_SimpleEvents) /\ frames[t] # << >>
        BY <1>1, TopIsFrame DEF Enqueue, InFireLoop
    <2>3. PICK i \in Top(t).left :
            frames' = WithTop(t, [left |-> Top(t).left \ {i}, current |-> 0,
                                  called |-> Top(t).called \cup {i}])
        BY <1>1 DEF Enqueue
    <2>4. [left |-> Top(t).left \ {i}, current |-> 0, called |-> Top(t).called \cup {i}]
             \in FramesFor(m_SimpleEvents)
        BY <2>2, FrameMoves
    <2>5. frames' \in [Threads -> Seq(FramesFor(m_SimpleEvents))]
        BY <2>2, <2>3, <2>4, TopReplaced
    <2> QED
        BY <1>1, <2>1, <2>5 DEF Enqueue, HandlerIDs
  <1>2. CASE NotifyOne(t)
    <2>1. pc' \in [Threads -> PcStates] /\ Subscribers' = Subscribers
        BY <1>2, SubscriberCounts DEF NotifyOne, PcStates
    <2> QED
        BY <1>2, <2>1 DEF NotifyOne, HandlerIDs
  <1> QED
      BY <1>1, <1>2

LEMMA StutterKeepsEvent == EventInv /\ UNCHANGED evars => EventInv'
  BY DEF EventInv, evars, Subscribers, Waiting, HandlerIDs

LEMMA StepEvent == EventInv /\ [Next]_vars => EventInv'
  <1> SUFFICES ASSUME EventInv, [Next]_vars PROVE EventInv'
      OBVIOUS
  <1>1. CASE Sync(EventNext)
      BY <1>1, CallsKeepEvent, LocksKeepEvent, LoopKeepsEvent DEF Sync, EventNext
  <1>2. ASSUME NEW w \in Workers,
               StartWorker(w) \/ WaitStep(w) \/ Park(w) \/ SpuriousWake(w) \/ TaskReturns(w)
        PROVE  UNCHANGED evars
      BY <1>2 DEF StartWorker, WaitStep, Take, ReturnWhenDrained, LeaveLoop,
                  PredicateFalse, Park, SpuriousWake, TaskReturns
  <1>3. ASSUME Constructed \/ SetStop \/ NotifyAll \/ JoinAll PROVE UNCHANGED evars
      BY <1>3 DEF Constructed, SetStop, SetStopUnlocked, NotifyAll, JoinAll
  <1>4. ASSUME NEW t \in Threads, Call(t) \/ ThreadLocks(t) \/ ThreadGoesOn(t)
        PROVE  EventInv'
      BY <1>4, CallsKeepEvent, LocksKeepEvent, LoopKeepsEvent, EnqueueKeepsEvent
      DEF Call, ThreadLocks, ThreadGoesOn, Lock, Disconnected, FireReturns, Locks,
          FireGoesOn
  <1>5. CASE Async(AsyncNext)
      BY <1>2, <1>3, <1>4, <1>5, StutterKeepsEvent DEF Async, AsyncNext
  <1>6. CASE UNCHANGED vars
      BY <1>6, StutterKeepsEvent DEF vars, avars
  <1> QED
      BY <1>1, <1>5, <1>6 DEF Next

(* While a Fire is in progress, with either provider and at any depth, what *)
(* it has called and has yet to call are exactly the subscribed handlers.   *)
THEOREM FiresReachSubscribers == Spec => []FiresSubscribersOnly
  <1>1. Init => EventInv
      BY InitEvent DEF Init, AsyncInit
  <1>2. ASSUME EventInv, NEW t \in Threads, NEW k \in DOMAIN frames[t]
        PROVE  /\ frames[t][k].left \cup frames[t][k].called = m_SimpleEvents
               /\ frames[t][k].left \cap frames[t][k].called = {}
    <2>1. frames[t] \in Seq(FramesFor(m_SimpleEvents))
        BY <1>2 DEF EventInv
    <2>2. frames[t][k] \in FramesFor(m_SimpleEvents)
        BY <2>1
    <2> QED
        BY <2>2 DEF FramesFor
  <1>3. EventInv => FiresSubscribersOnly
      BY <1>2 DEF FiresSubscribersOnly
  <1> QED
      BY <1>1, <1>3, StepEvent, PTL DEF Spec

-----------------------------------------------------------------------------
(* The asynchronous provider's queue and workers *)

Calls == [nr : Nat \ {0}, id : HandlerIDs]
Pending == Queued \cup Running
WorkerStates == {"unborn", "wait", "park", "asleep", "task", "exited"}

(* A worker uses the provider only from a task, a caller only until the    *)
(* destructor is called.                                                   *)
Using(t) == IF t \in Workers THEN wpc[t] = "task" ELSE ~m_Stop
Idle(t) == pc[t] = "run" /\ frames[t] = << >>

QueueTypeOK ==
    /\ m_TaskQueue \in Seq(Calls)
    /\ m_Stop \in BOOLEAN
    /\ wpc \in [Workers -> WorkerStates]
    /\ task \in [Workers -> Calls \cup {NoTask}]
    /\ \A w \in Workers : wpc[w] = "task" <=> task[w] # NoTask
    /\ enqueued \in Nat
    /\ cutoff \in [HandlerIDs -> Nat]

NumbersKept == 1 .. enqueued = ran \cup {e.nr : e \in Pending}

(* No worker leaves while something is queued, and once all have left      *)
(* there is nobody to queue anything.                                      *)
Drained ==
    /\ m_Stop <=> owner \in {"stopped", "joining", "down"}
    /\ \A w \in Workers : wpc[w] = "exited" => m_Stop
    /\ Workers # {} /\ (\A w \in Workers : wpc[w] = "exited") => m_TaskQueue = << >>
    /\ owner = "down" => \A w \in Workers : wpc[w] = "exited"

AsyncInv ==
    /\ EventInv
    /\ QueueTypeOK
    /\ NumbersKept
    /\ DisconnectCutsOff
    /\ Drained
    /\ kind \in {"sync", "async"}
    /\ kind = "async" => \A t \in Threads : Using(t) \/ Idle(t)
    /\ kind = "sync" => Pending = {}

-----------------------------------------------------------------------------
(* Queued and running calls *)

LEMMA QueueAppended ==
    ASSUME m_TaskQueue \in Seq(Calls), NEW e \in Calls,
           m_TaskQueue' = Append(m_TaskQueue, e)
    PROVE  m_TaskQueue' \in Seq(Calls) /\ Queued' = Queued \cup {e}
  <1>1. /\ m_TaskQueue' \in Seq(Calls)
        /\ DOMAIN m_TaskQueue = 1 .. Len(m_TaskQueue)
        /\ DOMAIN m_TaskQueue' = 1 .. (Len(m_TaskQueue) + 1)
        /\ m_TaskQueue'[Len(m_TaskQueue) + 1] = e
        /\ \A k \in 1 .. Len(m_TaskQueue) : m_TaskQueue'[k] = m_TaskQueue[k]
        /\ Len(m_TaskQueue) \in Nat
      OBVIOUS
  <1>2. ASSUME NEW x \in Queued' PROVE x \in Queued \cup {e}
    <2>1. PICK k \in DOMAIN m_TaskQueue' : x = m_TaskQueue'[k]
        BY DEF Queued
    <2>2. k \in 1 .. Len(m_TaskQueue) \/ k = Len(m_TaskQueue) + 1
        BY <1>1, <2>1
    <2> QED
        BY <1>1, <2>1, <2>2 DEF Queued
  <1>3. ASSUME NEW x \in Queued PROVE x \in Queued'
    <2>1. PICK k \in DOMAIN m_TaskQueue : x = m_TaskQueue[k]
        BY DEF Queued
    <2>2. k \in DOMAIN m_TaskQueue' /\ x = m_TaskQueue'[k]
        BY <1>1, <2>1
    <2> QED
        BY <2>2 DEF Queued
  <1>4. e \in Queued'
    <2>1. Len(m_TaskQueue) + 1 \in DOMAIN m_TaskQueue'
        BY <1>1
    <2> QED
        BY <1>1, <2>1 DEF Queued
  <1> QED
      BY <1>1, <1>2, <1>3, <1>4

LEMMA QueueTaken ==
    ASSUME m_TaskQueue \in Seq(Calls), m_TaskQueue # << >>,
           m_TaskQueue' = Tail(m_TaskQueue)
    PROVE  /\ m_TaskQueue' \in Seq(Calls)
           /\ Head(m_TaskQueue) \in Calls
           /\ Queued = Queued' \cup {Head(m_TaskQueue)}
  <1>1. /\ m_TaskQueue' \in Seq(Calls) /\ Head(m_TaskQueue) \in Calls
        /\ Len(m_TaskQueue) \in Nat \ {0}
        /\ DOMAIN m_TaskQueue = 1 .. Len(m_TaskQueue)
        /\ DOMAIN m_TaskQueue' = 1 .. (Len(m_TaskQueue) - 1)
        /\ m_TaskQueue[1] = Head(m_TaskQueue)
        /\ \A k \in 1 .. (Len(m_TaskQueue) - 1) : m_TaskQueue'[k] = m_TaskQueue[k + 1]
      OBVIOUS
  <1>2. ASSUME NEW x \in Queued' PROVE x \in Queued
    <2>1. PICK k \in DOMAIN m_TaskQueue' : x = m_TaskQueue'[k]
        BY DEF Queued
    <2>2. k + 1 \in DOMAIN m_TaskQueue /\ x = m_TaskQueue[k + 1]
        BY <1>1, <2>1
    <2> QED
        BY <2>2 DEF Queued
  <1>3. ASSUME NEW x \in Queued PROVE x \in Queued' \cup {Head(m_TaskQueue)}
    <2>1. PICK k \in DOMAIN m_TaskQueue : x = m_TaskQueue[k]
        BY DEF Queued
    <2>2. CASE k = 1
        BY <1>1, <2>1, <2>2
    <2>3. CASE k # 1
      <3>1. k - 1 \in DOMAIN m_TaskQueue' /\ x = m_TaskQueue'[k - 1]
          BY <1>1, <2>1, <2>3
      <3> QED
          BY <3>1 DEF Queued
    <2> QED
        BY <2>2, <2>3
  <1>4. Head(m_TaskQueue) \in Queued
    <2>1. 1 \in DOMAIN m_TaskQueue
        BY <1>1
    <2> QED
        BY <1>1, <2>1 DEF Queued
  <1> QED
      BY <1>1, <1>2, <1>3, <1>4

LEMMA RunningStarts ==
    ASSUME task \in [Workers -> Calls \cup {NoTask}], NEW w \in Workers,
           task[w] = NoTask, NEW e \in Calls, task' = [task EXCEPT ![w] = e]
    PROVE  Running' = Running \cup {e} /\ task' \in [Workers -> Calls \cup {NoTask}]
  <1>1. e # NoTask
      BY DEF Calls, NoTask
  <1>2. task'[w] = e /\ \A u \in Workers \ {w} : task'[u] = task[u]
      OBVIOUS
  <1>3. task' \in [Workers -> Calls \cup {NoTask}]
      OBVIOUS
  <1>4. ASSUME NEW x PROVE x \in Running' <=> x \in Running \cup {e}
      BY <1>1, <1>2 DEF Running, NoTask
  <1> QED
      BY <1>3, <1>4

LEMMA RunningEnds ==
    ASSUME task \in [Workers -> Calls \cup {NoTask}], NEW w \in Workers,
           task[w] # NoTask, task' = [task EXCEPT ![w] = NoTask]
    PROVE  Running = Running' \cup {task[w]} /\ task' \in [Workers -> Calls \cup {NoTask}]
  <1>1. task'[w] = NoTask /\ \A u \in Workers \ {w} : task'[u] = task[u]
      OBVIOUS
  <1>2. task' \in [Workers -> Calls \cup {NoTask}]
      OBVIOUS
  <1>3. ASSUME NEW x PROVE x \in Running <=> x \in Running' \cup {task[w]}
      BY <1>1 DEF Running, NoTask
  <1> QED
      BY <1>2, <1>3

LEMMA PendingUnchanged ==
    ASSUME UNCHANGED <<m_TaskQueue, task>>
    PROVE  Pending' = Pending
  BY DEF Pending, Queued, Running

(* What the properties say of one pending call. *)
LEMMA PendingNumbers ==
    ASSUME NumbersKept, enqueued \in Nat, NEW e \in Pending
    PROVE  e.nr \in Nat /\ e.nr <= enqueued
  <1>1. e.nr \in 1 .. enqueued
      BY DEF NumbersKept
  <1> QED
      BY <1>1

LEMMA PendingTypes ==
    ASSUME QueueTypeOK, NEW e \in Pending
    PROVE  e \in Calls
  <1>1. CASE e \in Queued
      BY <1>1 DEF Queued, QueueTypeOK
  <1>2. CASE e \in Running
      BY <1>2 DEF Running, QueueTypeOK
  <1> QED
      BY <1>1, <1>2 DEF Pending

-----------------------------------------------------------------------------
(* What the steps have in common *)

(* A worker moves, but neither to nor from a call. *)
LEMMA WorkerMoves ==
    ASSUME QueueTypeOK, Drained, NEW w \in Workers, NEW x \in WorkerStates,
           x # "task", wpc[w] # "task", wpc[w] # "exited",
           x = "exited" => m_Stop /\ m_TaskQueue = << >>,
           wpc' = [wpc EXCEPT ![w] = x],
           UNCHANGED <<m_TaskQueue, m_Stop, task, owner, enqueued, cutoff>>
    PROVE  /\ QueueTypeOK' /\ Drained'
           /\ \A u \in Workers : wpc'[u] = "task" <=> wpc[u] = "task"
  <1>1. /\ wpc' \in [Workers -> WorkerStates] /\ wpc'[w] = x
        /\ \A u \in Workers : u # w => wpc'[u] = wpc[u]
      BY DEF QueueTypeOK
  <1>2. \A u \in Workers : wpc'[u] = "task" <=> wpc[u] = "task"
      BY <1>1
  <1>3. QueueTypeOK'
      BY <1>1, <1>2 DEF QueueTypeOK, Calls, HandlerIDs, NoTask
  <1>4. Drained'
      BY <1>1 DEF Drained
  <1> QED
      BY <1>2, <1>3, <1>4

(* Nothing is queued, taken, run or disconnected. *)
LEMMA PendingStays ==
    ASSUME NumbersKept, DisconnectCutsOff,
           UNCHANGED <<m_TaskQueue, task, enqueued, ran, cutoff, m_SimpleEvents>>
    PROVE  NumbersKept' /\ DisconnectCutsOff'
  <1>1. Pending' = Pending
      BY PendingUnchanged
  <1>2. NumbersKept'
      BY <1>1 DEF NumbersKept
  <1>3. DisconnectCutsOff'
      BY <1>1 DEF DisconnectCutsOff, Pending
  <1> QED
      BY <1>2, <1>3

(* A step of a thread that uses the provider, seen by the others. *)
LEMMA OthersStay ==
    ASSUME \A u \in Threads : Using(u) \/ Idle(u), NEW t \in Threads, Using(t),
           m_Stop' = m_Stop,
           \A u \in Workers : wpc'[u] = "task" <=> wpc[u] = "task",
           \A u \in Threads : u # t => pc'[u] = pc[u] /\ frames'[u] = frames[u]
    PROVE  \A u \in Threads : Using(u)' \/ Idle(u)'
  BY DEF Using, Idle

(* ... which leaves the queue and the workers alone. *)
LEMMA OnlyUses ==
    ASSUME AsyncInv, EventInv', kind = "async", kind' = kind,
           NEW t \in Threads, Using(t),
           UNCHANGED <<m_TaskQueue, m_Stop, wpc, task, owner, enqueued, ran>>,
           \A u \in Threads : u # t => pc'[u] = pc[u] /\ frames'[u] = frames[u],
           cutoff' \in [HandlerIDs -> Nat],
           DisconnectCutsOff'
    PROVE  AsyncInv'
  <1>1. \A u \in Threads : Using(u)' \/ Idle(u)'
      BY OthersStay DEF AsyncInv
  <1>2. NumbersKept'
      BY PendingUnchanged DEF NumbersKept, AsyncInv
  <1>3. QueueTypeOK' /\ Drained'
      BY DEF AsyncInv, QueueTypeOK, Drained, Calls, HandlerIDs, NoTask
  <1> QED
      BY <1>1, <1>2, <1>3 DEF AsyncInv

LEMMA InitAsync == Init => AsyncInv
  <1> SUFFICES ASSUME Init PROVE AsyncInv
      OBVIOUS
  <1> USE EventBounds DEF Init, AsyncInit
  <1>1. EventInv
      BY InitEvent
  <1>2. Queued = {} /\ Running = {} /\ Pending = {}
      BY DEF Queued, Running, Pending
  <1>3. QueueTypeOK
    <2>1. MaxFires * MaxIds \in Nat
        BY Z3
    <2>2. cutoff \in [HandlerIDs -> Nat]
        BY <2>1
    <2>3. wpc \in [Workers -> WorkerStates] /\ task \in [Workers -> Calls \cup {NoTask}]
        BY DEF WorkerStates
    <2>4. \A w \in Workers : wpc[w] # "task" /\ task[w] = NoTask
        OBVIOUS
    <2>5. m_TaskQueue \in Seq(Calls) /\ enqueued \in Nat
        OBVIOUS
    <2>6. m_Stop \in BOOLEAN
        BY Zenon
    <2> QED
        BY <2>2, <2>3, <2>4, <2>5, <2>6 DEF QueueTypeOK
  <1>4. NumbersKept /\ DisconnectCutsOff
      BY <1>2 DEF NumbersKept, DisconnectCutsOff
  <1>5. Drained
      BY DEF Drained
  <1>6. \A t \in Threads : Idle(t)
      BY DEF EventInit, Idle
  <1> QED
      BY <1>1, <1>2, <1>3, <1>4, <1>5, <1>6 DEF AsyncInv

LEMMA StepSync ==
    ASSUME AsyncInv, EventInv', kind = "sync", UNCHANGED <<asyncVars, kind>>
    PROVE  AsyncInv'
  <1>1. Pending' = Pending /\ Pending = {} /\ Queued \cup Running = {}
      BY PendingUnchanged DEF asyncVars, AsyncInv, Pending
  <1>2. NumbersKept' /\ DisconnectCutsOff'
      BY <1>1 DEF NumbersKept, DisconnectCutsOff, AsyncInv, asyncVars, Pending
  <1>3. QueueTypeOK' /\ Drained'
      BY DEF AsyncInv, asyncVars, QueueTypeOK, Drained, Calls, HandlerIDs, NoTask
  <1> QED
      BY <1>1, <1>2, <1>3 DEF AsyncInv

-----------------------------------------------------------------------------
(* The steps of the asynchronous provider *)

(* The workers' steps that neither take a call nor end one. *)
LEMMA StepWorkerWaits ==
    ASSUME AsyncInv, kind = "async", kind' = kind, NEW w \in Workers,
           StartWorker(w) \/ ReturnWhenDrained(w) \/ PredicateFalse(w) \/ Park(w)
             \/ SpuriousWake(w)
    PROVE  AsyncInv'
  <1> USE DEF AsyncInv
  <1>1. /\ UNCHANGED <<evars, m_TaskQueue, m_Stop, task, owner, enqueued, ran, cutoff>>
        /\ \E x \in WorkerStates :
              /\ x # "task" /\ wpc[w] # "task" /\ wpc[w] # "exited"
              /\ x = "exited" => m_Stop /\ m_TaskQueue = << >>
              /\ wpc' = [wpc EXCEPT ![w] = x]
      BY DEF StartWorker, ReturnWhenDrained, LeaveLoop, PredicateFalse, Park, SpuriousWake,
             WorkerStates
  <1>2. EventInv'
      BY <1>1, StutterKeepsEvent
  <1>3. QueueTypeOK' /\ Drained' /\ \A u \in Workers : wpc'[u] = "task" <=> wpc[u] = "task"
      BY <1>1, WorkerMoves
  <1>4. NumbersKept' /\ DisconnectCutsOff'
      BY <1>1, PendingStays DEF evars
  <1>5. \A u \in Threads : Using(u)' \/ Idle(u)'
      BY <1>1, <1>3 DEF Using, Idle, evars
  <1> QED
      BY <1>2, <1>3, <1>4, <1>5

LEMMA StepTake ==
    ASSUME AsyncInv, kind = "async", kind' = kind, NEW w \in Workers, Take(w)
    PROVE  AsyncInv'
  <1> USE DEF AsyncInv, Take
  <1>1. EventInv'
      BY StutterKeepsEvent
  <1>2. /\ m_TaskQueue' \in Seq(Calls) /\ Head(m_TaskQueue) \in Calls
        /\ Queued = Queued' \cup {Head(m_TaskQueue)}
      BY QueueTaken DEF QueueTypeOK
  <1>3. task[w] = NoTask
      BY DEF QueueTypeOK
  <1>4. /\ Running' = Running \cup {Head(m_TaskQueue)}
        /\ task' \in [Workers -> Calls \cup {NoTask}]
      BY <1>2, <1>3, RunningStarts DEF QueueTypeOK
  <1>5. Pending' = Pending
      BY <1>2, <1>4 DEF Pending
  <1>6. NumbersKept' /\ DisconnectCutsOff'
      BY <1>5 DEF NumbersKept, DisconnectCutsOff, Pending, evars
  <1>7. Head(m_TaskQueue) # NoTask
      BY <1>2 DEF Calls, NoTask
  <1>8. /\ wpc' \in [Workers -> WorkerStates] /\ wpc'[w] = "task"
        /\ task'[w] = Head(m_TaskQueue)
        /\ \A u \in Workers : u # w => wpc'[u] = wpc[u] /\ task'[u] = task[u]
      BY DEF QueueTypeOK, WorkerStates
  <1>9. QueueTypeOK'
      BY <1>2, <1>4, <1>7, <1>8 DEF QueueTypeOK, NoTask, HandlerIDs, Calls
  <1>10. Drained'
      BY <1>8 DEF Drained
  <1>11. \A u \in Threads : Using(u)' \/ Idle(u)'
      BY <1>8 DEF Using, Idle, evars
  <1> QED
      BY <1>1, <1>5, <1>6, <1>9, <1>10, <1>11

LEMMA StepTaskReturns ==
    ASSUME AsyncInv, kind = "async", kind' = kind, NEW w \in Workers, TaskReturns(w)
    PROVE  AsyncInv'
  <1> USE DEF AsyncInv, TaskReturns
  <1>1. EventInv'
      BY StutterKeepsEvent
  <1>2. task[w] # NoTask /\ task[w] \in Calls
      BY DEF QueueTypeOK
  <1>3. Running = Running' \cup {task[w]} /\ task' \in [Workers -> Calls \cup {NoTask}]
      BY <1>2, RunningEnds DEF QueueTypeOK
  <1>4. Pending = Pending' \cup {task[w]} /\ Queued' = Queued
      BY <1>3 DEF Pending, Queued
  <1>5. NumbersKept'
      BY <1>4 DEF NumbersKept
  <1>6. DisconnectCutsOff'
      BY <1>4 DEF DisconnectCutsOff, Pending, evars
  <1>7. /\ wpc' \in [Workers -> WorkerStates] /\ wpc'[w] = "wait" /\ task'[w] = NoTask
        /\ \A u \in Workers : u # w => wpc'[u] = wpc[u] /\ task'[u] = task[u]
      BY DEF QueueTypeOK, WorkerStates
  <1>8. QueueTypeOK'
      BY <1>3, <1>7 DEF QueueTypeOK, NoTask, HandlerIDs, Calls
  <1>9. Drained'
      BY <1>7 DEF Drained
  <1>10. \A u \in Threads : Using(u)' \/ Idle(u)'
      BY <1>7 DEF Using, Idle, evars
  <1> QED
      BY <1>1, <1>5, <1>6, <1>8, <1>9, <1>10

(* A thread that is in the provider is one that may be. *)
LEMMA UsersUse ==
    ASSUME AsyncInv, kind = "async", NEW t \in Threads,
           MayUse(t) \/ pc[t] # "run" \/ frames[t] # << >>
    PROVE  Using(t)
  BY DEF AsyncInv, Using, Idle, MayUse, Drained

(* A thread's own steps: calls, locks, and the end of a Fire. *)
LEMMA StepUse ==
    ASSUME AsyncInv, kind = "async", kind' = kind, NEW t \in Threads,
           Call(t) \/ Lock(t) \/ FireReturns(t)
    PROVE  AsyncInv'
  <1> USE DEF AsyncInv
  <1>1. EventInv'
      BY CallsKeepEvent, LocksKeepEvent, LoopKeepsEvent
      DEF Call, Lock, FireReturns, Locks, FireGoesOn
  <1>2. Using(t)
      BY UsersUse DEF Call, Lock, FireReturns, Subscribe, Fire, FireEnd, InFireLoop
  <1>3. \A u \in Threads : u # t => pc'[u] = pc[u] /\ frames'[u] = frames[u]
      BY DEF Call, CallSubscribe, CallUnsub, CallFire, Lock, Subscribe, Fire, FireReturns,
             FireEnd, EventInv
  <1>4. UNCHANGED asyncVars /\ m_SimpleEvents \subseteq m_SimpleEvents'
      BY DEF Call, CallSubscribe, CallUnsub, CallFire, Lock, Subscribe, Fire, FireReturns,
             FireEnd
  <1>5. DisconnectCutsOff'
    <2>1. Pending' = Pending
        BY <1>4, PendingUnchanged DEF asyncVars
    <2> QED
        BY <1>4, <2>1 DEF DisconnectCutsOff, asyncVars, Pending
  <1>6. cutoff' \in [HandlerIDs -> Nat]
      BY <1>4 DEF asyncVars, QueueTypeOK
  <1> QED
      BY <1>1, <1>2, <1>3, <1>4, <1>5, <1>6, OnlyUses DEF asyncVars

LEMMA StepDisconnected ==
    ASSUME AsyncInv, kind = "async", kind' = kind, NEW t \in Threads, Disconnected(t)
    PROVE  AsyncInv'
  <1> USE DEF AsyncInv, Disconnected, Unsub, EraseKeeping
  <1>1. EventInv'
      BY LocksKeepEvent DEF Locks
  <1>2. Using(t)
      BY UsersUse
  <1>3. \A u \in Threads : u # t => pc'[u] = pc[u] /\ frames'[u] = frames[u]
      BY DEF EventInv
  <1>4. target[t] \in HandlerIDs
      BY DEF EventInv
  <1>5. /\ cutoff' \in [HandlerIDs -> Nat] /\ cutoff'[target[t]] = enqueued
        /\ \A i \in HandlerIDs : i # target[t] => cutoff'[i] = cutoff[i]
      BY <1>4 DEF QueueTypeOK
  <1>6. Pending' = Pending
      BY PendingUnchanged
  <1>7. ASSUME NEW e \in Pending, e.id \notin m_SimpleEvents'
        PROVE  e.nr <= cutoff'[e.id]
    <2>1. e.id \in HandlerIDs
        BY <1>7, PendingTypes DEF Calls
    <2>2. CASE e.id = target[t]
        BY <2>2, <1>5, PendingNumbers DEF QueueTypeOK
    <2>3. CASE e.id # target[t]
        BY <2>1, <2>3, <1>5, <1>7 DEF DisconnectCutsOff, Pending
    <2> QED
        BY <2>2, <2>3
  <1>8. DisconnectCutsOff'
      BY <1>6, <1>7 DEF DisconnectCutsOff, Pending
  <1> QED
      BY <1>1, <1>2, <1>3, <1>5, <1>8, OnlyUses

LEMMA StepEnqueue ==
    ASSUME AsyncInv, kind = "async", kind' = kind, NEW t \in Threads, Enqueue(t)
    PROVE  AsyncInv'
  <1> USE DEF AsyncInv
  <1>1. EventInv'
      BY EnqueueKeepsEvent
  <1>2. Using(t)
      BY UsersUse DEF Enqueue, InFireLoop
  <1>3. PICK i \in Top(t).left :
          m_TaskQueue' = Append(m_TaskQueue, [nr |-> enqueued + 1, id |-> i])
      BY DEF Enqueue
  <1> DEFINE e == [nr |-> enqueued + 1, id |-> i]
  <1>4. i \in m_SimpleEvents /\ i \in HandlerIDs
    <2>1. Top(t) \in FramesFor(m_SimpleEvents)
        BY TopIsFrame DEF EventInv, Enqueue, InFireLoop
    <2> QED
        BY <2>1 DEF FramesFor, EventInv
  <1>5. e \in Calls
      BY <1>4 DEF Calls, QueueTypeOK
  <1>6. m_TaskQueue' \in Seq(Calls) /\ Queued' = Queued \cup {e} /\ Running' = Running
      BY <1>3, <1>5, QueueAppended DEF QueueTypeOK, Running, Enqueue
  <1>7. Pending' = Pending \cup {e}
      BY <1>6 DEF Pending
  <1>8. enqueued' = enqueued + 1 /\ ran' = ran /\ enqueued \in Nat
      BY DEF Enqueue, QueueTypeOK
  <1>9. NumbersKept'
    <2>1. {x.nr : x \in Pending'} = {x.nr : x \in Pending} \cup {enqueued + 1}
      <3>1. e.nr = enqueued + 1
          OBVIOUS
      <3> HIDE DEF e
      <3> QED
          BY <1>7, <3>1
    <2>2. 1 .. enqueued' = (1 .. enqueued) \cup {enqueued + 1}
        BY <1>8
    <2> QED
        BY <2>1, <2>2, <1>8 DEF NumbersKept
  <1>10. DisconnectCutsOff'
      BY <1>4, <1>7 DEF DisconnectCutsOff, Pending, Enqueue
  <1>11. QueueTypeOK'
      BY <1>6, <1>8 DEF QueueTypeOK, Enqueue, Calls, HandlerIDs, NoTask
  <1>12. Workers # {} => ~ \A w \in Workers : wpc[w] = "exited"
      BY <1>2 DEF Using, Drained
  <1>13. Drained'
      BY <1>12 DEF Drained, Enqueue
  <1>14. \A u \in Threads : u # t => pc'[u] = pc[u] /\ frames'[u] = frames[u]
      BY DEF Enqueue, WithTop, EventInv
  <1>15. \A u \in Threads : Using(u)' \/ Idle(u)'
      BY <1>2, <1>14, OthersStay DEF Enqueue
  <1> QED
      BY <1>1, <1>9, <1>10, <1>11, <1>13, <1>15

LEMMA StepNotifyOne ==
    ASSUME AsyncInv, kind = "async", kind' = kind, NEW t \in Threads, NotifyOne(t)
    PROVE  AsyncInv'
  <1> USE DEF AsyncInv, NotifyOne
  <1>1. EventInv'
      BY EnqueueKeepsEvent
  <1>2. Using(t)
      BY UsersUse
  <1>3. \A u \in Threads : u # t => pc'[u] = pc[u] /\ frames'[u] = frames[u]
      BY DEF EventInv
  <1>4. /\ QueueTypeOK' /\ Drained'
        /\ \A u \in Workers : wpc'[u] = "task" <=> wpc[u] = "task"
    <2>1. CASE UNCHANGED wpc
        BY <2>1 DEF QueueTypeOK, Drained, Calls, HandlerIDs, NoTask
    <2>2. ASSUME NEW w \in Asleep, wpc' = [wpc EXCEPT ![w] = "wait"]
          PROVE  /\ QueueTypeOK' /\ Drained'
                 /\ \A u \in Workers : wpc'[u] = "task" <=> wpc[u] = "task"
      <3>1. w \in Workers /\ wpc[w] = "asleep"
          BY DEF Asleep
      <3> QED
          BY <2>2, <3>1, WorkerMoves DEF WorkerStates
    <2> QED
        BY <2>1, <2>2
  <1>5. NumbersKept' /\ DisconnectCutsOff'
      BY PendingStays
  <1>6. \A u \in Threads : Using(u)' \/ Idle(u)'
      BY <1>2, <1>3, <1>4, OthersStay
  <1> QED
      BY <1>1, <1>4, <1>5, <1>6

LEMMA StepOwner ==
    ASSUME AsyncInv, kind = "async", kind' = kind,
           Constructed \/ SetStop \/ NotifyAll \/ JoinAll
    PROVE  AsyncInv'
  <1> USE DEF AsyncInv
  <1>1. UNCHANGED <<evars, m_TaskQueue, task, enqueued, ran, cutoff>>
      BY DEF Constructed, SetStop, SetStopUnlocked, NotifyAll, JoinAll
  <1>2. EventInv'
      BY <1>1, StutterKeepsEvent
  <1>3. NumbersKept' /\ DisconnectCutsOff'
      BY <1>1, PendingStays DEF evars
  <1>4. /\ wpc' \in [Workers -> WorkerStates] /\ m_Stop' \in BOOLEAN
        /\ \A u \in Workers : wpc'[u] = "task" <=> wpc[u] = "task"
        /\ \A u \in Workers : wpc'[u] = "exited" <=> wpc[u] = "exited"
      BY DEF Constructed, SetStop, SetStopUnlocked, NotifyAll, JoinAll, QueueTypeOK,
             WorkerStates, Asleep
  <1>5. QueueTypeOK'
      BY <1>1, <1>4 DEF QueueTypeOK, Calls, HandlerIDs, NoTask
  <1>6. Drained'
      BY <1>1, <1>4 DEF Drained, Constructed, SetStop, SetStopUnlocked, NotifyAll, JoinAll
  <1>7. \A u \in Threads : Using(u)' \/ Idle(u)'
      BY <1>1, <1>4 DEF Using, Idle, evars, Callers, Constructed, SetStop, SetStopUnlocked,
                        NotifyAll, JoinAll
  <1> QED
      BY <1>1, <1>2, <1>3, <1>5, <1>6, <1>7

LEMMA StepAsync == AsyncInv /\ [Next]_vars => AsyncInv'
  <1> SUFFICES ASSUME AsyncInv, [Next]_vars PROVE AsyncInv'
      OBVIOUS
  <1>1. EventInv'
      BY StepEvent DEF AsyncInv
  <1>2. CASE Sync(EventNext)
      BY <1>1, <1>2, StepSync DEF Sync
  <1>3. CASE Async(AsyncNext)
    <2> USE <1>3 DEF Async
    <2>1. ASSUME NEW w \in Workers,
                 StartWorker(w) \/ WaitStep(w) \/ Park(w) \/ SpuriousWake(w) \/ TaskReturns(w)
          PROVE  AsyncInv'
        BY <2>1, StepWorkerWaits, StepTake, StepTaskReturns DEF WaitStep
    <2>2. ASSUME NEW t \in Threads, Call(t) \/ ThreadLocks(t) \/ ThreadGoesOn(t)
          PROVE  AsyncInv'
        BY <2>2, StepUse, StepDisconnected, StepEnqueue, StepNotifyOne
        DEF ThreadLocks, ThreadGoesOn
    <2> QED
        BY <2>1, <2>2, StepOwner DEF AsyncNext
  <1>4. CASE UNCHANGED vars
    <2> USE <1>4 DEF vars, avars, evars, asyncVars
    <2>1. NumbersKept' /\ DisconnectCutsOff'
        BY PendingStays DEF AsyncInv
    <2>2. Pending' = Pending
        BY PendingUnchanged
    <2>3. QueueTypeOK' /\ Drained'
        BY DEF AsyncInv, QueueTypeOK, Drained, Calls, HandlerIDs, NoTask
    <2> QED
        BY <1>1, <2>1, <2>2, <2>3 DEF AsyncInv, Using, Idle
  <1> QED
      BY <1>2, <1>3, <1>4 DEF Next

(* The inductive invariant holds in every reachable state. *)
THEOREM ProviderInvariant == Spec => []AsyncInv
  <1> QED
      BY InitAsync, StepAsync, PTL DEF Spec

(* A call made after its Disconnect has returned was queued before. *)
THEOREM QueuedCallsCutOff == Spec => []DisconnectCutsOff
  <1>1. AsyncInv => DisconnectCutsOff
      BY DEF AsyncInv
  <1> QED
      BY <1>1, ProviderInvariant, PTL

(* With a worker at all, the destructor returns with every queued call     *)
(* made; without one it would return with all of them dropped.             *)
THEOREM CallsNotLost ==
    ASSUME Workers # {}
    PROVE  Spec => []AllTasksRun
  <1>1. ASSUME AsyncInv PROVE AllTasksRun
    <2> USE <1>1 DEF AsyncInv
    <2>1. 1 .. enqueued = ran \cup {e.nr : e \in Queued \cup Running}
        BY DEF NumbersKept, Pending
    <2>2. ASSUME owner = "down" PROVE ran = 1 .. enqueued
      <3>1. \A w \in Workers : wpc[w] = "exited" /\ task[w] = NoTask
          BY <2>2 DEF Drained, QueueTypeOK
      <3>2. Running = {}
          BY <3>1 DEF Running
      <3>3. Queued = {}
        <4>1. m_TaskQueue = << >>
            BY <3>1 DEF Drained
        <4> QED
            BY <4>1 DEF Queued
      <3> QED
          BY <2>1, <3>2, <3>3
    <2> QED
        BY <2>1, <2>2 DEF AllTasksRun
  <1> QED
      BY <1>1, ProviderInvariant, PTL

-----------------------------------------------------------------------------
(* Locks and handlers *)

(* A handler called by the synchronous Fire that subscribes or disconnects *)
(* never gets on, and with it no subscription and no disconnection of any  *)
(* thread ever takes effect again.                                         *)
BlockedInHandler(t) == pc[t] \in {"subscribe", "unsub"} /\ frames[t] # << >>

THEOREM ReentryFreezes ==
    Spec => [][\A t \in Threads : BlockedInHandler(t) =>
                  UNCHANGED <<pc[t], frames[t], m_SimpleEvents, m_NextID>>]_vars
  <1> DEFINE A == \A t \in Threads : BlockedInHandler(t) =>
                     UNCHANGED <<pc[t], frames[t], m_SimpleEvents, m_NextID>>
  <1>1. EventInv /\ [Next]_vars => [A]_vars
    <2> SUFFICES ASSUME EventInv, Next, NEW t \in Threads, BlockedInHandler(t)
                 PROVE  UNCHANGED <<pc[t], frames[t], m_SimpleEvents, m_NextID>>
        OBVIOUS
    <2>1. ASSUME UNCHANGED evars
          PROVE  UNCHANGED <<pc[t], frames[t], m_SimpleEvents, m_NextID>>
        BY <2>1 DEF evars
    <2>2. /\ pc[t] \in {"subscribe", "unsub"} /\ frames[t] # << >> /\ ~ExclusiveFree
          /\ pc \in [Threads -> PcStates] /\ frames \in [Threads -> Seq(FramesFor(m_SimpleEvents))]
        BY DEF BlockedInHandler, ExclusiveFree, EventInv
    <2>3. ASSUME NEW u \in Threads, pc[u] \notin {"subscribe", "unsub"},
                 pc' = pc \/ \E x : pc' = [pc EXCEPT ![u] = x],
                 frames' = frames \/ \E x : frames' = [frames EXCEPT ![u] = x],
                 UNCHANGED <<m_SimpleEvents, m_NextID>>
          PROVE  UNCHANGED <<pc[t], frames[t], m_SimpleEvents, m_NextID>>
        BY <2>2, <2>3
    <2>4. ASSUME NEW u \in Threads, CallSubscribe(u) \/ CallUnsub(u) \/ CallFire(u)
          PROVE  UNCHANGED <<pc[t], frames[t], m_SimpleEvents, m_NextID>>
        BY <2>3, <2>4 DEF CallSubscribe, CallUnsub, CallFire, InUserCode
    <2>5. ASSUME NEW u \in Threads, Subscribe(u) \/ Unsub(u) \/ Fire(u)
          PROVE  UNCHANGED <<pc[t], frames[t], m_SimpleEvents, m_NextID>>
        BY <2>2, <2>3, <2>5 DEF Subscribe, Unsub, Fire
    <2>6. ASSUME NEW u \in Threads, FireGoesOn(u) \/ HandlerThrows(u) \/ Enqueue(u) \/ NotifyOne(u)
          PROVE  UNCHANGED <<pc[t], frames[t], m_SimpleEvents, m_NextID>>
        BY <2>3, <2>6 DEF FireGoesOn, CallHandler, HandlerReturns, FireEnd, HandlerThrows,
                          Enqueue, NotifyOne, InFireLoop, InUserCode, WithTop
    <2>7. CASE Sync(EventNext)
        BY <2>4, <2>5, <2>6, <2>7 DEF Sync, EventNext, Locks
    <2>8. ASSUME NEW w \in Workers,
                 StartWorker(w) \/ WaitStep(w) \/ Park(w) \/ SpuriousWake(w) \/ TaskReturns(w)
          PROVE  UNCHANGED evars
        BY <2>8 DEF StartWorker, WaitStep, Take, ReturnWhenDrained, LeaveLoop,
                    PredicateFalse, Park, SpuriousWake, TaskReturns
    <2>9. ASSUME Constructed \/ SetStop \/ NotifyAll \/ JoinAll PROVE UNCHANGED evars
        BY <2>9 DEF Constructed, SetStop, SetStopUnlocked, NotifyAll, JoinAll
    <2>10. CASE Async(AsyncNext)
        BY <2>1, <2>4, <2>5, <2>6, <2>8, <2>9, <2>10
        DEF Async, AsyncNext, Call, ThreadLocks, ThreadGoesOn, Lock, Disconnected, FireReturns,
            FireGoesOn
    <2> QED
        BY <2>7, <2>10 DEF Next
  <1>2. Init => EventInv
      BY InitEvent DEF Init, AsyncInit
  <1> QED
      BY <1>1, <1>2, StepEvent, PTL DEF Spec

(* The asynchronous Fire has the lock only while it queues calls: it calls *)
(* nobody, and is not inside another one.                                  *)
OnlyQueues(t) ==
    /\ Len(frames[t]) <= 1
    /\ frames[t] # << >> => pc[t] \in {"run", "notify"} /\ frames[t][1].current = 0

LEMMA OthersOnlyQueue ==
    ASSUME EventInv, \A u \in Threads : OnlyQueues(u), NEW t \in Threads,
           pc' = pc \/ \E x : pc' = [pc EXCEPT ![t] = x],
           frames' = frames \/ \E x : frames' = [frames EXCEPT ![t] = x],
           OnlyQueues(t)'
    PROVE  \A u \in Threads : OnlyQueues(u)'
  <1>1. \A u \in Threads : u # t => pc'[u] = pc[u] /\ frames'[u] = frames[u]
      BY DEF EventInv
  <1> QED
      BY <1>1 DEF OnlyQueues

LEMMA StepOnlyQueues ==
    ASSUME EventInv, \A u \in Threads : OnlyQueues(u), NEW t \in Threads,
           Call(t) \/ ThreadLocks(t) \/ ThreadGoesOn(t)
    PROVE  \A u \in Threads : OnlyQueues(u)'
  <1> DEFINE s == frames[t]
  <1>1. /\ pc \in [Threads -> PcStates] /\ frames \in [Threads -> Seq(FramesFor(m_SimpleEvents))]
        /\ s \in Seq(FramesFor(m_SimpleEvents)) /\ Len(s) \in Nat /\ (s = << >> <=> Len(s) = 0)
      BY DEF EventInv
  <1>2. Len(s) <= 1 /\ (s # << >> => pc[t] \in {"run", "notify"} /\ s[1].current = 0 /\ Len(s) = 1)
    <2>1. OnlyQueues(t)
        OBVIOUS
    <2> HIDE DEF s
    <2>2. Len(s) <= 1 /\ (s # << >> => pc[t] \in {"run", "notify"} /\ s[1].current = 0)
        BY <2>1 DEF OnlyQueues, s
    <2>3. Len(s) # 0 => Len(s) = 1
      <3>1. Len(s) \in Nat
          BY <1>1, Zenon
      <3>2. Len(s) <= 1
          BY <2>2, Zenon
      <3>3. \A n \in Nat : n <= 1 /\ n # 0 => n = 1
          BY SMT
      <3> QED
          BY <3>1, <3>2, <3>3, Zenon
    <2>4. s # << >> => Len(s) # 0
        BY <1>1, Zenon
    <2> QED
        BY <2>2, <2>3, <2>4, Zenon
  <1>3. CASE CallSubscribe(t) \/ CallUnsub(t) \/ CallFire(t)
    <2>1. frames' = frames /\ s = << >> /\ \E x : pc' = [pc EXCEPT ![t] = x]
        BY <1>2, <1>3 DEF CallSubscribe, CallUnsub, CallFire, InUserCode, Top
    <2>2. OnlyQueues(t)'
        BY <1>2, <2>1 DEF OnlyQueues
    <2> QED
        BY <2>1, <2>2, OthersOnlyQueue
  <1>4. CASE Subscribe(t) \/ Unsub(t)
    <2>1. frames' = frames /\ s = << >> /\ \E x : pc' = [pc EXCEPT ![t] = x]
        BY <1>4 DEF Subscribe, Unsub, EraseKeeping, ExclusiveFree
    <2>2. OnlyQueues(t)'
        BY <1>2, <2>1 DEF OnlyQueues
    <2> QED
        BY <2>1, <2>2, OthersOnlyQueue
  <1>5. CASE Fire(t)
    <2> DEFINE f == [left |-> m_SimpleEvents, current |-> 0, called |-> {}]
    <2>1. /\ s = << >> /\ pc' = [pc EXCEPT ![t] = "run"]
          /\ frames' = [frames EXCEPT ![t] = Append(s, f)]
        BY <1>2, <1>5 DEF Fire
    <2>2. pc'[t] = "run" /\ frames'[t] = << f >>
      <3>1. pc'[t] = "run" /\ frames'[t] = Append(s, f)
          BY <1>1, <2>1
      <3>2. Append(<< >>, f) = << f >>
          OBVIOUS
      <3> QED
          BY <2>1, <3>1, <3>2
    <2>3. Len(<< f >>) = 1 /\ << f >>[1].current = 0
        OBVIOUS
    <2> HIDE DEF f
    <2>4. OnlyQueues(t)'
        BY <2>2, <2>3 DEF OnlyQueues
    <2> QED
        BY <2>1, <2>4, OthersOnlyQueue
  <1>6. CASE Enqueue(t)
    <2>1. s # << >> /\ pc' = [pc EXCEPT ![t] = "notify"]
        BY <1>6 DEF Enqueue, InFireLoop
    <2>2. PICK i : frames' = WithTop(t, [left |-> Top(t).left \ {i}, current |-> 0,
                                         called |-> Top(t).called \cup {i}])
        BY <1>6 DEF Enqueue
    <2> DEFINE f == [left |-> Top(t).left \ {i}, current |-> 0, called |-> Top(t).called \cup {i}]
    <2>3. f.current = 0
        OBVIOUS
    <2> HIDE DEF f
    <2>4. frames' = [frames EXCEPT ![t] = [s EXCEPT ![1] = f]] /\ Len(s) = 1
        BY <1>2, <2>1, <2>2 DEF WithTop, f
    <2>5. frames'[t] = [s EXCEPT ![1] = f] /\ pc'[t] = "notify"
        BY <1>1, <2>1, <2>4
    <2>6. Len(frames'[t]) = 1 /\ frames'[t][1] = f
        BY <1>1, <2>4, <2>5
    <2>7. OnlyQueues(t)'
        BY <2>3, <2>5, <2>6 DEF OnlyQueues
    <2> QED
        BY <2>1, <2>4, <2>7, OthersOnlyQueue
  <1>7. CASE NotifyOne(t)
    <2>1. frames' = frames /\ pc' = [pc EXCEPT ![t] = "run"]
        BY <1>7 DEF NotifyOne
    <2>2. OnlyQueues(t)'
        BY <1>1, <1>2, <2>1 DEF OnlyQueues
    <2> QED
        BY <2>1, <2>2, OthersOnlyQueue
  <1>8. CASE FireEnd(t)
    <2>1. /\ s # << >> /\ Len(s) = 1 /\ pc' = pc
          /\ frames' = [frames EXCEPT ![t] = SubSeq(s, 1, Len(s) - 1)]
        BY <1>2, <1>8 DEF FireEnd, InFireLoop
    <2>2. frames'[t] = << >>
        BY <1>1, <2>1
    <2>3. OnlyQueues(t)'
        BY <2>2 DEF OnlyQueues
    <2> QED
        BY <2>1, <2>3, OthersOnlyQueue
  <1> QED
      BY <1>3, <1>4, <1>5, <1>6, <1>7, <1>8
      DEF Call, ThreadLocks, ThreadGoesOn, Lock, Disconnected, FireReturns

(* A thread that uses the asynchronous provider never asks for m_Mutex     *)
(* with m_Mutex held, whatever its handlers do: none of them is called     *)
(* inside a Fire.                                                          *)
THEOREM AsyncNeverAsksAgain ==
    Spec => [](kind = "async" => \A t \in Threads : ~AsksAgain(t))
  <1> DEFINE Inv == kind = "async" => \A t \in Threads : OnlyQueues(t)
  <1>1. Init => EventInv /\ Inv
      BY InitEvent DEF Init, AsyncInit, EventInit, OnlyQueues
  <1>2. EventInv /\ Inv /\ [Next]_vars => (EventInv /\ Inv)'
    <2> SUFFICES ASSUME EventInv, Inv, [Next]_vars, kind' = "async"
                 PROVE  \A t \in Threads : OnlyQueues(t)'
        BY StepEvent
    <2>1. kind = "async" /\ (Async(AsyncNext) \/ UNCHANGED vars)
        BY DEF Next, Sync, Async, vars
    <2>2. ASSUME UNCHANGED evars PROVE \A t \in Threads : OnlyQueues(t)'
        BY <2>1, <2>2 DEF evars, OnlyQueues
    <2>3. ASSUME NEW w \in Workers,
                 StartWorker(w) \/ WaitStep(w) \/ Park(w) \/ SpuriousWake(w) \/ TaskReturns(w)
          PROVE  UNCHANGED evars
        BY <2>3 DEF StartWorker, WaitStep, Take, ReturnWhenDrained, LeaveLoop,
                    PredicateFalse, Park, SpuriousWake, TaskReturns
    <2>4. ASSUME Constructed \/ SetStop \/ NotifyAll \/ JoinAll PROVE UNCHANGED evars
        BY <2>4 DEF Constructed, SetStop, SetStopUnlocked, NotifyAll, JoinAll
    <2> QED
        BY <2>1, <2>2, <2>3, <2>4, StepOnlyQueues DEF Async, AsyncNext, vars, avars
  <1>3. Inv => (kind = "async" => \A t \in Threads : ~AsksAgain(t))
      BY DEF OnlyQueues, AsksAgain
  <1> HIDE DEF Inv
  <1> QED
      BY <1>1, <1>2, <1>3, PTL DEF Spec

-----------------------------------------------------------------------------
(* The destructor of the asynchronous provider *)

(* As m_Stop is set with m_QueueMutex held, no worker is then between its  *)
(* predicate and its sleep, and none gets there again.                     *)
StopInv ==
    /\ m_Stop => \A w \in Workers : wpc[w] # "park"
    /\ owner # "ctor" => \A w \in Workers : wpc[w] # "unborn"
    /\ owner \in {"joining", "down"} => \A w \in Workers : wpc[w] # "asleep"

LEMMA StepStop == AsyncInv /\ StopInv /\ [Next]_vars => StopInv'
  <1> SUFFICES ASSUME AsyncInv, StopInv, [Next]_vars PROVE StopInv'
      OBVIOUS
  <1>1. /\ wpc \in [Workers -> WorkerStates] /\ m_Stop \in BOOLEAN
        /\ m_Stop <=> owner \in {"stopped", "joining", "down"}
      BY DEF AsyncInv, QueueTypeOK, Drained
  <1>2. ASSUME UNCHANGED <<m_Stop, wpc, owner>> PROVE StopInv'
      BY <1>2 DEF StopInv
  <1>3. ASSUME UNCHANGED <<m_Stop, owner>>, NEW w \in Workers, NEW x \in WorkerStates,
               wpc' = [wpc EXCEPT ![w] = x],
               x \in {"wait", "task", "exited"} \/ (x = "park" /\ ~m_Stop)
                 \/ (x = "asleep" /\ wpc[w] = "park")
        PROVE  StopInv'
      BY <1>1, <1>3 DEF StopInv
  <1>4. ASSUME NEW w \in Workers,
               StartWorker(w) \/ WaitStep(w) \/ Park(w) \/ SpuriousWake(w) \/ TaskReturns(w)
        PROVE  StopInv'
      BY <1>3, <1>4 DEF StartWorker, WaitStep, Take, ReturnWhenDrained, LeaveLoop,
                        PredicateFalse, Park, SpuriousWake, TaskReturns, WorkerStates
  <1>5. ASSUME NEW t \in Threads, Call(t) \/ ThreadLocks(t) \/ FireReturns(t) PROVE StopInv'
      BY <1>2, <1>5 DEF Call, asyncVars, ThreadLocks, Lock, Disconnected, Enqueue, FireReturns
  <1>6. ASSUME NEW t \in Threads, NotifyOne(t) PROVE StopInv'
      BY <1>2, <1>3, <1>6 DEF NotifyOne, Asleep, WorkerStates
  <1>7. CASE Constructed \/ SetStop \/ NotifyAll \/ JoinAll
      BY <1>1, <1>7 DEF Constructed, SetStop, SetStopUnlocked, NotifyAll, JoinAll, QueueMutexFree,
                        StopInv, Asleep
  <1>8. CASE Sync(EventNext) \/ UNCHANGED vars
      BY <1>2, <1>8 DEF Sync, vars, avars, asyncVars
  <1> QED
      BY <1>4, <1>5, <1>6, <1>7, <1>8 DEF Next, Async, AsyncNext, ThreadGoesOn

(* When the destructor waits for the workers no one of them sleeps, or is  *)
(* about to, with its stop missed: what ThreadPool cannot promise.         *)
THEOREM StopReachesWorkers ==
    Spec => [](owner \in {"joining", "down"} =>
                  \A w \in Workers : wpc[w] \in {"wait", "task", "exited"})
  <1>1. Init => StopInv
      BY DEF Init, AsyncInit, StopInv
  <1>2. AsyncInv /\ StopInv => (owner \in {"joining", "down"} =>
                                  \A w \in Workers : wpc[w] \in {"wait", "task", "exited"})
      BY DEF AsyncInv, StopInv, QueueTypeOK, Drained, WorkerStates
  <1> QED
      BY <1>1, <1>2, InitAsync, StepAsync, StepStop, PTL DEF Spec
=============================================================================
