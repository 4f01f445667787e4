----------------------- MODULE ThreadSafeQueueProofs ------------------------
(***************************************************************************)
(* Proofs about ThreadSafeQueue, for any finite sets of producers and      *)
(* consumers and any number of items.                                      *)
(***************************************************************************)
EXTENDS ThreadSafeQueue, FiniteSetTheorems, SequenceTheorems, TLAPS

LEMMA TypeInit == Init => TypeOK
<1> SUFFICES ASSUME Init PROVE TypeOK
  OBVIOUS
<1>1. count \in [Producers -> 0 .. MaxItems]
  BY MaxItemsAssumption DEF Init
<1> QED BY <1>1 DEF Init, TypeOK, Threads

LEMMA TypeStep == TypeOK /\ [Next]_vars => TypeOK'
<1> SUFFICES ASSUME TypeOK, [Next]_vars PROVE TypeOK'
  OBVIOUS
<1> USE DEF TypeOK, Threads
<1>1. ASSUME NEW p \in Producers, Push(p) PROVE TypeOK'
  <2>1. count[p] + 1 \in 1 .. MaxItems
    BY <1>1, MaxItemsAssumption DEF Push, AddItem
  <2>2. <<p, count[p] + 1>> \in Items
    BY <2>1 DEF Items
  <2>3. queue_' \in Seq(Items) /\ pushed' \in Seq(Items)
    BY <1>1, <2>2, AppendProperties DEF Push, AddItem
  <2> QED BY <1>1, <2>1, <2>3, ConsumersAssumption DEF Push, AddItem
<1>2. ASSUME NEW p \in Producers, NotifyOne(p) PROVE TypeOK'
  BY <1>2, ConsumersAssumption DEF NotifyOne, Asleep
<1>3. ASSUME TakeFront PROVE queue_' \in Seq(Items) /\ popped' \in Seq(Items)
  BY <1>3, HeadTailProperties, AppendProperties DEF TakeFront, TakeLeaving
<1>4. ASSUME NEW c \in Consumers, Pop(c) PROVE TypeOK'
  BY <1>3, <1>4 DEF Pop, TakeFront, TakeLeaving
<1>5. ASSUME NEW c \in Consumers, WaitPopTakes(c) PROVE TypeOK'
  BY <1>3, <1>5, ConsumersAssumption DEF WaitPopTakes, TakeFront, TakeLeaving
<1>6. ASSUME NEW c \in Consumers, WaitPop(c) \/ PredicateFalse(c) \/ Park(c) \/ SpuriousWake(c)
      PROVE  TypeOK'
  BY <1>6, ConsumersAssumption DEF WaitPop, PredicateFalse, Park, SpuriousWake
<1>7. CASE UNCHANGED vars
  BY <1>7 DEF vars
<1> QED BY <1>1, <1>2, <1>4, <1>5, <1>6, <1>7 DEF Next

LEMMA ParkedStep == TypeOK /\ ParkedOnEmptyQueue /\ [Next]_vars => ParkedOnEmptyQueue'
<1> SUFFICES ASSUME TypeOK, ParkedOnEmptyQueue, [Next]_vars
             PROVE  ParkedOnEmptyQueue'
  OBVIOUS
<1> USE DEF TypeOK, Threads, ParkedOnEmptyQueue
<1>1. ASSUME NEW p \in Producers, Push(p) PROVE ParkedOnEmptyQueue'
  BY <1>1, ConsumersAssumption DEF Push, AddItem, MutexFree
<1>2. ASSUME NEW p \in Producers, NotifyOne(p) PROVE ParkedOnEmptyQueue'
  BY <1>2, ConsumersAssumption DEF NotifyOne, Asleep
<1>3. ASSUME NEW c \in Consumers, Pop(c) \/ WaitPopTakes(c) PROVE ParkedOnEmptyQueue'
  BY <1>3 DEF Pop, WaitPopTakes, TakeFront, TakeLeaving, MutexFree
<1>4. ASSUME NEW c \in Consumers, WaitPop(c) \/ PredicateFalse(c) \/ Park(c) \/ SpuriousWake(c)
      PROVE  ParkedOnEmptyQueue'
  BY <1>4 DEF WaitPop, PredicateFalse, Park, SpuriousWake
<1>5. CASE UNCHANGED vars
  BY <1>5 DEF vars
<1> QED BY <1>1, <1>2, <1>3, <1>4, <1>5 DEF Next

LEMMA WakeupStep ==
    TypeOK /\ ParkedOnEmptyQueue /\ NoLostWakeup /\ [Next]_vars => NoLostWakeup'
<1> SUFFICES ASSUME TypeOK, ParkedOnEmptyQueue, NoLostWakeup, [Next]_vars,
                    Asleep' # {}
             PROVE  Len(queue_') <= Cardinality(OnTheWay')
  BY DEF NoLostWakeup
<1> USE DEF Threads, TypeOK
<1>0. /\ IsFiniteSet(OnTheWay) /\ Cardinality(OnTheWay) \in Nat
      /\ IsFiniteSet(OnTheWay') /\ Cardinality(OnTheWay') \in Nat
      /\ Len(queue_) \in Nat
  <2>1. IsFiniteSet(Threads)
    BY ProducersAssumption, ConsumersAssumption, FS_Union
  <2>2. IsFiniteSet(OnTheWay) /\ IsFiniteSet(OnTheWay')
    BY <2>1, FS_Subset DEF OnTheWay
  <2> QED BY <2>2, FS_CardinalityType, LenProperties
<1>1. ASSUME NEW p \in Producers, Push(p)
      PROVE  Len(queue_') <= Cardinality(OnTheWay')
  <2>1. OnTheWay' = OnTheWay \cup {p} /\ p \notin OnTheWay /\ Asleep # {}
    BY <1>1, ConsumersAssumption DEF Push, AddItem, OnTheWay, Asleep
  <2>2. Cardinality(OnTheWay') = Cardinality(OnTheWay) + 1
    BY <2>1, <1>0, FS_AddElement
  <2>3. <<p, count[p] + 1>> \in Items
    BY <1>1, MaxItemsAssumption DEF Push, AddItem, Items
  <2>4. Len(queue_') = Len(queue_) + 1
    BY <1>1, <2>3, AppendProperties DEF Push, AddItem
  <2> QED BY <2>1, <2>2, <2>4, <1>0 DEF NoLostWakeup
<1>2. ASSUME NEW p \in Producers, NotifyOne(p)
      PROVE  Len(queue_') <= Cardinality(OnTheWay')
  <2>1. CASE Asleep = {}
    BY <1>2, <2>1, ConsumersAssumption DEF NotifyOne, Asleep
  <2>2. ASSUME NEW c \in Asleep, pc' = [pc EXCEPT ![p] = "idle", ![c] = "waitPop"]
        PROVE  Len(queue_') <= Cardinality(OnTheWay')
    <3>1. p \in OnTheWay /\ c \notin OnTheWay /\ c # p
      BY <1>2, <2>2, ConsumersAssumption DEF NotifyOne, OnTheWay, Asleep
    <3>2. OnTheWay' = (OnTheWay \ {p}) \cup {c}
      BY <2>2, <3>1 DEF OnTheWay, Asleep
    <3>3. IsFiniteSet(OnTheWay \ {p}) /\ Cardinality(OnTheWay \ {p}) = Cardinality(OnTheWay) - 1
      BY <3>1, <1>0, FS_RemoveElement
    <3>4. Cardinality(OnTheWay') = Cardinality(OnTheWay \ {p}) + 1
      BY <3>1, <3>2, <3>3, FS_AddElement
    <3> QED BY <1>2, <2>2, <3>3, <3>4, <1>0 DEF NotifyOne, NoLostWakeup
  <2> QED BY <1>2, <2>1, <2>2 DEF NotifyOne
<1>3. ASSUME TakeFront PROVE Len(queue_') = Len(queue_) - 1
  BY <1>3, HeadTailProperties DEF TakeFront, TakeLeaving
<1>4. ASSUME NEW c \in Consumers, Pop(c)
      PROVE  Len(queue_') <= Cardinality(OnTheWay')
  BY <1>0, <1>3, <1>4 DEF Pop, OnTheWay, Asleep, NoLostWakeup
<1>5. ASSUME NEW c \in Consumers, WaitPopTakes(c)
      PROVE  Len(queue_') <= Cardinality(OnTheWay')
  <2>1. c \in OnTheWay /\ OnTheWay' = OnTheWay \ {c} /\ Asleep # {}
    BY <1>5 DEF WaitPopTakes, OnTheWay, Asleep
  <2>2. Cardinality(OnTheWay') = Cardinality(OnTheWay) - 1
    BY <2>1, <1>0, FS_RemoveElement
  <2> QED BY <1>0, <1>3, <1>5, <2>1, <2>2 DEF WaitPopTakes, NoLostWakeup
<1>6. ASSUME NEW c \in Consumers, PredicateFalse(c) \/ Park(c)
      PROVE  Len(queue_') <= Cardinality(OnTheWay')
  BY <1>0, <1>6 DEF PredicateFalse, Park, ParkedOnEmptyQueue
<1>7. ASSUME NEW c \in Consumers, WaitPop(c) \/ SpuriousWake(c)
      PROVE  Len(queue_') <= Cardinality(OnTheWay')
  <2>1. OnTheWay \subseteq OnTheWay' /\ Asleep # {} /\ queue_' = queue_
    BY <1>7 DEF WaitPop, SpuriousWake, OnTheWay, Asleep
  <2> QED BY <1>0, <2>1, FS_Subset DEF NoLostWakeup
<1>8. CASE UNCHANGED vars
  BY <1>8 DEF vars, OnTheWay, Asleep, NoLostWakeup
<1> QED BY <1>1, <1>2, <1>4, <1>5, <1>6, <1>7, <1>8 DEF Next

LEMMA OrderStep ==
    TypeOK /\ NothingLostOrReordered /\ [Next]_vars => NothingLostOrReordered'
<1> SUFFICES ASSUME TypeOK, NothingLostOrReordered, [Next]_vars
             PROVE  NothingLostOrReordered'
  OBVIOUS
<1> USE DEF TypeOK, NothingLostOrReordered
<1>1. ASSUME NEW p \in Producers, Push(p) PROVE NothingLostOrReordered'
  <2> DEFINE i == <<p, count[p] + 1>>
  <2>1. i \in Items
    BY <1>1, MaxItemsAssumption DEF Push, AddItem, Items
  <2> HIDE DEF i
  <2>2. Append(popped \o queue_, i) = popped \o Append(queue_, i)
    <3>1. <<i>> \in Seq(Items) /\ popped \o queue_ \in Seq(Items)
      BY <2>1, ConcatProperties
    <3>2. /\ Append(popped \o queue_, i) = (popped \o queue_) \o <<i>>
          /\ Append(queue_, i) = queue_ \o <<i>>
      BY <2>1, <3>1, AppendIsConcat
    <3>3. (popped \o queue_) \o <<i>> = popped \o (queue_ \o <<i>>)
      BY <3>1, ConcatAssociative
    <3> QED BY <3>2, <3>3
  <2> QED BY <1>1, <2>2 DEF Push, AddItem, i
<1>2. ASSUME TakeFront PROVE NothingLostOrReordered'
  <2>1. Head(queue_) \in Items /\ Tail(queue_) \in Seq(Items)
    BY <1>2, HeadTailProperties DEF TakeFront, TakeLeaving
  <2>2. popped \o queue_ = Append(popped, Head(queue_)) \o Tail(queue_)
    BY <1>2, <2>1, SMT DEF TakeFront, TakeLeaving
  <2> QED BY <1>2, <2>2 DEF TakeFront, TakeLeaving
<1>3. CASE UNCHANGED <<queue_, pushed, popped>>
  BY <1>3
<1> QED
  BY <1>1, <1>2, <1>3
  DEF Next, NotifyOne, Pop, WaitPop, WaitPopTakes, PredicateFalse, Park,
      SpuriousWake, vars

LEMMA QueueInvInit == Init => QueueInv
<1> SUFFICES ASSUME Init PROVE QueueInv
  OBVIOUS
<1>1. TypeOK
  BY TypeInit
<1>2. \A c \in Consumers : pc[c] = "idle"
  BY DEF Init, Threads
<1>3. NothingLostOrReordered
  BY DEF Init, NothingLostOrReordered
<1> QED
  BY <1>1, <1>2, <1>3 DEF QueueInv, ParkedOnEmptyQueue, NoLostWakeup, Asleep

(* The invariant holds for any finite sets of producers and consumers.     *)
THEOREM QueueInvariant == Spec => []QueueInv
<1>1. QueueInv /\ [Next]_vars => QueueInv'
  BY TypeStep, ParkedStep, WakeupStep, OrderStep DEF QueueInv
<1> QED BY QueueInvInit, <1>1, PTL DEF Spec

(* Notifying after the unlock loses no wake-up of a waitPop.               *)
THEOREM QueueWakeupsNotLost == Spec => []NoLostWakeup
<1>1. QueueInv => NoLostWakeup
  BY DEF QueueInv
<1> QED BY <1>1, QueueInvariant, PTL

-----------------------------------------------------------------------------
LEMMA RefinementInit == Init => Fifo!Init
BY DEF Init, Fifo!Init

LEMMA RefinementStep ==
    QueueInv /\ [Next]_vars
        => [Fifo!Put \/ Fifo!Take]_<<pushed, popped>>
<1> SUFFICES ASSUME QueueInv, [Next]_vars
             PROVE  Fifo!Put \/ Fifo!Take \/ UNCHANGED <<pushed, popped>>
  OBVIOUS
<1> USE DEF QueueInv, TypeOK
<1>1. ASSUME NEW p \in Producers, Push(p) PROVE Fifo!Put
  <2>1. <<p, count[p] + 1>> \in Items
    BY <1>1, MaxItemsAssumption DEF Push, AddItem, Items
  <2> QED BY <1>1, <2>1 DEF Push, AddItem, Fifo!Put
<1>2. ASSUME TakeFront PROVE Fifo!Take
  <2>1. /\ Len(popped) \in Nat /\ Len(queue_) \in Nat /\ Len(queue_) >= 1
        /\ Head(queue_) = queue_[1]
    BY <1>2, LenProperties, EmptySeq DEF TakeFront, TakeLeaving
  <2>2. /\ Len(pushed) = Len(popped) + Len(queue_)
        /\ pushed[Len(popped) + 1] = queue_[1]
    BY <2>1, ConcatProperties DEF NothingLostOrReordered
  <2> QED BY <1>2, <2>1, <2>2 DEF TakeFront, TakeLeaving, Fifo!Take
<1> QED
  BY <1>1, <1>2
  DEF Next, NotifyOne, Pop, WaitPop, WaitPopTakes, PredicateFalse, Park,
      SpuriousWake, vars

(* What comes out of the queue is what went in, in the same order.         *)
THEOREM QueueImplementsFifo == Spec => ImplementsFifoQueue
<1>1. Spec => Fifo!Spec
  BY RefinementInit, RefinementStep, QueueInvariant, PTL DEF Spec, Fifo!Spec
<1> QED BY <1>1 DEF ImplementsFifoQueue
=============================================================================
