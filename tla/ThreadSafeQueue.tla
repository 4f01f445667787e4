-------------------------- MODULE ThreadSafeQueue ---------------------------
(***************************************************************************)
(* Core/Network/ThreadSafeQueue.hpp: a std::queue under mutex_, with a     *)
(* push that notifies after it has unlocked, a pop that returns false when *)
(* there is nothing, and a waitPop that sleeps on cond_.  Any thread may   *)
(* call any of them; the model lets producers push and consumers pop.      *)
(*                                                                         *)
(* mutex_ is held across two steps only by a waitPop between its false     *)
(* predicate and its sleep (pc = "park").  size() changes nothing: its     *)
(* callers are modelled where they use the result (see PacketWriter).      *)
(***************************************************************************)
EXTENDS Naturals, Sequences, FiniteSets

CONSTANTS
    Producers,  \* threads that push
    Consumers,  \* threads that pop and waitPop
    MaxItems    \* bound: items each producer pushes

ASSUME ProducersAssumption == IsFiniteSet(Producers)
ASSUME ConsumersAssumption == IsFiniteSet(Consumers) /\ Producers \cap Consumers = {}
ASSUME MaxItemsAssumption == MaxItems \in Nat

VARIABLES
    queue_,     \* the std::queue
    pc,         \* where each thread is
    count,      \* producer -> number of items it has pushed
    pushed,     \* history: all items pushed, in order
    popped      \* history: all items popped, in order

vars == <<queue_, pc, count, pushed, popped>>

Threads == Producers \cup Consumers

(* A producer's n-th item. *)
Items == Producers \X (1 .. MaxItems)

MutexFree == \A c \in Consumers : pc[c] # "park"
Asleep == {c \in Consumers : pc[c] = "asleep"}

Init ==
    /\ queue_ = << >>
    /\ pc = [t \in Threads |-> "idle"]
    /\ count = [p \in Producers |-> 0]
    /\ pushed = << >> /\ popped = << >>

-----------------------------------------------------------------------------
(* queue_.push(item)                                                       *)
AddItem(p) ==
    /\ pc[p] = "idle"
    /\ count[p] < MaxItems
    /\ count' = [count EXCEPT ![p] = @ + 1]
    /\ queue_' = Append(queue_, <<p, count[p] + 1>>)
    /\ pushed' = Append(pushed, <<p, count[p] + 1>>)
    /\ UNCHANGED popped

(* Fault: the notify_one of line 31 is missing. *)
PushSilent(p) == MutexFree /\ AddItem(p) /\ UNCHANGED pc

(* push, up to the unlock.                                                 *)
Push(p) == MutexFree /\ AddItem(p) /\ pc' = [pc EXCEPT ![p] = "notify"]

(* push, cond_.notify_one: wakes one of the sleepers, or nobody.           *)
NotifyOne(p) ==
    /\ pc[p] = "notify"
    /\ \/ Asleep = {} /\ pc' = [pc EXCEPT ![p] = "idle"]
       \/ \E c \in Asleep : pc' = [pc EXCEPT ![p] = "idle", ![c] = "waitPop"]
    /\ UNCHANGED <<queue_, count, pushed, popped>>

(* item = queue_.front(); ...                                              *)
TakeLeaving(rest) ==
    /\ MutexFree
    /\ queue_ # << >>
    /\ popped' = Append(popped, Head(queue_))
    /\ queue_' = rest
    /\ UNCHANGED <<count, pushed>>

(* Fault: the queue_.pop() of lines 44 and 57 is missing. *)
TakeFrontWithoutPop ==
    Len(popped) <= Cardinality(Producers) * MaxItems /\ TakeLeaving(queue_)

(* ... queue_.pop();                                                       *)
TakeFront == TakeLeaving(Tail(queue_))

(* pop returns true; when it returns false it changes nothing.             *)
Pop(c) ==
    /\ pc[c] = "idle"
    /\ TakeFront
    /\ UNCHANGED pc

(* waitPop is called.                                                      *)
WaitPop(c) ==
    /\ pc[c] = "idle"
    /\ pc' = [pc EXCEPT ![c] = "waitPop"]
    /\ UNCHANGED <<queue_, count, pushed, popped>>

(* Its predicate holds, with mutex_ taken: it takes the item and returns.  *)
WaitPopTakes(c) ==
    /\ pc[c] = "waitPop"
    /\ TakeFront
    /\ pc' = [pc EXCEPT ![c] = "idle"]

(* Its predicate is false: it goes to sleep, with mutex_ until it does.    *)
PredicateFalse(c) ==
    /\ pc[c] = "waitPop"
    /\ MutexFree
    /\ queue_ = << >>
    /\ pc' = [pc EXCEPT ![c] = "park"]
    /\ UNCHANGED <<queue_, count, pushed, popped>>

Park(c) ==
    /\ pc[c] = "park"
    /\ pc' = [pc EXCEPT ![c] = "asleep"]
    /\ UNCHANGED <<queue_, count, pushed, popped>>

SpuriousWake(c) ==
    /\ pc[c] = "asleep"
    /\ pc' = [pc EXCEPT ![c] = "waitPop"]
    /\ UNCHANGED <<queue_, count, pushed, popped>>

-----------------------------------------------------------------------------
Next ==
    \/ \E p \in Producers : Push(p) \/ NotifyOne(p)
    \/ \E c \in Consumers : Pop(c) \/ WaitPop(c) \/ WaitPopTakes(c)
    \/ \E c \in Consumers : PredicateFalse(c) \/ Park(c) \/ SpuriousWake(c)

Spec == Init /\ [][Next]_vars

(* Threads inside push and waitPop go on, and get mutex_ in the end.       *)
Fairness ==
    /\ \A p \in Producers : WF_vars(NotifyOne(p))
    /\ \A c \in Consumers :
          WF_vars(Park(c)) /\ SF_vars(WaitPopTakes(c) \/ PredicateFalse(c))

FairSpec == Spec /\ Fairness

-----------------------------------------------------------------------------
(* The type invariant of the queue.                                        *)
TypeOK ==
    /\ queue_ \in Seq(Items)
    /\ pc \in [Threads -> {"idle", "notify", "waitPop", "park", "asleep"}]
    /\ \A p \in Producers : pc[p] \in {"idle", "notify"}
    /\ count \in [Producers -> 0 .. MaxItems]
    /\ pushed \in Seq(Items) /\ popped \in Seq(Items)

ParkedOnEmptyQueue == (\E c \in Consumers : pc[c] = "park") => queue_ = << >>

(* While a consumer sleeps in waitPop there is, for every queued item, a   *)
(* thread about to take one or to wake a sleeper; a pop() that takes the   *)
(* item a sleeper was woken for leaves no other item without a taker.      *)
OnTheWay == {t \in Threads : pc[t] \in {"waitPop", "notify"}}
NoLostWakeup == Asleep # {} => Len(queue_) <= Cardinality(OnTheWay)

(* What was pushed is what was popped, then what is still queued.          *)
NothingLostOrReordered == pushed = popped \o queue_

(* The inductive invariant the proofs use.                                 *)
QueueInv ==
    /\ TypeOK
    /\ ParkedOnEmptyQueue
    /\ NoLostWakeup
    /\ NothingLostOrReordered

(* "A simple multi-producer, multi-consumer thread-safe queue" (line 5):   *)
(* the queue implements a FIFO queue.                                      *)
Fifo == INSTANCE FifoQueue WITH put <- pushed, taken <- popped
ImplementsFifoQueue == Fifo!Spec

(* "Block until an item is available, then pop it" (line 49): as long as a *)
(* consumer waits, an item that is queued is taken.                        *)
ItemsReachWaiters ==
    \A i \in Items :
        (/\ \E k \in 1 .. Len(queue_) : queue_[k] = i
         /\ \E c \in Consumers : pc[c] # "idle")
        ~> (\/ \A k \in 1 .. Len(queue_) : queue_[k] # i
            \/ \A c \in Consumers : pc[c] = "idle")
=============================================================================
