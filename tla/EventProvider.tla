--------------------------- MODULE EventProvider ----------------------------
(***************************************************************************)
(* Core/EventProvider.hpp, EventProvider: handlers of one event in a map   *)
(* under a std::shared_mutex.  Subscribe and an EventConnection's          *)
(* unsubscription take it exclusively; Fire takes it shared and calls the  *)
(* handlers with it held.  A handler may itself subscribe, disconnect or   *)
(* fire, on the same provider.                                             *)
(*                                                                         *)
(* A thread's Fires in progress are a stack of frames.  What the exclusive *)
(* lock protects is one step; the shared lock is held by every thread that *)
(* has a frame.  Only the overloads without an argument are modelled.      *)
(***************************************************************************)
EXTENDS Naturals, Sequences, FiniteSets

CONSTANTS
    Threads,    \* threads that use the provider
    MaxIds,     \* bound: subscriptions
    MaxFires,   \* bound: calls of Fire
    MaxDepth    \* bound: Fires of one thread inside each other

ASSUME ThreadsAssumption == IsFiniteSet(Threads)
ASSUME EventBounds == MaxIds \in Nat /\ MaxFires \in Nat /\ MaxDepth \in Nat

VARIABLES
    m_SimpleEvents, \* ids of the handlers subscribed to the event
    m_NextID,
    connections,    \* ids whose EventConnection is still connected
    pc,             \* thread -> "run", or the operation it waits for m_Mutex in
    target,         \* thread -> id its Disconnect is to erase
    frames,         \* thread -> its Fires in progress, outermost first
    fires           \* number of calls of Fire

evars == <<m_SimpleEvents, m_NextID, connections, pc, target, frames, fires>>

HandlerIDs == 1 .. MaxIds

Top(t) == frames[t][Len(frames[t])]
WithTop(t, frame) == [frames EXCEPT ![t][Len(frames[t])] = frame]

(* A thread runs its own code, outside the provider or in a handler.       *)
InUserCode(t) ==
    pc[t] = "run" /\ (frames[t] # << >> => Top(t).current # 0)

EventInit ==
    /\ m_SimpleEvents = {}
    /\ m_NextID = 0
    /\ connections = {}
    /\ pc = [t \in Threads |-> "run"]
    /\ target = [t \in Threads |-> 0]
    /\ frames = [t \in Threads |-> << >>]
    /\ fires = 0

-----------------------------------------------------------------------------
(* m_Mutex: nobody may hold it shared, not even the thread that asks.      *)
ExclusiveFree == \A t \in Threads : frames[t] = << >>
Waiting(op) == {t \in Threads : pc[t] = op}

CallSubscribe(t) ==
    /\ InUserCode(t)
    /\ m_NextID + Cardinality(Waiting("subscribe")) < MaxIds
    /\ pc' = [pc EXCEPT ![t] = "subscribe"]
    /\ UNCHANGED <<m_SimpleEvents, m_NextID, connections, target, frames, fires>>

Subscribe(t) ==
    /\ pc[t] = "subscribe"
    /\ ExclusiveFree
    /\ m_NextID' = m_NextID + 1
    /\ m_SimpleEvents' = m_SimpleEvents \cup {m_NextID + 1}
    /\ connections' = connections \cup {m_NextID + 1}
    /\ pc' = [pc EXCEPT ![t] = "run"]
    /\ UNCHANGED <<target, frames, fires>>

(* Disconnect, the destructor, and a move onto the connection: each calls  *)
(* m_Unsub once, as it is null afterwards.                                 *)
CallUnsub(t) ==
    /\ InUserCode(t)
    /\ \E i \in connections :
          /\ connections' = connections \ {i}
          /\ target' = [target EXCEPT ![t] = i]
    /\ pc' = [pc EXCEPT ![t] = "unsub"]
    /\ UNCHANGED <<m_SimpleEvents, m_NextID, frames, fires>>

EraseKeeping(t, kept) ==
    /\ pc[t] = "unsub"
    /\ m_SimpleEvents' = kept
    /\ target' = [target EXCEPT ![t] = 0]
    /\ pc' = [pc EXCEPT ![t] = "run"]
    /\ UNCHANGED <<m_NextID, connections, frames, fires>>

(* Fault: a shared_lock in place of the unique_lock of line 86. *)
EraseShared(t) == EraseKeeping(t, m_SimpleEvents \ {target[t]})

(* m_SimpleEvents[event].erase(id), under a unique_lock.                   *)
Unsub(t) == ExclusiveFree /\ EraseKeeping(t, m_SimpleEvents \ {target[t]})

-----------------------------------------------------------------------------
CallFire(t) ==
    /\ InUserCode(t)
    /\ fires < MaxFires
    /\ Len(frames[t]) < MaxDepth
    /\ fires' = fires + 1
    /\ pc' = [pc EXCEPT ![t] = "fire"]
    /\ UNCHANGED <<m_SimpleEvents, m_NextID, connections, target, frames>>

(* The shared lock; a thread that has it already gets it again only while  *)
(* nobody waits to have it exclusively (for some shared mutexes).          *)
Fire(t) ==
    /\ pc[t] = "fire"
    /\ frames[t] = << >> \/ Waiting("subscribe") \cup Waiting("unsub") = {}
    /\ frames' = [frames EXCEPT ![t] =
                     Append(@, [left |-> m_SimpleEvents, current |-> 0, called |-> {}])]
    /\ pc' = [pc EXCEPT ![t] = "run"]
    /\ UNCHANGED <<m_SimpleEvents, m_NextID, connections, target, fires>>

InFireLoop(t) == pc[t] = "run" /\ frames[t] # << >> /\ Top(t).current = 0

(* cb(): the map is unordered.                                             *)
CallHandler(t) ==
    /\ InFireLoop(t)
    /\ \E i \in Top(t).left :
          frames' = WithTop(t, [left |-> Top(t).left \ {i}, current |-> i,
                                called |-> Top(t).called \cup {i}])
    /\ UNCHANGED <<m_SimpleEvents, m_NextID, connections, pc, target, fires>>

HandlerReturns(t) ==
    /\ InUserCode(t)
    /\ frames[t] # << >>
    /\ frames' = WithTop(t, [Top(t) EXCEPT !.current = 0])
    /\ UNCHANGED <<m_SimpleEvents, m_NextID, connections, pc, target, fires>>

(* A handler throws: Fire is left at once, the handlers it has not called  *)
(* are passed over, and the shared lock is released on the way out.        *)
HandlerThrows(t) ==
    /\ InUserCode(t)
    /\ frames[t] # << >>
    /\ frames' = [frames EXCEPT ![t] = SubSeq(@, 1, Len(@) - 1)]
    /\ UNCHANGED <<m_SimpleEvents, m_NextID, connections, pc, target, fires>>

(* Fault: the loop ends with the lock held. *)
FireEndLocked(t) == InFireLoop(t) /\ Top(t).left = {} /\ UNCHANGED evars

FireEnd(t) ==
    /\ InFireLoop(t)
    /\ Top(t).left = {}
    /\ frames' = [frames EXCEPT ![t] = SubSeq(@, 1, Len(@) - 1)]
    /\ UNCHANGED <<m_SimpleEvents, m_NextID, connections, pc, target, fires>>

-----------------------------------------------------------------------------
Locks(t) == Subscribe(t) \/ Unsub(t) \/ Fire(t)
FireGoesOn(t) == CallHandler(t) \/ HandlerReturns(t) \/ FireEnd(t)

EventNext ==
    \E t \in Threads :
        \/ CallSubscribe(t) \/ CallUnsub(t) \/ CallFire(t) \/ HandlerThrows(t)
        \/ Locks(t) \/ FireGoesOn(t)

-----------------------------------------------------------------------------
(* While a Fire is in progress, at any depth and whatever other threads    *)
(* and its own handlers attempt, the handlers it has called and has yet to *)
(* call are exactly those subscribed: none is called once its Disconnect   *)
(* has returned, and none that is subscribed is passed over.               *)
FiresSubscribersOnly ==
    \A t \in Threads : \A k \in DOMAIN frames[t] :
        LET f == frames[t][k]
        IN  /\ f.left \cup f.called = m_SimpleEvents
            /\ f.left \cap f.called = {}

(* A thread that subscribes, disconnects or fires gets m_Mutex, unless a   *)
(* handler, called with m_Mutex held, asks for it again: a handler that    *)
(* subscribes or disconnects blocks for good, and everybody with it.       *)
AsksAgain(t) == pc[t] \in {"subscribe", "unsub", "fire"} /\ frames[t] # << >>
OnlyHandlersBlock ==
    \A t \in Threads :
        pc[t] # "run" ~> (pc[t] = "run" \/ \E u \in Threads : AsksAgain(u))
=============================================================================
