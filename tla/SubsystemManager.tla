-------------------------- MODULE SubsystemManager --------------------------
(***************************************************************************)
(* Core/SubsystemManager.hpp: the singleton map from type code to the one  *)
(* instance of a subsystem.  Get constructs what it does not find, Remove  *)
(* and Clear destroy; all three run constructors and destructors with      *)
(* m_Mutex held, and the references Get returned are not tracked.          *)
(*                                                                         *)
(* Instances are numbered as constructed.  Looking a code up is one step   *)
(* under the lock; a constructor or destructor runs between two steps.     *)
(***************************************************************************)
EXTENDS Naturals

CONSTANTS
    Threads,        \* callers of GetSubsystem, RemoveSubsystem, ClearAllSubsystems
    Codes,          \* GetStaticTypeCode() of the subsystem types
    NoThread,       \* nobody holds m_Mutex
    MaxInstances    \* bound: no call of Get once that many were constructed

ASSUME SubsystemAssumption == NoThread \notin Threads /\ MaxInstances \in Nat

VARIABLES
    m_Subsystems,   \* code -> instance, 0 if there is none
    m_Mutex,        \* the thread that holds it
    call,           \* thread -> where its call is, and the codes it is about
    holds,          \* thread -> pairs of a code and the instance it was given
    made,           \* number of instances constructed
    erased          \* history: instances Remove, Clear or the end destroyed

subsystemVars == <<m_Subsystems, m_Mutex, call, holds, made, erased>>

Out == <<"out", {}>>    \* in no call
At(t) == call[t][1]
Arg(t) == call[t][2]
Step(t, what) == call' = [call EXCEPT ![t] = <<what, Arg(t)>>]
Return(t) == call' = [call EXCEPT ![t] = Out]

SubsystemInit ==
    /\ m_Subsystems = [c \in Codes |-> 0]
    /\ m_Mutex = NoThread
    /\ call = [t \in Threads |-> Out]
    /\ holds = [t \in Threads |-> {}]
    /\ made = 0
    /\ erased = {}

(* Calls that wait for the lock. *)
Call(t, what, cs) ==
    /\ At(t) = "out"
    /\ call' = [call EXCEPT ![t] = <<what, cs>>]
    /\ UNCHANGED <<m_Subsystems, m_Mutex, holds, made, erased>>

CallGet(t, c) == made < MaxInstances /\ Call(t, "get", {c})
CallRemove(t, c) == Call(t, "erase", {c})
CallClear(t) == Call(t, "erase", Codes)

(* Get with the lock: it finds the instance and returns a reference, *)
GetFinds(t) ==
    /\ At(t) = "get" /\ m_Mutex = NoThread
    /\ \E c \in Arg(t) :
          /\ m_Subsystems[c] # 0
          /\ holds' = [holds EXCEPT ![t] = @ \cup {<<c, m_Subsystems[c]>>}]
    /\ Return(t)
    /\ UNCHANGED <<m_Subsystems, m_Mutex, made, erased>>

ConstructHolding(t, holder) ==
    /\ At(t) = "get" /\ m_Mutex = NoThread
    /\ \A c \in Arg(t) : m_Subsystems[c] = 0
    /\ m_Mutex' = holder
    /\ Step(t, "construct")
    /\ UNCHANGED <<m_Subsystems, holds, made, erased>>

(* Fault: the lock covers the lookup only, to let constructors call Get. *)
GetConstructsUnlocked(t) == ConstructHolding(t, NoThread)

(* or it constructs one, *)
GetConstructs(t) == ConstructHolding(t, t)

(* which is stored and returned. *)
Constructed(t) ==
    /\ At(t) = "construct"
    /\ made' = made + 1
    /\ \E c \in Arg(t) :
          /\ m_Subsystems' = [m_Subsystems EXCEPT ![c] = made']
          /\ holds' = [holds EXCEPT ![t] = @ \cup {<<c, made'>>}]
    /\ m_Mutex' = NoThread
    /\ Return(t)
    /\ UNCHANGED erased

(* The constructor throws: nothing is stored and the lock is released. *)
ConstructorThrows(t) ==
    /\ At(t) = "construct"
    /\ m_Mutex' = NoThread
    /\ Return(t)
    /\ UNCHANGED <<m_Subsystems, holds, made, erased>>

(* A constructor or destructor calls the manager: m_Mutex is not recursive *)
(* and the standard leaves this undefined; here it blocks.                 *)
Reenters(t) ==
    /\ At(t) \in {"construct", "destroy"}
    /\ Step(t, "stuck")
    /\ UNCHANGED <<m_Subsystems, m_Mutex, holds, made, erased>>

(* Remove and Clear with the lock: the destructors run before it is free. *)
Erase(t) ==
    LET victims == {m_Subsystems[c] : c \in Arg(t)} \ {0}
    IN  /\ At(t) = "erase" /\ m_Mutex = NoThread
        /\ m_Subsystems' = [c \in Codes |-> IF c \in Arg(t) THEN 0 ELSE m_Subsystems[c]]
        /\ erased' = erased \cup victims
        /\ IF victims = {}
           THEN Return(t) /\ UNCHANGED m_Mutex
           ELSE Step(t, "destroy") /\ m_Mutex' = t
        /\ UNCHANGED <<holds, made>>

(* Fault: Remove and Clear return with the lock. *)
DestroyedLocked(t) ==
    /\ At(t) = "destroy"
    /\ Return(t)
    /\ UNCHANGED <<m_Subsystems, m_Mutex, holds, made, erased>>

Destroyed(t) ==
    /\ At(t) = "destroy"
    /\ Return(t)
    /\ m_Mutex' = NoThread
    /\ UNCHANGED <<m_Subsystems, holds, made, erased>>

(* ~_Subsystem, at the end of the program: no lock is taken. *)
DestroyAll ==
    /\ erased' = erased \cup ({m_Subsystems[c] : c \in Codes} \ {0})
    /\ m_Subsystems' = [c \in Codes |-> 0]
    /\ UNCHANGED <<m_Mutex, call, holds, made>>

(* The caller's references go out of scope. *)
LetGo(t) ==
    /\ At(t) = "out"
    /\ holds[t] # {}
    /\ holds' = [holds EXCEPT ![t] = {}]
    /\ UNCHANGED <<m_Subsystems, m_Mutex, call, made, erased>>

-----------------------------------------------------------------------------
CallStep(t) ==
    \/ GetFinds(t) \/ GetConstructs(t) \/ Constructed(t) \/ Reenters(t)
    \/ Erase(t) \/ Destroyed(t)

(* Threads that use the manager as they like. *)
SubsystemNext ==
    \E t \in Threads :
       \/ CallStep(t) \/ ConstructorThrows(t) \/ CallClear(t) \/ LetGo(t)
       \/ \E c \in Codes : CallGet(t, c) \/ CallRemove(t, c)

SubsystemSpec == SubsystemInit /\ [][SubsystemNext]_subsystemVars

-----------------------------------------------------------------------------
(* There is one instance of a type: every reference given out is to the    *)
(* one in the map, or was invalidated by Remove or Clear and by nothing    *)
(* else, and no instance is lost or destroyed while it is in the map.      *)
ReferencesShared ==
    /\ \A t \in Threads : \A r \in holds[t] :
          r[2] \in erased \/ m_Subsystems[r[1]] = r[2]
    /\ \A i \in 1 .. made : i \in erased \/ \E c \in Codes : m_Subsystems[c] = i
    /\ \A c \in Codes : m_Subsystems[c] \notin erased
=============================================================================
