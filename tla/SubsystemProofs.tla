--------------------------- MODULE SubsystemProofs ---------------------------
(* Proofs about SubsystemManager, for any threads and any types, and about *)
(* the use ClientProgram makes of it.                                      *)
EXTENDS ClientProgram, TLAPS

Stages == {"out", "get", "construct", "erase", "destroy", "stuck"}

SubsystemTypeOK ==
    /\ made \in Nat
    /\ m_Subsystems \in [Codes -> 0 .. made]
    /\ m_Mutex \in Threads \cup {NoThread}
    /\ call \in [Threads -> Stages \X SUBSET Codes]
    /\ holds \in [Threads -> SUBSET (Codes \X (1 .. made))]
    /\ erased \subseteq 1 .. made

(* A constructor or destructor runs under the lock, *)
LockHeld ==
    \A t \in Threads : At(t) \in {"construct", "destroy", "stuck"} => m_Mutex = t

(* so what Get did not find is still missing when it stores its own. *)
StillMissing ==
    \A t \in Threads :
       /\ At(t) \in {"get", "construct"} => \E c \in Codes : Arg(t) = {c}
       /\ At(t) = "construct" => \A c \in Arg(t) : m_Subsystems[c] = 0

OneCodeEach ==
    \A c, d \in Codes :
       m_Subsystems[c] = m_Subsystems[d] /\ m_Subsystems[c] # 0 => c = d

SubsystemInv ==
    SubsystemTypeOK /\ LockHeld /\ StillMissing /\ OneCodeEach /\ ReferencesShared

LEMMA InitSubsystems == SubsystemInit => SubsystemInv
  BY SubsystemAssumption
     DEF SubsystemInit, SubsystemInv, SubsystemTypeOK, LockHeld, StillMissing,
         OneCodeEach, ReferencesShared, Out, At, Arg, Stages

LEMMA CallKeeps ==
    ASSUME SubsystemInv, NEW t \in Threads, NEW cs \in SUBSET Codes, NEW what \in {"get", "erase"},
                  what = "get" => \E c \in Codes : cs = {c}, Call(t, what, cs)
    PROVE  SubsystemInv'
  <1> USE SubsystemAssumption DEF SubsystemInv, SubsystemTypeOK, At, Arg, Call
  <1>1. SubsystemTypeOK'
      BY DEF Stages
  <1>2. LockHeld'
      BY DEF LockHeld, Stages
  <1>3. StillMissing'
      BY DEF StillMissing, LockHeld, Stages
  <1>4. OneCodeEach'
      BY DEF OneCodeEach, StillMissing
  <1>5. ReferencesShared'
      BY DEF ReferencesShared, StillMissing, OneCodeEach
  <1> QED
      BY <1>1, <1>2, <1>3, <1>4, <1>5

LEMMA GetFindsKeeps ==
    ASSUME SubsystemInv, NEW t \in Threads, GetFinds(t)
    PROVE  SubsystemInv'
  <1> USE SubsystemAssumption DEF SubsystemInv, SubsystemTypeOK, At, Arg, GetFinds, Return, Out
  <1>1. SubsystemTypeOK'
      BY DEF Stages
  <1>2. LockHeld'
      BY DEF LockHeld, Stages
  <1>3. StillMissing'
      BY DEF StillMissing, LockHeld, Stages
  <1>4. OneCodeEach'
      BY DEF OneCodeEach, StillMissing
  <1>5. ReferencesShared'
      BY DEF ReferencesShared, StillMissing, OneCodeEach
  <1> QED
      BY <1>1, <1>2, <1>3, <1>4, <1>5

LEMMA GetConstructsKeeps ==
    ASSUME SubsystemInv, NEW t \in Threads, GetConstructs(t)
    PROVE  SubsystemInv'
  <1> USE SubsystemAssumption DEF SubsystemInv, SubsystemTypeOK, At, Arg, GetConstructs, ConstructHolding, Step
  <1>1. SubsystemTypeOK'
      BY DEF Stages
  <1>2. LockHeld'
      BY DEF LockHeld, Stages
  <1>3. StillMissing'
      BY DEF StillMissing, LockHeld, Stages
  <1>4. OneCodeEach'
      BY DEF OneCodeEach, StillMissing
  <1>5. ReferencesShared'
      BY DEF ReferencesShared, StillMissing, OneCodeEach
  <1> QED
      BY <1>1, <1>2, <1>3, <1>4, <1>5

LEMMA ConstructedKeeps ==
    ASSUME SubsystemInv, NEW t \in Threads, Constructed(t)
    PROVE  SubsystemInv'
  <1> USE SubsystemAssumption DEF SubsystemInv, SubsystemTypeOK, At, Arg, Constructed, Return, Out
  <1>1. SubsystemTypeOK'
      BY DEF Stages
  <1>2. LockHeld'
      BY DEF LockHeld, Stages
  <1>3. StillMissing'
      BY DEF StillMissing, LockHeld, Stages
  <1>4. OneCodeEach'
      BY DEF OneCodeEach, StillMissing
  <1>5. ReferencesShared'
      BY DEF ReferencesShared, StillMissing, OneCodeEach
  <1> QED
      BY <1>1, <1>2, <1>3, <1>4, <1>5

LEMMA ConstructorThrowsKeeps ==
    ASSUME SubsystemInv, NEW t \in Threads, ConstructorThrows(t)
    PROVE  SubsystemInv'
  <1> USE SubsystemAssumption DEF SubsystemInv, SubsystemTypeOK, At, Arg, ConstructorThrows, Return, Out
  <1>1. SubsystemTypeOK'
      BY DEF Stages
  <1>2. LockHeld'
      BY DEF LockHeld, Stages
  <1>3. StillMissing'
      BY DEF StillMissing, LockHeld, Stages
  <1>4. OneCodeEach'
      BY DEF OneCodeEach, StillMissing
  <1>5. ReferencesShared'
      BY DEF ReferencesShared, StillMissing, OneCodeEach
  <1> QED
      BY <1>1, <1>2, <1>3, <1>4, <1>5

LEMMA ReentersKeeps ==
    ASSUME SubsystemInv, NEW t \in Threads, Reenters(t)
    PROVE  SubsystemInv'
  <1> USE SubsystemAssumption DEF SubsystemInv, SubsystemTypeOK, At, Arg, Reenters, Step
  <1>1. SubsystemTypeOK'
      BY DEF Stages
  <1>2. LockHeld'
      BY DEF LockHeld, Stages
  <1>3. StillMissing'
      BY DEF StillMissing, LockHeld, Stages
  <1>4. OneCodeEach'
      BY DEF OneCodeEach, StillMissing
  <1>5. ReferencesShared'
      BY DEF ReferencesShared, StillMissing, OneCodeEach
  <1> QED
      BY <1>1, <1>2, <1>3, <1>4, <1>5

LEMMA EraseKeeps ==
    ASSUME SubsystemInv, NEW t \in Threads, Erase(t)
    PROVE  SubsystemInv'
  <1> DEFINE victims == {m_Subsystems[c] : c \in Arg(t)} \ {0}
  <1> USE SubsystemAssumption DEF SubsystemInv
  <1>a. /\ Arg(t) \subseteq Codes
        /\ victims \subseteq 1 .. made
      BY DEF SubsystemTypeOK, Arg
  <1>b. /\ m_Mutex = NoThread
        /\ \/ call' = [call EXCEPT ![t] = <<"out", {}>>] /\ m_Mutex' = m_Mutex
           \/ call' = [call EXCEPT ![t] = <<"destroy", Arg(t)>>] /\ m_Mutex' = t
      BY Zenon DEF Erase, Return, Out, Step
  <1>c. call' \in [Threads -> Stages \X SUBSET Codes]
    <2>1. <<"out", {}>> \in Stages \X SUBSET Codes
        BY DEF Stages
    <2>2. <<"destroy", Arg(t)>> \in Stages \X SUBSET Codes
        BY <1>a DEF Stages
    <2> QED
        BY <1>b, <2>1, <2>2 DEF SubsystemTypeOK
  <1>d. \A u \in Threads \ {t} : call'[u] = call[u]
      BY <1>b DEF SubsystemTypeOK
  <1>e. \/ call'[t] = <<"out", {}>>
        \/ call'[t] = <<"destroy", Arg(t)>> /\ m_Mutex' = t
      BY <1>b DEF SubsystemTypeOK
  <1>1. SubsystemTypeOK'
    <2>1. m_Mutex' \in Threads \cup {NoThread}
        BY <1>b
    <2>2. erased' \subseteq 1 .. made
        BY <1>a DEF Erase, SubsystemTypeOK
    <2>3. m_Subsystems' \in [Codes -> 0 .. made]
        BY DEF Erase, SubsystemTypeOK
    <2> QED
        BY <1>c, <2>1, <2>2, <2>3 DEF Erase, SubsystemTypeOK
  <1>2. LockHeld'
      BY <1>b, <1>d, <1>e DEF LockHeld, At, SubsystemTypeOK
  <1>3. StillMissing'
      BY <1>b, <1>d, <1>e DEF StillMissing, LockHeld, At, Arg, SubsystemTypeOK
  <1>4. OneCodeEach'
      BY DEF Erase, OneCodeEach, SubsystemTypeOK
  <1>5. ReferencesShared'
      BY DEF Erase, Arg, At, ReferencesShared, OneCodeEach, SubsystemTypeOK
  <1> QED
      BY <1>1, <1>2, <1>3, <1>4, <1>5

LEMMA DestroyedKeeps ==
    ASSUME SubsystemInv, NEW t \in Threads, Destroyed(t)
    PROVE  SubsystemInv'
  <1> USE SubsystemAssumption DEF SubsystemInv, SubsystemTypeOK, At, Arg, Destroyed, Return, Out
  <1>1. SubsystemTypeOK'
      BY DEF Stages
  <1>2. LockHeld'
      BY DEF LockHeld, Stages
  <1>3. StillMissing'
      BY DEF StillMissing, LockHeld, Stages
  <1>4. OneCodeEach'
      BY DEF OneCodeEach, StillMissing
  <1>5. ReferencesShared'
      BY DEF ReferencesShared, StillMissing, OneCodeEach
  <1> QED
      BY <1>1, <1>2, <1>3, <1>4, <1>5

LEMMA LetGoKeeps ==
    ASSUME SubsystemInv, NEW t \in Threads, LetGo(t)
    PROVE  SubsystemInv'
  <1> USE SubsystemAssumption DEF SubsystemInv, SubsystemTypeOK, At, Arg, LetGo
  <1>1. SubsystemTypeOK'
      BY DEF Stages
  <1>2. LockHeld'
      BY DEF LockHeld, Stages
  <1>3. StillMissing'
      BY DEF StillMissing, LockHeld, Stages
  <1>4. OneCodeEach'
      BY DEF OneCodeEach, StillMissing
  <1>5. ReferencesShared'
      BY DEF ReferencesShared, StillMissing, OneCodeEach
  <1> QED
      BY <1>1, <1>2, <1>3, <1>4, <1>5

LEMMA StepSubsystems == SubsystemInv /\ [SubsystemNext]_subsystemVars => SubsystemInv'
  <1> SUFFICES ASSUME SubsystemInv, [SubsystemNext]_subsystemVars PROVE SubsystemInv'
      OBVIOUS
  <1>1. CASE UNCHANGED subsystemVars
      BY <1>1 DEF subsystemVars, SubsystemInv, SubsystemTypeOK, LockHeld, StillMissing,
                  OneCodeEach, ReferencesShared, At, Arg
  <1>2. ASSUME NEW t \in Threads, CallStep(t) PROVE SubsystemInv'
      BY <1>2, GetFindsKeeps, GetConstructsKeeps, ConstructedKeeps, ReentersKeeps,
         EraseKeeps, DestroyedKeeps DEF CallStep
  <1>3. ASSUME NEW t \in Threads, ConstructorThrows(t) \/ LetGo(t) PROVE SubsystemInv'
      BY <1>3, ConstructorThrowsKeeps, LetGoKeeps
  <1>4. ASSUME NEW t \in Threads, CallClear(t) PROVE SubsystemInv'
      BY <1>4, CallKeeps DEF CallClear
  <1>5. ASSUME NEW t \in Threads, NEW c \in Codes, CallGet(t, c) \/ CallRemove(t, c)
        PROVE SubsystemInv'
    <2>1. {c} \in SUBSET Codes /\ \E d \in Codes : {c} = {d}
        OBVIOUS
    <2> QED
        BY <1>5, <2>1, CallKeeps DEF CallGet, CallRemove
  <1> QED
      BY <1>1, <1>2, <1>3, <1>4, <1>5 DEF SubsystemNext

(* There is one instance of a type, and a reference stays good until a     *)
(* Remove or a Clear, for any number of threads and types.                 *)
THEOREM SubsystemsShared == SubsystemSpec => []ReferencesShared
  <1>1. SubsystemInv => ReferencesShared
      BY DEF SubsystemInv
  <1> QED
      BY <1>1, InitSubsystems, StepSubsystems, PTL DEF SubsystemSpec

LEMMA DestroyAllKeeps == SubsystemInv /\ DestroyAll => SubsystemInv'
  <1> SUFFICES ASSUME SubsystemInv, DestroyAll PROVE SubsystemInv'
      OBVIOUS
  <1> USE DEF SubsystemInv, DestroyAll
  <1>1. SubsystemTypeOK'
    <2>1. m_Subsystems' \in [Codes -> 0 .. made]
        BY DEF SubsystemTypeOK
    <2>2. \A c \in Codes : m_Subsystems[c] # 0 => m_Subsystems[c] \in 1 .. made
        BY DEF SubsystemTypeOK
    <2>3. erased \subseteq 1 .. made
        BY DEF SubsystemTypeOK
    <2>4. erased' \subseteq 1 .. made
        BY <2>2, <2>3, Zenon
    <2> QED
        BY <2>1, <2>4 DEF SubsystemTypeOK
  <1>2. LockHeld' /\ StillMissing' /\ OneCodeEach'
      BY DEF SubsystemTypeOK, LockHeld, StillMissing, OneCodeEach, At, Arg
  <1>3. ReferencesShared'
      BY DEF SubsystemTypeOK, ReferencesShared, OneCodeEach
  <1> QED
      BY <1>1, <1>2, <1>3

(* Every step of the program is one of the manager's, none, or the end of  *)
(* the statics.                                                            *)
LEMMA ProgramSteps == [Next]_vars => [SubsystemNext]_subsystemVars \/ DestroyAll
  <1> SUFFICES ASSUME [Next]_vars PROVE [SubsystemNext]_subsystemVars \/ DestroyAll
      OBVIOUS
  <1> USE ProgramAssumption
  <1>1. CASE UNCHANGED vars
      BY <1>1 DEF vars
  <1>2. CASE \E t \in Threads : CallStep(t) \/ ConstructorThrows(t)
      BY <1>2 DEF SubsystemNext
  <1>3. CASE MessageThrows \/ CommandThrows
      BY <1>2, <1>3 DEF MessageThrows, CommandThrows
  <1>4. CASE HandleMessage \/ ClearAllSubsystems \/ CommandCalls
      BY <1>4 DEF HandleMessage, ClearAllSubsystems, CommandCalls, SubsystemNext
  <1>5. CASE MainStep
      BY <1>2, <1>4, <1>5
         DEF MainStep, Cleared, DestroyConsole, DestroyStatics
  <1>6. CASE ListenerStep
      BY <1>2, <1>6 DEF ListenerStep, CommandEnds
  <1>7. CASE Start \/ Register \/ LeaveLoop
      BY <1>7 DEF Start, Register, LeaveLoop
  <1>8. CASE Environment
      BY <1>8 DEF Environment, SubsystemNext
  <1> QED
      BY <1>1, <1>3, <1>4, <1>5, <1>6, <1>7, <1>8 DEF Next

(* The same of the program: neither the console's commands nor the order   *)
(* in which the program ends make two instances of a subsystem.            *)
THEOREM ProgramSharesSubsystems == Spec => []ReferencesShared
  <1>1. Init => SubsystemInv
      BY InitSubsystems DEF Init
  <1>2. SubsystemInv /\ [Next]_vars => SubsystemInv'
      BY StepSubsystems, DestroyAllKeeps, ProgramSteps
  <1>3. SubsystemInv => ReferencesShared
      BY DEF SubsystemInv
  <1> QED
      BY <1>1, <1>2, <1>3, PTL DEF Spec

-----------------------------------------------------------------------------
(* The console: the line that was waited for when the flag was cleared is  *)
(* the last one looked up, as the loop's test comes next.                  *)
LateInv ==
    /\ late \in 0 .. 1
    /\ late = 1 => ~m_Running /\ listener \notin {"getline", "find"}

ConsoleStep ==
    \/ Construct \/ TypeLine \/ ListenStep \/ HandlerReturns \/ HandlerThrows
    \/ Destroy \/ Join \/ \E name \in Registered : RegisterCommand(name)

LEMMA ProgramConsole == [Next]_vars => ConsoleStep \/ UNCHANGED consoleVars
  <1> SUFFICES ASSUME [Next]_vars PROVE ConsoleStep \/ UNCHANGED consoleVars
      OBVIOUS
  <1>1. CASE UNCHANGED vars
      BY <1>1 DEF vars
  <1>2. CASE Start \/ HandleMessage \/ MessageThrows \/ Register \/ LeaveLoop
      BY <1>2 DEF Start, HandleMessage, MessageThrows, Register, LeaveLoop, ConsoleStep
  <1>3. CASE MainStep
      BY <1>3 DEF MainStep, ClearAllSubsystems, Cleared, DestroyConsole, DestroyStatics,
                  ConsoleStep
  <1>4. CASE CommandCalls \/ CommandThrows \/ ListenerStep \/ Environment
      BY <1>4 DEF CommandCalls, CommandThrows, ListenerStep, CommandEnds, Environment,
                  ConsoleStep
  <1> QED
      BY <1>1, <1>2, <1>3, <1>4 DEF Next

LEMMA StepLate == LateInv /\ ConsoleStep => LateInv'
  <1> SUFFICES ASSUME LateInv, ConsoleStep PROVE LateInv'
      OBVIOUS
  <1> USE DEF LateInv
  <1>1. CASE Construct \/ TypeLine
      BY <1>1 DEF Construct, TypeLine
  <1>2. CASE LoopTest
      BY <1>2 DEF LoopTest, LoopTo
  <1>3. CASE GetLine
    <2>1. UNCHANGED <<m_Running, late>> /\ listener' \in {"test", "find", "exited"}
        BY <1>3 DEF GetLine
    <2>2. listener = "getline"
        BY <1>3 DEF GetLine
    <2> QED
        BY <2>1, <2>2
  <1>4. CASE Find
    <2>1. listener = "find" /\ listener' \in {"test", "exit", "help", "handler"}
        BY <1>4 DEF Find, BuiltIn
    <2>2. (late' = IF m_Running THEN late ELSE late + 1) /\ m_Running' = m_Running
        BY <1>4 DEF Find
    <2> QED
        BY <2>1, <2>2
  <1>5. CASE BuiltInHandler
    <2>1. m_Running' => m_Running
        BY <1>5, Zenon DEF BuiltInHandler
    <2>2. late' = late /\ listener' = "test"
        BY <1>5 DEF BuiltInHandler
    <2> QED
        BY <2>1, <2>2
  <1>6. CASE HandlerReturns \/ HandlerThrows
      BY <1>6 DEF HandlerReturns, HandlerThrows
  <1>7. CASE Destroy \/ Join
      BY <1>7 DEF Destroy, DestroyFlag, Join, JoinWhen
  <1>8. CASE \E name \in Registered : RegisterCommand(name)
      BY <1>8 DEF RegisterCommand
  <1> QED
      BY <1>1, <1>2, <1>3, <1>4, <1>5, <1>6, <1>7, <1>8 DEF ConsoleStep, ListenStep

(* After "exit", or once the console is being destroyed, at most one       *)
(* command is still obeyed, whatever is typed.                             *)
THEOREM LateCommandsBounded == Spec => []OneLateCommand
  <1>1. Init => LateInv
    <2>1. Init => late = 0
        BY DEF Init, ConsoleInit
    <2> QED
        BY <2>1 DEF LateInv
  <1>2. LateInv /\ UNCHANGED consoleVars => LateInv'
      BY DEF LateInv, consoleVars
  <1>3. LateInv => OneLateCommand
      BY DEF LateInv, OneLateCommand
  <1> QED
      BY <1>1, <1>2, <1>3, ProgramConsole, StepLate, PTL DEF Spec

-----------------------------------------------------------------------------
(* The lock: whoever holds it is inside a constructor or a destructor. *)
HolderInside ==
    m_Mutex # NoThread =>
      m_Mutex \in Threads /\ At(m_Mutex) \in {"construct", "destroy", "stuck"}

(* What a call of the manager does to the lock and to where threads are.   *)
LEMMA CallMoves ==
    ASSUME call \in [Threads -> Stages \X SUBSET Codes], HolderInside, NEW t \in Threads, CallStep(t) \/ ConstructorThrows(t)
    PROVE  /\ call' \in [Threads -> Stages \X SUBSET Codes]
           /\ At(t) # "out"
           /\ \A u \in Threads \ {t} : call'[u] = call[u]
           /\ ConstructorThrows(t) => At(t)' = "out"
           /\ HolderInside'
  <1> USE SubsystemAssumption DEF HolderInside, At, Arg
  <1>1. CASE GetFinds(t) \/ Constructed(t) \/ ConstructorThrows(t) \/ Destroyed(t)
    <2>1. call' = [call EXCEPT ![t] = <<"out", {}>>]
        BY <1>1, Zenon DEF GetFinds, Constructed, ConstructorThrows, Destroyed, Return, Out
    <2>4. call[t][1] \in {"get", "construct", "destroy"}
        BY <1>1, Zenon DEF GetFinds, Constructed, ConstructorThrows, Destroyed
    <2>5. m_Mutex' = NoThread
        BY <1>1, Zenon DEF GetFinds, Constructed, ConstructorThrows, Destroyed
    <2>2. <<"out", {}>> \in Stages \X SUBSET Codes
        BY DEF Stages
    <2>3. call' \in [Threads -> Stages \X SUBSET Codes] /\ call'[t] = <<"out", {}>>
        BY <2>1, <2>2
    <2> QED
        BY <2>1, <2>3, <2>4, <2>5
  <1>2. CASE GetConstructs(t) \/ Reenters(t)
    <2>1. PICK what \in {"construct", "stuck"} : call' = [call EXCEPT ![t] = <<what, call[t][2]>>]
        BY <1>2 DEF GetConstructs, ConstructHolding, Reenters, Step
    <2>2. call[t][1] \in {"get", "construct", "destroy"}
        BY <1>2 DEF GetConstructs, ConstructHolding, Reenters
    <2>3. m_Mutex' = t \/ m_Mutex' = m_Mutex
        BY <1>2 DEF GetConstructs, ConstructHolding, Reenters
    <2>4. <<what, call[t][2]>> \in Stages \X SUBSET Codes
        BY DEF Stages
    <2>5. call' \in [Threads -> Stages \X SUBSET Codes] /\ call'[t] = <<what, call[t][2]>>
        BY <2>1, <2>4
    <2>6. ~ConstructorThrows(t)
        BY <2>1, <2>5 DEF ConstructorThrows, Return, Out
    <2> QED
        BY <2>1, <2>2, <2>3, <2>5, <2>6
  <1>3. CASE Erase(t)
    <2>1. \/ call' = [call EXCEPT ![t] = <<"out", {}>>] /\ m_Mutex' = m_Mutex
          \/ call' = [call EXCEPT ![t] = <<"destroy", call[t][2]>>] /\ m_Mutex' = t
        BY <1>3, Zenon DEF Erase, Return, Out, Step
    <2> QED
        BY <1>3, <2>1 DEF Erase, Stages, ConstructorThrows
  <1> QED
      BY <1>1, <1>2, <1>3 DEF CallStep

LEMMA CallBegins ==
    ASSUME call \in [Threads -> Stages \X SUBSET Codes], HolderInside, NEW t \in Threads, NEW what \in {"get", "erase"}, NEW cs \in SUBSET Codes,
           Call(t, what, cs)
    PROVE  /\ call' \in [Threads -> Stages \X SUBSET Codes]
           /\ \A u \in Threads \ {t} : call'[u] = call[u]
           /\ HolderInside'
  BY SubsystemAssumption DEF HolderInside, At, Call, Stages

(* m_Mutex is never left locked: neither a constructor that throws nor     *)
(* destructors that Remove or Clear run return with it, so that a thread   *)
(* that waits for it waits for a constructor or a destructor.              *)
THEOREM LockGivenBack == SubsystemSpec => []HolderInside
  <1>1. SubsystemInit => SubsystemInv /\ HolderInside
      BY InitSubsystems DEF SubsystemInit, HolderInside
  <1>2. SubsystemInv /\ HolderInside /\ [SubsystemNext]_subsystemVars => HolderInside'
    <2> SUFFICES ASSUME SubsystemInv, HolderInside, [SubsystemNext]_subsystemVars
                 PROVE  HolderInside'
        OBVIOUS
    <2>1. call \in [Threads -> Stages \X SUBSET Codes]
        BY DEF SubsystemInv, SubsystemTypeOK
    <2>2. CASE UNCHANGED subsystemVars
        BY <2>2 DEF subsystemVars, HolderInside, At
    <2>3. ASSUME NEW t \in Threads, CallStep(t) \/ ConstructorThrows(t) PROVE HolderInside'
        BY <2>1, <2>3, CallMoves
    <2>4. ASSUME NEW t \in Threads, CallClear(t) PROVE HolderInside'
        BY <2>1, <2>4, CallBegins DEF CallClear
    <2>5. ASSUME NEW t \in Threads, LetGo(t) PROVE HolderInside'
        BY <2>5 DEF LetGo, HolderInside, At
    <2>6. ASSUME NEW t \in Threads, NEW c \in Codes, CallGet(t, c) \/ CallRemove(t, c)
          PROVE  HolderInside'
        BY <2>1, <2>6, CallBegins DEF CallGet, CallRemove
    <2> QED
        BY <2>2, <2>3, <2>4, <2>5, <2>6 DEF SubsystemNext
  <1> QED
      BY <1>1, <1>2, StepSubsystems, PTL DEF SubsystemSpec

(* A subsystem whose constructor or destructor uses the manager freezes it *)
(* for good: no instance is made or destroyed any more, and no call of     *)
(* Get, Remove or Clear that waits, its own included, gets any further.    *)
THEOREM ReentryFreezesManager ==
    SubsystemSpec =>
        [][(\E t \in Threads : At(t) = "stuck") =>
              /\ UNCHANGED <<m_Subsystems, m_Mutex, made, erased>>
              /\ \A t \in Threads : At(t) \in {"get", "erase", "stuck"} => call'[t] = call[t]
          ]_subsystemVars
  <1> DEFINE Frozen ==
                /\ UNCHANGED <<m_Subsystems, m_Mutex, made, erased>>
                /\ \A t \in Threads : At(t) \in {"get", "erase", "stuck"} => call'[t] = call[t]
  <1>1. ASSUME SubsystemInv, SubsystemNext, NEW t \in Threads, At(t) = "stuck"
        PROVE  Frozen
    <2>1. m_Mutex = t /\ t # NoThread
        BY <1>1, SubsystemAssumption DEF SubsystemInv, LockHeld
    <2>2. \A u \in Threads : At(u) \notin {"construct", "destroy"}
        BY <1>1, <2>1 DEF SubsystemInv, LockHeld
    <2>3. ASSUME NEW u \in Threads PROVE ~CallStep(u) /\ ~ConstructorThrows(u)
        BY <2>1, <2>2
           DEF CallStep, GetFinds, GetConstructs, ConstructHolding, Constructed, Reenters,
               Erase, Destroyed, ConstructorThrows
    <2>4. ASSUME NEW u \in Threads, NEW what, NEW cs, Call(u, what, cs) PROVE Frozen
        BY <2>4 DEF Call, At, SubsystemInv, SubsystemTypeOK
    <2>5. ASSUME NEW u \in Threads, LetGo(u) PROVE Frozen
        BY <2>5 DEF LetGo
    <2> QED
        BY <1>1, <2>3, <2>4, <2>5 DEF SubsystemNext, CallClear, CallGet, CallRemove
  <1>2. SubsystemInv /\ [SubsystemNext]_subsystemVars
          => [(\E t \in Threads : At(t) = "stuck") => Frozen]_subsystemVars
      BY <1>1
  <1>3. SubsystemInit => SubsystemInv
      BY InitSubsystems
  <1> QED
      BY <1>2, <1>3, StepSubsystems, PTL DEF SubsystemSpec

-----------------------------------------------------------------------------
(* The end: the listener is in a call of the manager only from a command's *)
(* handler, and wWinMain only from its loop or from ClearAllSubsystems.    *)
Joined ==
    /\ owner = "ctor" => listener = "none"
    /\ owner = "down" => listener \in {"none", "exited"}

EndInv ==
    /\ call \in [Threads -> Stages \X SUBSET Codes]
    /\ HolderInside
    /\ Joined
    /\ At(Listener) # "out" => listener = "handler"
    /\ phase \notin {"loop", "clearing"} => At(Main) = "out"
    /\ phase = "gone" => owner = "down"

(* The console without the calls: a thread that was joined stays so, and   *)
(* a handler in a call does not return.                                    *)
LEMMA ConsoleMoves ==
    ASSUME Joined, ConsoleStep
    PROVE  /\ Joined'
           /\ owner = "down" => owner' = "down"
           /\ listener = "handler" /\ ~HandlerReturns => listener' = "handler"
  <1> USE DEF Joined
  <1>1. CASE Construct \/ TypeLine
      BY <1>1 DEF Construct, TypeLine
  <1>2. CASE LoopTest \/ Find
      BY <1>2 DEF LoopTest, LoopTo, Find
  <1>3. CASE GetLine
    <2>1. listener = "getline" /\ owner' = owner
        BY <1>3 DEF GetLine
    <2> QED
        BY <2>1
  <1>4. CASE BuiltInHandler \/ HandlerReturns \/ HandlerThrows
      BY <1>4 DEF BuiltInHandler, BuiltIn, HandlerReturns, HandlerThrows
  <1>5. CASE Destroy \/ Join
      BY <1>5 DEF Destroy, DestroyFlag, Join, JoinWhen
  <1>6. CASE \E name \in Registered : RegisterCommand(name)
      BY <1>6 DEF RegisterCommand
  <1> QED
      BY <1>1, <1>2, <1>3, <1>4, <1>5, <1>6 DEF ConsoleStep, ListenStep

LEMMA StepEnd == EndInv /\ [Next]_vars => EndInv'
  <1> SUFFICES ASSUME EndInv, [Next]_vars PROVE EndInv'
      OBVIOUS
  <1> USE ProgramAssumption
  <1>1. CASE UNCHANGED vars
      BY <1>1 DEF vars, subsystemVars, consoleVars, EndInv, HolderInside, Joined, At
  <1>2. ASSUME ConsoleStep, UNCHANGED <<phase, call, m_Mutex>>,
               At(Listener) # "out" => ~HandlerReturns
        PROVE  EndInv'
      BY <1>2, ConsoleMoves DEF EndInv, HolderInside, At
  <1>3. ASSUME CallStep(Listener), UNCHANGED <<phase, consoleVars>> PROVE EndInv'
      BY <1>3, CallMoves DEF EndInv, Joined, At, consoleVars
  <1>4. ASSUME CallStep(Main), UNCHANGED <<phase, consoleVars>> PROVE EndInv'
      BY <1>4, CallMoves DEF EndInv, Joined, At, consoleVars
  <1>5. CASE Start
      BY <1>5 DEF Start, GoTo, DestroyAll, EndInv, HolderInside, Joined, At, subsystemVars,
                  consoleVars
  <1>6. CASE HandleMessage
    <2>1. CASE LetGo(Main)
        BY <1>6, <2>1 DEF HandleMessage, LetGo, EndInv, HolderInside, Joined, At, consoleVars
    <2>2. ASSUME NEW c \in Codes, CallGet(Main, c) PROVE EndInv'
        BY <1>6, <2>2, CallBegins
           DEF HandleMessage, CallGet, EndInv, Joined, At, consoleVars
    <2> QED
        BY <1>6, <2>1, <2>2 DEF HandleMessage
  <1>7. CASE MessageThrows
      BY <1>7, CallMoves DEF MessageThrows, GoTo, EndInv, Joined, At, consoleVars
  <1>8. CASE Register
      BY <1>2, <1>8 DEF Register, ConsoleStep, subsystemVars, RegisterCommand, HandlerReturns
  <1>9. CASE LeaveLoop \/ Cleared
      BY <1>9 DEF LeaveLoop, Cleared, GoTo, EndInv, HolderInside, Joined, At, subsystemVars,
                  consoleVars
  <1>10. CASE ClearAllSubsystems
      BY <1>10, CallBegins
         DEF ClearAllSubsystems, CallClear, GoTo, EndInv, Joined, At, consoleVars
  <1>11. CASE DestroyConsole
      BY <1>2, <1>11 DEF DestroyConsole, ConsoleStep, subsystemVars, Destroy, DestroyFlag, Join,
                         JoinWhen, HandlerReturns
  <1>12. CASE DestroyStatics
      BY <1>12 DEF DestroyStatics, GoTo, DestroyAll, EndInv, HolderInside, Joined, At,
                   consoleVars
  <1>13. CASE CommandCalls
    <2>1. PICK c \in Codes : Call(Listener, "get", {c}) \/ Call(Listener, "erase", {c})
        BY <1>13 DEF CommandCalls, CallGet, CallRemove
    <2> QED
        BY <1>13, <2>1, CallBegins DEF CommandCalls, EndInv, Joined, At, consoleVars
  <1>14. CASE CommandThrows
    <2>1. UNCHANGED <<phase, owner, listener>> /\ ConstructorThrows(Listener)
        BY <1>14 DEF CommandThrows, HandlerThrows
    <2> QED
        BY <2>1, CallMoves DEF EndInv, Joined, At
  <1>15. CASE CommandEnds
      BY <1>2, <1>15 DEF CommandEnds, ConsoleStep, subsystemVars
  <1>16. CASE ListenStep /\ UNCHANGED <<phase, subsystemVars>>
    <2>1. At(Listener) # "out" => ~HandlerReturns
      <3>1. ListenStep => listener # "handler"
          BY DEF ListenStep, LoopTest, LoopTo, GetLine, Find, BuiltInHandler, BuiltIn
      <3> QED
          BY <1>16, <3>1 DEF HandlerReturns
    <2> QED
        BY <1>2, <1>16, <2>1 DEF ConsoleStep, subsystemVars
  <1>17. CASE Environment
    <2>1. CASE (Construct \/ TypeLine) /\ UNCHANGED <<phase, subsystemVars>>
      <3>1. ~(TypeLine /\ HandlerReturns) /\ ~(Construct /\ HandlerReturns)
          BY DEF TypeLine, Construct, HandlerReturns
      <3> QED
          BY <1>2, <2>1, <3>1 DEF ConsoleStep, subsystemVars
    <2>2. CASE LetGo(Listener) /\ UNCHANGED <<phase, consoleVars>>
        BY <2>2 DEF LetGo, EndInv, HolderInside, Joined, At, consoleVars
    <2> QED
        BY <1>17, <2>1, <2>2 DEF Environment
  <1> QED
      BY <1>1, <1>3, <1>4, <1>5, <1>6, <1>7, <1>8, <1>9, <1>10, <1>11, <1>12, <1>13, <1>14,
         <1>15, <1>16, <1>17
      DEF Next, MainStep, ListenerStep

(* When main returns the listener has been joined, nobody holds the lock   *)
(* of the subsystem manager, and no call of it is in progress.             *)
THEOREM NobodyLeftAtTheEnd == Spec => []AloneAtTheEnd
  <1> USE ProgramAssumption
  <1>1. Init => EndInv
    <2> SUFFICES ASSUME Init PROVE EndInv
        OBVIOUS
    <2>1. call \in [Threads -> Stages \X SUBSET Codes] /\ At(Main) = "out" /\ At(Listener) = "out"
        BY DEF Init, SubsystemInit, At, Out, Stages
    <2>2. HolderInside
        BY DEF Init, SubsystemInit, HolderInside
    <2>3. phase = "start" /\ owner = "ctor" /\ listener = "none"
        BY DEF Init, ConsoleInit
    <2> QED
        BY <2>1, <2>2, <2>3 DEF EndInv, Joined
  <1>2. EndInv => AloneAtTheEnd
      BY DEF EndInv, HolderInside, Joined, AloneAtTheEnd
  <1> QED
      BY <1>1, <1>2, StepEnd, PTL DEF Spec
=============================================================================
