--------------------------- MODULE ClientProgram ---------------------------
(***************************************************************************)
(* Client/WinMain.cpp: the life of the program around its message loop     *)
(* (MainWindow).  The debug console is constructed first and so destroyed  *)
(* last, after ClearAllSubsystems; its commands run on the listener's      *)
(* thread and may use the subsystems the message loop uses.                *)
(***************************************************************************)
EXTENDS SubsystemManager, DebugConsole

CONSTANTS
    Main,       \* the thread of wWinMain
    Listener    \* DebugConsole::m_Thread

ASSUME ProgramAssumption == Threads = {Main, Listener} /\ Main # Listener

VARIABLE
    phase   \* where wWinMain is; "killed": exit() was called

vars == <<phase, subsystemVars, consoleVars>>

Over == crashed \/ phase \in {"gone", "killed"}
Blocked == \E t \in Threads : At(t) = "stuck"

Init == SubsystemInit /\ ConsoleInit /\ phase = "start"

GoTo(from, to) == phase = from /\ phase' = to

-----------------------------------------------------------------------------
(* From the console to the message loop: no CPU support or no COM leads    *)
(* straight to the end, a failed Initialize to ClearAllSubsystems, and a   *)
(* failed RegisterRawInputDevices calls exit, which destroys the statics   *)
(* while the listener is running.                                          *)
Start ==
    /\ owner = "up"
    /\ \/ \E to \in {"loop", "clear", "stop"} : GoTo("start", to) /\ UNCHANGED subsystemVars
       \/ GoTo("start", "killed") /\ DestroyAll
    /\ UNCHANGED consoleVars

(* A message is handled: its handler gets a queue, uses it and forgets it. *)
HandleMessage ==
    /\ phase = "loop"
    /\ \/ holds[Main] = {} /\ \E c \in Codes : CallGet(Main, c)
       \/ LetGo(Main)
    /\ UNCHANGED <<phase, consoleVars>>

(* An exception leaves the loop for the handler that skips the clearing.   *)
MessageThrows ==
    /\ ConstructorThrows(Main)
    /\ GoTo("loop", "stop")
    /\ UNCHANGED consoleVars

Register ==
    /\ phase = "loop" /\ At(Main) = "out"
    /\ \E name \in Registered \ m_Commands : RegisterCommand(name)
    /\ UNCHANGED <<phase, subsystemVars>>

(* ProcessMessages has seen WM_QUIT and Release is over. *)
LeaveLoop ==
    /\ At(Main) = "out" /\ holds[Main] = {}
    /\ GoTo("loop", "clear")
    /\ UNCHANGED <<subsystemVars, consoleVars>>

ClearAllSubsystems ==
    /\ GoTo("clear", "clearing")
    /\ CallClear(Main)
    /\ UNCHANGED consoleVars

Cleared ==
    /\ At(Main) = "out"
    /\ GoTo("clearing", "stop")
    /\ UNCHANGED <<subsystemVars, consoleVars>>

(* The destructors of console and, when main has returned, of the statics. *)
DestroyConsole ==
    /\ phase = "stop"
    /\ Destroy \/ Join
    /\ UNCHANGED <<phase, subsystemVars>>

DestroyStatics ==
    /\ owner = "down"
    /\ GoTo("stop", "gone")
    /\ DestroyAll
    /\ UNCHANGED consoleVars

MainStep ==
    \/ CallStep(Main) /\ UNCHANGED <<phase, consoleVars>>
    \/ ClearAllSubsystems \/ Cleared \/ DestroyConsole \/ DestroyStatics

-----------------------------------------------------------------------------
(* A command's handler uses the subsystems; it returns when its call has,  *)
(* or throws what the constructor threw, which nothing catches.            *)
CommandCalls ==
    /\ listener = "handler"
    /\ \E c \in Codes : CallGet(Listener, c) \/ CallRemove(Listener, c)
    /\ UNCHANGED <<phase, consoleVars>>

CommandThrows ==
    /\ ConstructorThrows(Listener) /\ HandlerThrows
    /\ UNCHANGED phase

CommandEnds ==
    /\ At(Listener) = "out"
    /\ HandlerReturns
    /\ UNCHANGED <<phase, subsystemVars>>

ListenerStep ==
    \/ CallStep(Listener) /\ UNCHANGED <<phase, consoleVars>>
    \/ ListenStep /\ UNCHANGED <<phase, subsystemVars>>
    \/ CommandEnds

Environment ==
    \/ (Construct \/ TypeLine) /\ UNCHANGED <<phase, subsystemVars>>
    \/ LetGo(Listener) /\ UNCHANGED <<phase, consoleVars>>

Next ==
    /\ ~Over
    /\ \/ Start \/ HandleMessage \/ MessageThrows \/ Register \/ LeaveLoop
       \/ MainStep
       \/ CommandCalls \/ CommandThrows \/ ListenerStep
       \/ Environment

Spec ==
    /\ Init /\ [][Next]_vars
    /\ WF_vars(~Over /\ MainStep)
    /\ WF_vars(~Over /\ ListenerStep)
    /\ SF_vars(~Over /\ CommandEnds)

-----------------------------------------------------------------------------
(* A call of the subsystem manager returns, unless a constructor or a      *)
(* destructor that called the manager blocks itself and everybody else.    *)
OnlyReentryBlocks ==
    \A t \in Threads : At(t) # "out" ~> (At(t) = "out" \/ Blocked \/ Over)

(* Once main destroys the console, one line of input, or its end, is       *)
(* enough for the program to end; without it main waits for the user.      *)
ConsoleEnds ==
    (owner = "join" /\ (typed # << >> \/ closed)) ~> (Over \/ Blocked)

(* When main returns, the subsystems are destroyed with nobody left who    *)
(* could use them: the console's commands are over by then.                *)
AloneAtTheEnd ==
    phase = "gone" =>
      /\ listener \in {"none", "exited"}
      /\ m_Mutex = NoThread
      /\ At(Listener) = "out"
=============================================================================
