---------------------------- MODULE DebugConsole ----------------------------
(***************************************************************************)
(* Client/DebugConsole.h: a thread that reads lines from the console and   *)
(* runs the command each one names, and a destructor that clears           *)
(* m_Running and joins it, although it may be blocked in getline.          *)
(*                                                                         *)
(* The handlers of the commands "exit" and "help" are the code's own; the  *)
(* others are what RegisterCommand was given and are the environment's.    *)
(***************************************************************************)
EXTENDS Naturals, Sequences

CONSTANTS
    Registered,     \* the names RegisterCommand may be given
    Lines,          \* what the user may type: names, blanks, anything
    MaxLines        \* bound: lines typed

VARIABLES
    m_Running,      \* the atomic flag
    m_Commands,     \* the names that have a handler
    listener,       \* where the thread is
    line,           \* the local of ListenLoop, trimmed
    typed,          \* lines typed and not read yet
    typedLines,     \* how many were typed
    closed,         \* standard input has ended
    owner,          \* where the constructor and the destructor are
    crashed,        \* the process was ended by an exception or a torn map
    late            \* history: commands looked up after m_Running was cleared

consoleVars == <<m_Running, m_Commands, listener, line, typed, typedLines, closed,
                 owner, crashed, late>>
userVars == <<typed, typedLines, closed>>

BuiltIn == {"exit", "help"}

ConsoleInit ==
    /\ m_Running = TRUE
    /\ m_Commands = {}
    /\ listener = "none"
    /\ line = "" /\ typed = << >> /\ typedLines = 0 /\ closed = FALSE
    /\ owner = "ctor" /\ crashed = FALSE /\ late = 0

(* The user types a line or ends the input. *)
TypeLine ==
    /\ ~closed
    /\ \/ \E text \in Lines :
             /\ typedLines < MaxLines
             /\ typed' = Append(typed, text)
             /\ typedLines' = typedLines + 1
             /\ UNCHANGED closed
       \/ closed' = TRUE /\ UNCHANGED <<typed, typedLines>>
    /\ UNCHANGED <<m_Running, m_Commands, listener, line, owner, crashed, late>>

(* AllocConsole may fail: then there are no commands and no thread. *)
Construct ==
    /\ owner = "ctor"
    /\ owner' = "up"
    /\ \/ m_Commands' = BuiltIn /\ listener' = "test"
       \/ UNCHANGED <<m_Commands, listener>>
    /\ UNCHANGED <<m_Running, line, userVars, crashed, late>>

(* RegisterCommand inserts with no lock: if the listener is reading the    *)
(* map at that moment anything may come of it, the end of the process too. *)
RegisterCommand(name) ==
    /\ owner = "up"
    /\ m_Commands' = m_Commands \cup {name}
    /\ \/ UNCHANGED crashed
       \/ listener \in {"find", "help"} /\ crashed' = TRUE
    /\ UNCHANGED <<m_Running, listener, line, userVars, owner, late>>

-----------------------------------------------------------------------------
(* ListenLoop *)
LoopTo(pc) ==
    /\ listener = "test"
    /\ listener' = pc
    /\ UNCHANGED <<m_Running, m_Commands, line, userVars, owner, crashed, late>>

(* Fault: while(true). *)
LoopForever == LoopTo("getline")

LoopTest == LoopTo(IF m_Running THEN "getline" ELSE "exited")

(* getline returns a line, or fails when there is none to come; an empty   *)
(* command goes back to the loop's test.                                   *)
GetLine ==
    /\ listener = "getline"
    /\ \/ /\ typed # << >>
          /\ line' = Head(typed) /\ typed' = Tail(typed)
          /\ listener' = IF Head(typed) = "" THEN "test" ELSE "find"
       \/ /\ typed = << >> /\ closed
          /\ listener' = "exited"
          /\ UNCHANGED <<line, typed>>
    /\ UNCHANGED <<m_Running, m_Commands, typedLines, closed, owner, crashed, late>>

(* The command is looked up and its handler called. *)
Find ==
    /\ listener = "find"
    /\ listener' = CASE line \notin m_Commands -> "test"
                     [] line \in BuiltIn -> line
                     [] OTHER -> "handler"
    /\ late' = IF m_Running THEN late ELSE late + 1
    /\ UNCHANGED <<m_Running, m_Commands, line, userVars, owner, crashed>>

BuiltInHandler ==
    /\ listener \in BuiltIn
    /\ m_Running' = (m_Running /\ listener # "exit")
    /\ listener' = "test"
    /\ UNCHANGED <<m_Commands, line, userVars, owner, crashed, late>>

(* A registered handler returns; nothing catches what one throws. *)
HandlerReturns ==
    /\ listener = "handler"
    /\ listener' = "test"
    /\ UNCHANGED <<m_Running, m_Commands, line, userVars, owner, crashed, late>>

HandlerThrows ==
    /\ listener = "handler"
    /\ crashed' = TRUE
    /\ UNCHANGED <<m_Running, m_Commands, listener, line, userVars, owner, late>>

-----------------------------------------------------------------------------
DestroyFlag(flag) ==
    /\ owner = "up"
    /\ owner' = "join"
    /\ m_Running' = flag
    /\ UNCHANGED <<m_Commands, listener, line, userVars, crashed, late>>

(* Fault: the destructor joins before it clears the flag. *)
DestroyKeepsRunning == DestroyFlag(m_Running)

(* ~DebugConsole: m_Running = false, *)
Destroy == DestroyFlag(FALSE)

JoinWhen(ended) ==
    /\ owner = "join"
    /\ ended
    /\ owner' = "down"
    /\ UNCHANGED <<m_Running, m_Commands, listener, line, userVars, crashed, late>>

(* Fault: the thread is detached. *)
Detach == JoinWhen(TRUE)

(* then m_Thread.join(), if there is one. *)
Join == JoinWhen(listener \in {"none", "exited"})

ListenStep == LoopTest \/ GetLine \/ Find \/ BuiltInHandler

-----------------------------------------------------------------------------
(* After m_Running was cleared, by "exit" or by the destructor, at most    *)
(* the line the listener was already waiting for is still obeyed.          *)
OneLateCommand == late <= 1
=============================================================================
