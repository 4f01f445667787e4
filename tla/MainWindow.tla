----------------------------- MODULE MainWindow -----------------------------
(***************************************************************************)
(* The client's main thread (Client/WinMain.cpp): it creates the window,   *)
(* alternates Application::ProcessMessages and Tick until the window is    *)
(* gone, and cleans up.  Messages reach Container::WindowProc from within  *)
(* PeekMessage and DispatchMessage, and from the system's own loop while   *)
(* the user drags the window (WM_ENTERSIZEMOVE .. WM_EXITSIZEMOVE).        *)
(*                                                                         *)
(* A message is one step: what the system or the user did, and what        *)
(* WindowProc does about it.  The game's callbacks are empty bodies in the *)
(* repository; what they were told is kept in told.  Input messages are    *)
(* the subject of InputQueues.                                             *)
(***************************************************************************)
EXTENDS Naturals

CONSTANTS
    Sizes,          \* sizes of the client area
    Empty           \* size of the client area of a minimized window

ASSUME SizesAssumption == Empty \notin Sizes

VARIABLES
    pc,             \* where wWinMain is
    m_hWnd,         \* is the member m_hWnd not null?
    classRegistered,
    retrieved,      \* has this PeekMessage returned a message?
    s_in_sizemove, s_in_suspend, s_minimized,
    window,         \* the system's side: [state, size, dragged, quit]
    power,          \* "awake", or "suspending" from a query to the resumption
    told,           \* calls of OnSuspending less those of OnResuming
    toldSize,       \* argument of the last OnWindowSizeChanged
    refused,        \* history: suspended by a query that was then refused
    restoredAnew    \* history: restored in another size than the one told

statics == <<s_in_sizemove, s_in_suspend, s_minimized>>
process == <<pc, m_hWnd, classRegistered>>
history == <<refused, restoredAnew>>
vars == <<process, retrieved, statics, window, power, told, toldSize, history>>

WindowStates == {"none", "normal", "minimized", "destroyed"}
IsWindow == window.state \in {"normal", "minimized"}

Init ==
    /\ pc = "initialize" /\ m_hWnd = FALSE /\ classRegistered = FALSE
    /\ retrieved = FALSE
    /\ s_in_sizemove = FALSE /\ s_in_suspend = FALSE /\ s_minimized = FALSE
    /\ window \in [state : {"none"}, size : Sizes, dragged : {FALSE}, quit : {FALSE}]
    /\ power = "awake" /\ told = 0 /\ toldSize = window.size
    /\ refused = FALSE /\ restoredAnew = FALSE

-----------------------------------------------------------------------------
(* Window::Initialize.  ShowWindow sends the first WM_SIZE.                *)
Initialize ==
    /\ pc = "initialize"
    /\ pc' = "process" /\ m_hWnd' = TRUE /\ classRegistered' = TRUE
    /\ window' = [window EXCEPT !.state = "normal"]
    /\ toldSize' = window.size
    /\ UNCHANGED <<retrieved, statics, power, told, history>>

(* The class, or the window, cannot be had: the loop and Release are left  *)
(* out.                                                                    *)
InitializeFails ==
    /\ pc = "initialize"
    /\ pc' = "clear"
    /\ classRegistered' \in BOOLEAN
    /\ UNCHANGED <<m_hWnd, retrieved, statics, window, power, told, toldSize, history>>

-----------------------------------------------------------------------------
(* Messages.                                                               *)
InMessages == pc = "process" /\ IsWindow

(* Messages of the queue are taken one per PeekMessage, or by the system's *)
(* loop; the others are sent and handled in between.                       *)
Posted == InMessages /\ (window.dragged \/ ~retrieved) /\ retrieved' = TRUE
Sent == InMessages /\ UNCHANGED retrieved

(* WM_PAINT: while the window is dragged it runs a Tick, inside of         *)
(* ProcessMessages.  WM_ACTIVATEAPP, WM_MOVE and the like only report.     *)
Paint ==
    /\ Posted
    /\ UNCHANGED <<process, statics, window, power, told, toldSize, history>>

(* WM_CLOSE: OnClosing, and DefWindowProc destroys the window; the         *)
(* WM_DESTROY it sends posts WM_QUIT.                                      *)
Close ==
    /\ Posted \/ Sent
    /\ window' = [window EXCEPT !.state = "destroyed", !.dragged = FALSE, !.quit = TRUE]
    /\ UNCHANGED <<process, statics, power, told, toldSize, history>>

Suspend == told' = IF s_in_suspend THEN told ELSE told + 1
Resume == told' = IF s_in_suspend THEN told - 1 ELSE told

(* WM_SIZE with SIZE_MINIMIZED.                                            *)
Minimize ==
    /\ Sent
    /\ window' = [window EXCEPT !.state = "minimized"]
    /\ IF s_minimized
       THEN UNCHANGED <<told, s_minimized, s_in_suspend>>
       ELSE Suspend /\ s_minimized' = TRUE /\ s_in_suspend' = TRUE
    /\ UNCHANGED <<process, s_in_sizemove, power, toldSize, history>>

(* WM_SIZE of a window that is not minimized (any more).                   *)
SizeAs(size) ==
    /\ Sent
    /\ window' = [window EXCEPT !.state = "normal", !.size = size]
    /\ UNCHANGED <<process, s_in_sizemove, power>>

(* Leaving the minimized state ends a suspension, and does not tell the    *)
(* size.                                                                   *)
Restore(size) ==
    /\ s_minimized
    /\ SizeAs(size)
    /\ Resume /\ s_minimized' = FALSE /\ s_in_suspend' = FALSE
    /\ refused' = FALSE
    /\ restoredAnew' = (size # toldSize)
    /\ UNCHANGED toldSize

Resize(size) ==
    /\ ~s_minimized
    /\ SizeAs(size)
    /\ IF s_in_sizemove
       THEN UNCHANGED <<toldSize, restoredAnew>>
       ELSE toldSize' = size /\ restoredAnew' = FALSE
    /\ UNCHANGED <<told, s_in_suspend, s_minimized, refused>>

EnterSizeMove ==
    /\ Posted
    /\ window.state = "normal" /\ ~window.dragged
    /\ window' = [window EXCEPT !.dragged = TRUE]
    /\ s_in_sizemove' = TRUE
    /\ UNCHANGED <<process, s_in_suspend, s_minimized, power, told, toldSize, history>>

StopsDragging == Sent /\ window.dragged /\ window' = [window EXCEPT !.dragged = FALSE]

(* Fault: the final size is not passed on. *)
ExitSizeMoveSilent ==
    /\ StopsDragging
    /\ s_in_sizemove' = FALSE
    /\ UNCHANGED <<process, s_in_suspend, s_minimized, power, told, toldSize, history>>

(* WM_EXITSIZEMOVE: the size is read anew.                                 *)
ExitSizeMove ==
    /\ StopsDragging
    /\ s_in_sizemove' = FALSE
    /\ toldSize' = IF window.state = "minimized" THEN Empty ELSE window.size
    /\ restoredAnew' = FALSE
    /\ UNCHANGED <<process, s_in_suspend, s_minimized, power, told, refused>>

(* WM_POWERBROADCAST, PBT_APMQUERYSUSPEND.                                 *)
QuerySuspend ==
    /\ Sent
    /\ power = "awake" /\ power' = "suspending"
    /\ Suspend /\ s_in_suspend' = TRUE
    /\ UNCHANGED <<process, s_in_sizemove, s_minimized, window, toldSize, history>>

SystemStays == Sent /\ power' = "awake"

(* Fault: a resumption is passed on to a minimized window, too. *)
ResumeSuspendMinimized ==
    /\ SystemStays
    /\ Resume /\ s_in_suspend' = FALSE /\ refused' = FALSE
    /\ UNCHANGED <<process, s_in_sizemove, s_minimized, window, toldSize, restoredAnew>>

(* PBT_APMRESUMESUSPEND, which newer systems send without the query.       *)
ResumeSuspend ==
    /\ SystemStays
    /\ IF s_minimized
       THEN UNCHANGED <<told, s_in_suspend, refused>>
       ELSE Resume /\ s_in_suspend' = FALSE /\ refused' = FALSE
    /\ UNCHANGED <<process, s_in_sizemove, s_minimized, window, toldSize, restoredAnew>>

(* PBT_APMQUERYSUSPENDFAILED, another program refused: no case of the      *)
(* switch.                                                                 *)
SuspendRefused ==
    /\ SystemStays /\ power = "suspending"
    /\ refused' = s_in_suspend
    /\ UNCHANGED <<process, statics, window, told, toldSize, restoredAnew>>

Message ==
    \/ Paint \/ Close \/ Minimize
    \/ \E size \in Sizes : Restore(size) \/ Resize(size)
    \/ EnterSizeMove \/ ExitSizeMove
    \/ QuerySuspend \/ ResumeSuspend \/ SuspendRefused

-----------------------------------------------------------------------------
(* WM_QUIT belongs to no window; PeekMessage, asked for this window's      *)
(* messages, may return it or fail as the window is gone.                  *)
TakeQuit ==
    /\ pc = "process" /\ window.quit /\ ~retrieved
    /\ window' = [window EXCEPT !.quit = FALSE]
    /\ retrieved' = TRUE
    /\ UNCHANGED <<process, statics, power, told, toldSize, history>>

ReturnsTo(next) ==
    /\ pc = "process" /\ ~window.dragged
    /\ pc' = next
    /\ retrieved' = FALSE
    /\ UNCHANGED <<statics, window, power, told, toldSize, history>>

(* ProcessMessages returns true: it had a message, or the window exists.   *)
GoOn == (retrieved \/ IsWindow) /\ ReturnsTo("tick") /\ UNCHANGED <<m_hWnd, classRegistered>>

(* Fault: the class is left registered. *)
WindowGoneRegistered ==
    ~retrieved /\ ~IsWindow /\ ReturnsTo("release") /\ m_hWnd' = FALSE
    /\ UNCHANGED classRegistered

(* It returns false.                                                       *)
WindowGone ==
    ~retrieved /\ ~IsWindow /\ ReturnsTo("release") /\ m_hWnd' = FALSE
    /\ classRegistered' = FALSE

Goes(from, to) ==
    /\ pc = from /\ pc' = to
    /\ UNCHANGED <<m_hWnd, retrieved, statics, power, told, toldSize, history>>

(* Application::Tick: ProcessInput, Update and Render are empty bodies.    *)
Tick == Goes("tick", "process") /\ UNCHANGED <<classRegistered, window>>

Release ==
    /\ Goes("release", "clear")
    /\ IF m_hWnd
       THEN classRegistered' = FALSE /\ window' = [window EXCEPT !.state = "destroyed"]
       ELSE UNCHANGED <<classRegistered, window>>

(* ClearAllSubsystems, and the end of wWinMain.                            *)
Clear == Goes("clear", "done") /\ UNCHANGED <<classRegistered, window>>

-----------------------------------------------------------------------------
MainStep ==
    \/ Initialize \/ InitializeFails
    \/ GoOn \/ WindowGone \/ Tick \/ Release \/ Clear

Next == MainStep \/ Message \/ TakeQuit

Spec == Init /\ [][Next]_vars

(* The main thread is not delayed forever while it may go on.              *)
FairSpec == Spec /\ WF_vars(MainStep)

-----------------------------------------------------------------------------
(* OnSuspending and OnResuming alternate, the game is suspended while the  *)
(* window is minimized, and it runs when the window is shown and the       *)
(* system awake, in whatever order minimizing and suspending begin and     *)
(* end.  The exception is a suspension that was announced and refused:     *)
(* nobody tells the game until it is minimized or suspended again.         *)
SuspendedWhenDue ==
    /\ told = IF s_in_suspend THEN 1 ELSE 0
    /\ window.state = "minimized" => told = 1
    /\ window.state = "normal" /\ power = "awake" /\ ~refused => told = 0

(* Why: s_minimized follows the window, and a minimized window is          *)
(* suspended.                                                              *)
WindowTypes ==
    /\ window \in [state : WindowStates, size : Sizes, dragged : BOOLEAN, quit : BOOLEAN]
    /\ s_minimized \in BOOLEAN /\ s_in_suspend \in BOOLEAN /\ refused \in BOOLEAN

FlagsFollow ==
    /\ pc = "initialize" => window.state = "none"
    /\ IsWindow => (s_minimized <=> window.state = "minimized")
    /\ s_minimized /\ IsWindow => s_in_suspend
    /\ window.state = "none" => ~s_minimized /\ ~s_in_suspend

(* A shown window that is not being dragged has the size the game was last *)
(* told, unless it was restored in another one (maximized from the         *)
(* task bar): then the game is not told until the next resize.             *)
SizeKnown ==
    window.state = "normal" /\ ~window.dragged /\ ~restoredAnew => toldSize = window.size

(* Once the window is destroyed, from wherever in the message loop, the    *)
(* program ends with its window class unregistered.                        *)
EndsAfterDestruction ==
    window.state = "destroyed" ~> (pc = "done" /\ ~classRegistered)
=============================================================================
