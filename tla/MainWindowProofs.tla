-------------------------- MODULE MainWindowProofs --------------------------
(***************************************************************************)
(* Proofs that the game is suspended exactly when it is due, and knows the *)
(* size of its window, whatever the sizes and the order of the messages.   *)
(***************************************************************************)
EXTENDS MainWindow, TLAPS

LEMMA WindowInit == Init => WindowTypes /\ FlagsFollow /\ SuspendedWhenDue
BY DEF Init, WindowTypes, WindowStates, IsWindow, FlagsFollow, SuspendedWhenDue

LEMMA TypesStep == WindowTypes /\ [Next]_vars => WindowTypes'
<1> SUFFICES ASSUME WindowTypes, [Next]_vars PROVE WindowTypes'
  OBVIOUS
<1> USE DEF WindowTypes, WindowStates, statics, process, history
<1>1. CASE Initialize \/ InitializeFails
  BY <1>1 DEF Initialize, InitializeFails
<1>2. CASE Paint \/ Close
  BY <1>2 DEF Paint, Close
<1>3. CASE Minimize
  BY <1>3 DEF Minimize
<1>4. ASSUME NEW size \in Sizes, Restore(size) \/ Resize(size) PROVE WindowTypes'
  BY <1>4 DEF Restore, Resize, SizeAs
<1>5. CASE EnterSizeMove \/ ExitSizeMove
  BY <1>5 DEF EnterSizeMove, ExitSizeMove, StopsDragging
<1>6. CASE QuerySuspend \/ ResumeSuspend \/ SuspendRefused
  BY <1>6 DEF QuerySuspend, ResumeSuspend, SuspendRefused
<1>7. CASE TakeQuit \/ GoOn \/ WindowGone
  BY <1>7 DEF TakeQuit, GoOn, WindowGone, ReturnsTo
<1>8. CASE Tick \/ Release \/ Clear
  BY <1>8 DEF Tick, Release, Clear, Goes
<1>9. CASE UNCHANGED vars
  BY <1>9 DEF vars
<1> QED
  BY <1>1, <1>2, <1>3, <1>4, <1>5, <1>6, <1>7, <1>8, <1>9 DEF Next, MainStep, Message

(* What the messages and the main thread's own steps do to the flags and   *)
(* to what the game was told.                                              *)
Told == FlagsFollow /\ SuspendedWhenDue

LEMMA ToldStep == WindowTypes /\ Told /\ [Next]_vars => Told'
<1> SUFFICES ASSUME WindowTypes, Told, [Next]_vars PROVE Told'
  OBVIOUS
<1> USE DEF WindowTypes, WindowStates, IsWindow, Told, FlagsFollow, SuspendedWhenDue,
            statics, process, history
<1>1. CASE Initialize
  <2>1. window'.state = "normal" /\ pc' = "process"
    BY <1>1 DEF Initialize
  <2> QED BY <1>1, <2>1 DEF Initialize
<1>2. CASE InitializeFails
  BY <1>2 DEF InitializeFails
<1>3. CASE Paint
  BY <1>3 DEF Paint
<1>4. CASE Close
  <2>1. window'.state = "destroyed" /\ pc' = pc /\ pc = "process"
    BY <1>4 DEF Close, Posted, Sent, InMessages
  <2> QED BY <1>4, <2>1 DEF Close
<1>5. CASE Minimize
  <2>1. window'.state = "minimized" /\ pc' = pc /\ pc = "process"
    BY <1>5 DEF Minimize, Sent, InMessages
  <2>2. IsWindow
    BY <1>5 DEF Minimize, Sent, InMessages
  <2>3. CASE s_minimized
    BY <1>5, <2>1, <2>2, <2>3 DEF Minimize
  <2>4. CASE ~s_minimized
    BY <1>5, <2>1, <2>2, <2>4 DEF Minimize, Suspend
  <2> QED BY <2>3, <2>4
<1>6. ASSUME NEW size \in Sizes, SizeAs(size)
      PROVE  window'.state = "normal" /\ pc' = pc /\ pc = "process" /\ IsWindow
  BY <1>6 DEF SizeAs, Sent, InMessages
<1>7. ASSUME NEW size \in Sizes, Restore(size) PROVE Told'
  <2>1. SizeAs(size)
    BY <1>7 DEF Restore
  <2> QED BY <1>6, <1>7, <2>1 DEF Restore, Resume
<1>8. ASSUME NEW size \in Sizes, Resize(size) PROVE Told'
  <2>1. SizeAs(size)
    BY <1>8 DEF Resize
  <2> QED BY <1>6, <1>8, <2>1 DEF Resize, SizeAs
<1>9. CASE EnterSizeMove \/ ExitSizeMove
  <2>1. window'.state = window.state
    BY <1>9 DEF EnterSizeMove, ExitSizeMove, StopsDragging
  <2>2. UNCHANGED <<pc, s_minimized, s_in_suspend, power, told, refused>>
    BY <1>9 DEF EnterSizeMove, ExitSizeMove
  <2> QED BY <2>1, <2>2
<1>10. CASE QuerySuspend
  BY <1>10 DEF QuerySuspend, Suspend, Sent, InMessages
<1>11. CASE ResumeSuspend
  <2>1. CASE s_minimized
    BY <1>11, <2>1 DEF ResumeSuspend, SystemStays, Sent, InMessages
  <2>2. CASE ~s_minimized
    BY <1>11, <2>2 DEF ResumeSuspend, SystemStays, Resume, Sent, InMessages
  <2> QED BY <2>1, <2>2
<1>12. CASE SuspendRefused
  BY <1>12 DEF SuspendRefused, SystemStays, Sent, InMessages
<1>13. CASE TakeQuit
  <2>1. window'.state = window.state
    BY <1>13 DEF TakeQuit
  <2> QED BY <1>13, <2>1 DEF TakeQuit
<1>14. CASE GoOn \/ WindowGone
  BY <1>14 DEF GoOn, WindowGone, ReturnsTo
<1>15. CASE Tick \/ Clear
  BY <1>15 DEF Tick, Clear, Goes
<1>16. CASE Release
  <2>1. window'.state \in {"destroyed", window.state} /\ pc' = "clear"
    BY <1>16 DEF Release, Goes
  <2> QED BY <1>16, <2>1 DEF Release, Goes
<1>17. CASE UNCHANGED vars
  BY <1>17 DEF vars
<1> QED
  BY <1>1, <1>2, <1>3, <1>4, <1>5, <1>7, <1>8, <1>9, <1>10, <1>11, <1>12, <1>13,
     <1>14, <1>15, <1>16, <1>17
  DEF Next, MainStep, Message

(* In every reachable state the game has been told to suspend and resume   *)
(* in turn, is suspended while the window is minimized, and runs when the  *)
(* window is shown and the system awake, a refused suspension excepted:    *)
(* OnSuspending and OnResuming as Container::WindowProc calls them.        *)
THEOREM SuspensionCorrect == Spec => []SuspendedWhenDue
<1>1. Init => WindowTypes /\ Told
  BY WindowInit DEF Told
<1>2. Told => SuspendedWhenDue
  BY DEF Told
<1> QED
  BY <1>1, <1>2, TypesStep, ToldStep, PTL DEF Spec

-----------------------------------------------------------------------------
(* The drag flag follows the window as the others do, and the size was     *)
(* told when the window took it, unless it was dragged or restored then.   *)
DragFollows ==
    /\ IsWindow => (s_in_sizemove <=> window.dragged)
    /\ window.state = "none" => ~s_in_sizemove /\ ~window.dragged

Sized == DragFollows /\ SizeKnown

LEMMA SizedInit == Init => Sized
BY DEF Init, Sized, DragFollows, IsWindow, SizeKnown

LEMMA SizedStep == WindowTypes /\ Told /\ Sized /\ [Next]_vars => Sized'
<1> SUFFICES ASSUME WindowTypes, Told, Sized, [Next]_vars PROVE Sized'
  OBVIOUS
<1> USE DEF WindowTypes, WindowStates, IsWindow, Sized, DragFollows, SizeKnown,
            statics, process, history
<1>1. CASE Initialize
  <2>1. /\ window'.state = "normal" /\ window'.size = window.size
        /\ window'.dragged = window.dragged /\ window.state = "none"
    BY <1>1 DEF Initialize, Told, FlagsFollow
  <2> QED BY <1>1, <2>1 DEF Initialize
<1>2. CASE InitializeFails \/ Paint
  BY <1>2 DEF InitializeFails, Paint
<1>3. CASE Close
  <2>1. window'.state = "destroyed"
    BY <1>3 DEF Close
  <2> QED BY <2>1
<1>4. CASE Minimize
  <2>1. window'.state = "minimized" /\ window'.dragged = window.dragged /\ IsWindow
    BY <1>4 DEF Minimize, Sent, InMessages
  <2> QED BY <1>4, <2>1 DEF Minimize
<1>5. ASSUME NEW size \in Sizes, SizeAs(size)
      PROVE  /\ window'.state = "normal" /\ window'.size = size
             /\ window'.dragged = window.dragged /\ s_in_sizemove' = s_in_sizemove /\ IsWindow
  BY <1>5 DEF SizeAs, Sent, InMessages
<1>6. ASSUME NEW size \in Sizes, Restore(size) PROVE Sized'
  BY <1>5, <1>6 DEF Restore
<1>7. ASSUME NEW size \in Sizes, Resize(size) PROVE Sized'
  BY <1>5, <1>7 DEF Resize
<1>8. CASE EnterSizeMove
  <2>1. window'.dragged /\ window'.state = "normal"
    BY <1>8 DEF EnterSizeMove
  <2> QED BY <1>8, <2>1 DEF EnterSizeMove
<1>9. CASE ExitSizeMove
  <2>1. /\ window'.state = window.state /\ window'.size = window.size /\ ~window'.dragged
        /\ IsWindow
    BY <1>9 DEF ExitSizeMove, StopsDragging, Sent, InMessages
  <2> QED BY <1>9, <2>1 DEF ExitSizeMove
<1>10. CASE QuerySuspend \/ ResumeSuspend \/ SuspendRefused
  BY <1>10 DEF QuerySuspend, ResumeSuspend, SuspendRefused
<1>11. CASE TakeQuit
  <2>1. /\ window'.state = window.state /\ window'.size = window.size
        /\ window'.dragged = window.dragged
    BY <1>11 DEF TakeQuit
  <2> QED BY <1>11, <2>1 DEF TakeQuit
<1>12. CASE GoOn \/ WindowGone
  BY <1>12 DEF GoOn, WindowGone, ReturnsTo
<1>13. CASE Tick \/ Clear
  BY <1>13 DEF Tick, Clear, Goes
<1>14. CASE Release
  <2>1. CASE m_hWnd
    <3>1. window'.state = "destroyed"
      BY <1>14, <2>1 DEF Release
    <3> QED BY <3>1
  <2>2. CASE ~m_hWnd
    BY <1>14, <2>2 DEF Release, Goes
  <2> QED BY <2>1, <2>2
<1>15. CASE UNCHANGED vars
  BY <1>15 DEF vars
<1> QED
  BY <1>1, <1>2, <1>3, <1>4, <1>6, <1>7, <1>8, <1>9, <1>10, <1>11, <1>12, <1>13,
     <1>14, <1>15
  DEF Next, MainStep, Message

(* A shown window has the size that OnWindowSizeChanged was last called    *)
(* with, unless it is being dragged or was restored in another one.        *)
THEOREM SizeIsKnown == Spec => []SizeKnown
<1>1. Init => WindowTypes /\ Told /\ Sized
  BY WindowInit, SizedInit DEF Told
<1>2. Sized => SizeKnown
  BY DEF Sized
<1> QED
  BY <1>1, <1>2, TypesStep, ToldStep, SizedStep, PTL DEF Spec

-----------------------------------------------------------------------------
(* The loop is left only by the branch that unregisters the class, once    *)
(* the window, which only exists while the loop runs, has been destroyed.  *)
Leaving ==
    /\ window.state = "none" => pc \in {"initialize", "clear", "done"}
    /\ window.state # "none" => pc # "initialize"
    /\ pc \in {"release", "clear", "done"} /\ window.state # "none" =>
          window.state = "destroyed" /\ ~classRegistered /\ ~m_hWnd

LEMMA LeavingStep == WindowTypes /\ Leaving /\ [Next]_vars => Leaving'
<1> SUFFICES ASSUME WindowTypes, Leaving, [Next]_vars PROVE Leaving'
  OBVIOUS
<1> USE DEF WindowTypes, WindowStates, IsWindow, Leaving, statics, process, history
<1>1. CASE Initialize
  <2>1. window'.state = "normal" /\ pc' = "process"
    BY <1>1 DEF Initialize
  <2> QED BY <2>1
<1>2. CASE InitializeFails
  BY <1>2 DEF InitializeFails
<1>3. ASSUME pc = "process", pc' = "process", window'.state # "none" PROVE Leaving'
  BY <1>3
<1>4. CASE Message \/ TakeQuit
  <2>1. CASE Paint \/ Close \/ Minimize
    BY <1>3, <2>1 DEF Paint, Close, Minimize, Posted, Sent, InMessages
  <2>2. ASSUME NEW size \in Sizes, Restore(size) \/ Resize(size) PROVE Leaving'
    BY <1>3, <2>2 DEF Restore, Resize, SizeAs, Sent, InMessages
  <2>3. CASE EnterSizeMove \/ ExitSizeMove
    BY <1>3, <2>3 DEF EnterSizeMove, ExitSizeMove, StopsDragging, Posted, Sent, InMessages
  <2>4. CASE QuerySuspend \/ ResumeSuspend \/ SuspendRefused
    BY <1>3, <2>4 DEF QuerySuspend, ResumeSuspend, SuspendRefused, SystemStays, Sent, InMessages
  <2>5. CASE TakeQuit
    <3>1. pc = "process" /\ pc' = "process" /\ window'.state = window.state
      BY <2>5 DEF TakeQuit
    <3> QED BY <1>3, <3>1
  <2> QED BY <1>4, <2>1, <2>2, <2>3, <2>4, <2>5 DEF Message
<1>5. CASE GoOn \/ WindowGone
  <2>1. window.state # "none" /\ window' = window /\ pc = "process"
    BY <1>5 DEF GoOn, WindowGone, ReturnsTo
  <2> QED BY <1>5, <2>1 DEF GoOn, WindowGone, ReturnsTo
<1>6. CASE Tick \/ Clear
  BY <1>6 DEF Tick, Clear, Goes
<1>7. CASE Release
  BY <1>7 DEF Release, Goes
<1>8. CASE UNCHANGED vars
  BY <1>8 DEF vars
<1> QED
  BY <1>1, <1>2, <1>4, <1>5, <1>6, <1>7, <1>8 DEF Next, MainStep

(* The program never ends, nor begins to clear up, with its window still   *)
(* there or with the class registered of a window it had, whatever moved   *)
(* the messages and WM_QUIT in and out of the queue: the safety behind     *)
(* EndsAfterDestruction.                                                   *)
THEOREM NothingLeftBehind ==
    Spec => [](pc \in {"clear", "done"} /\ window.state # "none" =>
                 window.state = "destroyed" /\ ~classRegistered /\ ~m_hWnd)
<1> DEFINE Left == pc \in {"clear", "done"} /\ window.state # "none" =>
                     window.state = "destroyed" /\ ~classRegistered /\ ~m_hWnd
<1>1. Init => WindowTypes /\ Leaving
  BY WindowInit DEF Init, Leaving
<1>2. Leaving => Left
  BY DEF Leaving
<1>3. Spec => []Left
  BY <1>1, <1>2, TypesStep, LeavingStep, PTL DEF Spec
<1> QED BY <1>3
=============================================================================
