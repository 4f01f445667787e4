---------------------------- MODULE InputQueues -----------------------------
(***************************************************************************)
(* Client/Input: KeyboardQueue and MouseQueue, fed by the input messages   *)
(* of Container::WindowProc and read by the game, all on the main thread.  *)
(*                                                                         *)
(* A message is one step: what the user did, and what WindowProc and the   *)
(* queues do about it.  A key reaches the window while it has the focus    *)
(* and Alt is up.  With Alt down the messages are WM_SYSKEYDOWN and        *)
(* WM_SYSKEYUP, which WindowProc does not handle, as those of F10 are      *)
(* without Alt.  A button reaches the window while it gets the mouse       *)
(* (WindowProc does not capture it).  Positions are data and left out.     *)
(* Time is the age of the last press, counted up to the threshold of a     *)
(* double click.                                                           *)
(***************************************************************************)
EXTENDS Naturals, Sequences, SequencesExt

CONSTANTS
    Keys,
    SystemKeys,     \* F10
    Buttons,        \* left, right, middle, X1, X2
    Threshold,      \* m_DoubleClickThreshold
    MaxBuffer       \* bound: events waiting to be read, in all three buffers

ASSUME InputAssumption == Keys \cap Buttons = {} /\ SystemKeys \subseteq Keys
                           /\ Threshold \in Nat \ {0}

VARIABLES
    m_KeyStates,    \* keys that are down
    m_KeyBuffer, m_CharBuffer,
    m_AutoRepeatKeys, m_AutoRepeatChars,
    buttonsDown,    \* m_LeftIsDown, m_RightIsDown, ...
    m_EventBuffer,  \* of the mouse
    click,          \* [button, age, double, which]: m_LastClickButton,
                    \* now - m_LastClickTime, m_IsDoubleClick, m_etDoubleClick
    held,           \* the user's side: keys and buttons really held
    focus,
    alt,            \* Alt is down, or (by Alt or F10) the system menu open
    mouseHere,
    missed,         \* history: keys and buttons whose last change did not
                    \* reach the window
    seen            \* history: what a reader of the events takes to be down

keyboard == <<m_KeyStates, m_KeyBuffer, m_CharBuffer>>
repeats == <<m_AutoRepeatKeys, m_AutoRepeatChars>>
mouse == <<buttonsDown, m_EventBuffer, click>>
user == <<held, focus, alt, mouseHere>>
vars == <<keyboard, repeats, mouse, user, missed, seen>>

Moves == {"Move", "RawMove", "WheelUp", "WheelDown"}
NoButton == "Invalid"

Pending == Len(m_KeyBuffer) + Len(m_CharBuffer) + Len(m_EventBuffer)
Room == Pending < MaxBuffer

Init ==
    /\ m_KeyStates = {} /\ m_KeyBuffer = << >> /\ m_CharBuffer = << >>
    /\ m_AutoRepeatKeys = FALSE /\ m_AutoRepeatChars = FALSE
    /\ buttonsDown = {} /\ m_EventBuffer = << >>
    /\ click = [button |-> NoButton, age |-> Threshold, double |-> FALSE, which |-> NoButton]
    /\ held = {} /\ focus = TRUE /\ alt = FALSE /\ mouseHere = FALSE
    /\ missed = {} /\ seen = {}

-----------------------------------------------------------------------------
(* KeyboardQueue.                                                          *)
OnKeyPressed(k) ==
    /\ m_KeyStates' = m_KeyStates \cup {k}
    /\ m_KeyBuffer' = Append(m_KeyBuffer, [type |-> "Press", what |-> k])
    /\ UNCHANGED m_CharBuffer

OnKeyReleased(k) ==
    /\ m_KeyStates' = m_KeyStates \ {k}
    /\ m_KeyBuffer' = Append(m_KeyBuffer, [type |-> "Release", what |-> k])
    /\ UNCHANGED m_CharBuffer

OnChar(k) ==
    /\ m_CharBuffer' = Append(m_CharBuffer, k)
    /\ UNCHANGED <<m_KeyStates, m_KeyBuffer>>

(* Fault: the flag of the characters decides. *)
KeydownByCharFlag(k, wasPressed) ==
    IF m_AutoRepeatChars \/ ~wasPressed THEN OnKeyPressed(k) ELSE UNCHANGED keyboard

(* WM_KEYDOWN and WM_CHAR: bit 30 of lParam, the key was down before.      *)
Keydown(k, wasPressed) ==
    IF m_AutoRepeatKeys \/ ~wasPressed THEN OnKeyPressed(k) ELSE UNCHANGED keyboard

Char(k, wasPressed) ==
    IF m_AutoRepeatChars \/ ~wasPressed THEN OnChar(k) ELSE UNCHANGED keyboard

-----------------------------------------------------------------------------
(* MouseQueue.                                                             *)
UpdateDoubleClick(b) ==
    LET double == click.button = b /\ click.age < Threshold
    IN  click' = [button |-> b, age |-> 0, double |-> double,
                  which |-> IF double THEN b ELSE click.which]

OnPressed(b) ==
    /\ buttonsDown' = buttonsDown \cup {b}
    /\ UpdateDoubleClick(b)
    /\ m_EventBuffer' = Append(m_EventBuffer, [type |-> "Press", what |-> b])

OnReleased(b) ==
    /\ buttonsDown' = buttonsDown \ {b}
    /\ m_EventBuffer' = Append(m_EventBuffer, [type |-> "Release", what |-> b])
    /\ UNCHANGED click

(* OnMouseMove, OnMouseMoveRaw, OnWheelUp, OnWheelDown.                    *)
OnMove(type) ==
    /\ m_EventBuffer' = Append(m_EventBuffer, [type |-> type])
    /\ UNCHANGED <<buttonsDown, click>>

-----------------------------------------------------------------------------
(* The user and WindowProc.  A change reaches the window, or is missed.    *)
KeyReaches(k) == focus /\ ~alt /\ k \notin SystemKeys

Reaches(x) == missed' = missed \ {x}
Misses(x) == missed' = missed \cup {x} /\ UNCHANGED <<keyboard, mouse>>

Holds(x) == x \notin held /\ held' = held \cup {x}
LetsGo(x) == x \in held /\ held' = held \ {x}

PressKey(k) ==
    /\ Room
    /\ Holds(k)
    /\ IF KeyReaches(k) THEN Keydown(k, FALSE) /\ Reaches(k) /\ UNCHANGED mouse ELSE Misses(k)
    /\ UNCHANGED <<repeats, focus, alt, mouseHere, seen>>

(* A held key repeats; a key the window has missed may become known.       *)
RepeatKey(k) ==
    /\ Room
    /\ k \in held /\ KeyReaches(k)
    /\ Keydown(k, TRUE)
    /\ IF m_AutoRepeatKeys THEN Reaches(k) ELSE UNCHANGED missed
    /\ UNCHANGED <<repeats, mouse, user, seen>>

ReleaseKey(k) ==
    /\ Room
    /\ LetsGo(k)
    /\ IF KeyReaches(k) THEN OnKeyReleased(k) /\ Reaches(k) /\ UNCHANGED mouse ELSE Misses(k)
    /\ UNCHANGED <<repeats, focus, alt, mouseHere, seen>>

(* The character TranslateMessage makes of a key.                          *)
TypeChar(k) ==
    /\ Room
    /\ KeyReaches(k)
    /\ \E wasPressed \in BOOLEAN : Char(k, wasPressed)
    /\ UNCHANGED <<repeats, mouse, user, missed, seen>>

(* The press that activates the window is eaten: WM_MOUSEACTIVATE.         *)
PressButton(b) ==
    /\ Room
    /\ Holds(b)
    /\ IF mouseHere /\ focus THEN OnPressed(b) /\ Reaches(b) /\ UNCHANGED keyboard ELSE Misses(b)
    /\ focus' = (focus \/ mouseHere)
    /\ UNCHANGED <<repeats, alt, mouseHere, seen>>

ReleaseButton(b) ==
    /\ Room
    /\ LetsGo(b)
    /\ IF mouseHere THEN OnReleased(b) /\ Reaches(b) /\ UNCHANGED keyboard ELSE Misses(b)
    /\ UNCHANGED <<repeats, focus, alt, mouseHere, seen>>

MoveMouse(type) ==
    /\ Room
    /\ IF type = "RawMove" THEN focus ELSE mouseHere
    /\ OnMove(type)
    /\ UNCHANGED <<keyboard, repeats, user, missed, seen>>

(* WM_ACTIVATEAPP, WM_SYSKEYDOWN and WM_SYSKEYUP of Alt itself or of what  *)
(* opens and closes the menu, the mouse entering or leaving: nothing is    *)
(* done about any of them.                                                 *)
UserChanges ==
    /\ \/ focus' = ~focus /\ UNCHANGED <<alt, mouseHere>>
       \/ alt' = ~alt /\ UNCHANGED <<focus, mouseHere>>
       \/ mouseHere' = ~mouseHere /\ UNCHANGED <<focus, alt>>
    /\ UNCHANGED <<keyboard, repeats, mouse, held, missed, seen>>

TimePasses ==
    /\ click.age < Threshold
    /\ click' = [click EXCEPT !.age = @ + 1]
    /\ UNCHANGED <<keyboard, repeats, buttonsDown, m_EventBuffer, user, missed, seen>>

-----------------------------------------------------------------------------
(* The game.                                                               *)
After(down, e) ==
    CASE e.type = "Press"   -> down \cup {e.what}
      [] e.type = "Release" -> down \ {e.what}
      [] OTHER              -> down

(* Fault: the newest event is read. *)
ReadKeyNewest ==
    /\ m_KeyBuffer # << >>
    /\ seen' = After(seen, Last(m_KeyBuffer))
    /\ m_KeyBuffer' = Front(m_KeyBuffer)
    /\ UNCHANGED <<m_KeyStates, m_CharBuffer, repeats, mouse, user, missed>>

ReadKey ==
    /\ m_KeyBuffer # << >>
    /\ seen' = After(seen, Head(m_KeyBuffer))
    /\ m_KeyBuffer' = Tail(m_KeyBuffer)
    /\ UNCHANGED <<m_KeyStates, m_CharBuffer, repeats, mouse, user, missed>>

ReadChar ==
    /\ m_CharBuffer # << >>
    /\ m_CharBuffer' = Tail(m_CharBuffer)
    /\ UNCHANGED <<m_KeyStates, m_KeyBuffer, repeats, mouse, user, missed, seen>>

ReadEvent ==
    /\ m_EventBuffer # << >>
    /\ seen' = After(seen, Head(m_EventBuffer))
    /\ m_EventBuffer' = Tail(m_EventBuffer)
    /\ UNCHANGED <<keyboard, repeats, buttonsDown, click, user, missed>>

(* MouseQueue::Clear: the game forgets the buttons, too.                   *)
ClearMouse ==
    /\ m_EventBuffer' = << >>
    /\ buttonsDown' = {}
    /\ click' = [click EXCEPT !.button = NoButton, !.double = FALSE, !.which = NoButton]
    /\ seen' = seen \ Buttons
    /\ missed' = missed \cup (held \cap Buttons)
    /\ UNCHANGED <<keyboard, repeats, user>>

(* EnableAutoRepeatKeys, DisableAutoRepeatChars, ...                       *)
SetAutoRepeat ==
    /\ m_AutoRepeatKeys' \in BOOLEAN /\ m_AutoRepeatChars' \in BOOLEAN
    /\ UNCHANGED <<keyboard, mouse, user, missed, seen>>

-----------------------------------------------------------------------------
Next ==
    \/ \E k \in Keys : PressKey(k) \/ RepeatKey(k) \/ ReleaseKey(k) \/ TypeChar(k)
    \/ \E b \in Buttons : PressButton(b) \/ ReleaseButton(b)
    \/ \E type \in Moves : MoveMouse(type)
    \/ UserChanges \/ TimePasses
    \/ ReadKey \/ ReadChar \/ ReadEvent \/ ClearMouse \/ SetAutoRepeat

Spec == Init /\ [][Next]_vars

-----------------------------------------------------------------------------
(* What a game that has seen s down takes x to be once it has read the     *)
(* events that wait: their last press or release of x tells, or, if there  *)
(* is none, s.                                                             *)
Event(type, x) == [type |-> type, what |-> x]
DownAfter(x, s, buffer) ==
    \/ \E i \in DOMAIN buffer :
          /\ buffer[i] = Event("Press", x)
          /\ \A j \in DOMAIN buffer : j > i => buffer[j] # Event("Release", x)
    \/ x \in s /\ \A j \in DOMAIN buffer : buffer[j] # Event("Release", x)

(* The events tell the whole story: a game that keeps its own record from  *)
(* the events it reads has, once it has read those that wait, the state    *)
(* IsKeyPressed and IsLeftDown report, with auto-repeat on or off.         *)
EventsTellTheState ==
    /\ \A k \in Keys : k \in m_KeyStates <=> DownAfter(k, seen, m_KeyBuffer)
    /\ \A b \in Buttons : b \in buttonsDown <=> DownAfter(b, seen, m_EventBuffer)

(* A key or button shown as down is held, and one that is held is shown,   *)
(* unless its last change did not reach the window: for a key, because     *)
(* the window had lost the focus, Alt was down or the key is F10, for a    *)
(* button because the mouse was elsewhere or the press activated the       *)
(* window.  The state then stays wrong (a key stays down, F10 never is)    *)
(* until the next change that is seen.                                     *)
WrongOnlyIfMissed ==
    \A x \in (Keys \cup Buttons) \ missed : (x \in m_KeyStates \cup buttonsDown) = (x \in held)
=============================================================================
