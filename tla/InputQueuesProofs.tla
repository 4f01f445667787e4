------------------------- MODULE InputQueuesProofs --------------------------
(***************************************************************************)
(* Proofs that the input state is wrong only about changes the window was  *)
(* not told of, and that the events tell it, for any keys, buttons, and    *)
(* lengths of the buffers.                                                 *)
(***************************************************************************)
EXTENDS InputQueues, SequenceTheorems, TLAPS

(* Keys and buttons are told apart, and known where they were not missed.  *)
Known ==
    /\ m_KeyStates \subseteq Keys
    /\ buttonsDown \subseteq Buttons
    /\ WrongOnlyIfMissed

LEMMA KnownInit == Init => Known
BY DEF Init, Known, WrongOnlyIfMissed

LEMMA KnownStep == Known /\ [Next]_vars => Known'
<1> SUFFICES ASSUME Known, [Next]_vars PROVE Known'
  OBVIOUS
<1> USE InputAssumption DEF Known, WrongOnlyIfMissed, keyboard, mouse, user, repeats
<1>1. ASSUME NEW k \in Keys, PressKey(k) PROVE Known'
  <2>1. CASE KeyReaches(k)
    BY <1>1, <2>1 DEF PressKey, Holds, Reaches, Keydown, OnKeyPressed
  <2>2. CASE ~KeyReaches(k)
    BY <1>1, <2>2 DEF PressKey, Holds, Misses
  <2> QED BY <2>1, <2>2
<1>2. ASSUME NEW k \in Keys, RepeatKey(k) PROVE Known'
  BY <1>2 DEF RepeatKey, Reaches, Keydown, OnKeyPressed
<1>3. ASSUME NEW k \in Keys, ReleaseKey(k) PROVE Known'
  <2>1. CASE KeyReaches(k)
    BY <1>3, <2>1 DEF ReleaseKey, LetsGo, Reaches, OnKeyReleased
  <2>2. CASE ~KeyReaches(k)
    BY <1>3, <2>2 DEF ReleaseKey, LetsGo, Misses
  <2> QED BY <2>1, <2>2
<1>4. ASSUME NEW k \in Keys, TypeChar(k) PROVE Known'
  BY <1>4 DEF TypeChar, Char, OnChar
<1>5. ASSUME NEW b \in Buttons, PressButton(b) PROVE Known'
  <2>1. CASE mouseHere /\ focus
    BY <1>5, <2>1 DEF PressButton, Holds, Reaches, OnPressed
  <2>2. CASE ~(mouseHere /\ focus)
    BY <1>5, <2>2 DEF PressButton, Holds, Misses
  <2> QED BY <2>1, <2>2
<1>6. ASSUME NEW b \in Buttons, ReleaseButton(b) PROVE Known'
  <2>1. CASE mouseHere
    BY <1>6, <2>1 DEF ReleaseButton, LetsGo, Reaches, OnReleased
  <2>2. CASE ~mouseHere
    BY <1>6, <2>2 DEF ReleaseButton, LetsGo, Misses
  <2> QED BY <2>1, <2>2
<1>7. ASSUME NEW type \in Moves, MoveMouse(type) PROVE Known'
  BY <1>7 DEF MoveMouse, OnMove
<1>8. CASE UserChanges \/ TimePasses \/ SetAutoRepeat
  BY <1>8 DEF UserChanges, TimePasses, SetAutoRepeat
<1>9. CASE ReadKey \/ ReadChar \/ ReadEvent
  BY <1>9 DEF ReadKey, ReadChar, ReadEvent
<1>10. CASE ClearMouse
  BY <1>10 DEF ClearMouse
<1>11. CASE UNCHANGED vars
  BY <1>11 DEF vars
<1> QED
  BY <1>1, <1>2, <1>3, <1>4, <1>5, <1>6, <1>7, <1>8, <1>9, <1>10, <1>11 DEF Next

(* In every reachable state IsKeyPressed and IsLeftDown report what the    *)
(* user holds, but for the keys and buttons whose last change did not      *)
(* reach WindowProc.                                                       *)
THEOREM InputKnown == Spec => []WrongOnlyIfMissed
<1>1. Known => WrongOnlyIfMissed
  BY DEF Known
<1> QED
  BY <1>1, KnownInit, KnownStep, PTL DEF Spec

-----------------------------------------------------------------------------
(* The events. *)

Clicks(what) == [type : {"Press", "Release"}, what : what]
MouseEvents == Clicks(Buttons) \cup [type : Moves]

KeysTold ==
    /\ m_KeyBuffer \in Seq(Clicks(Keys))
    /\ \A k \in Keys : k \in m_KeyStates <=> DownAfter(k, seen, m_KeyBuffer)

ButtonsTold ==
    /\ m_EventBuffer \in Seq(MouseEvents)
    /\ \A b \in Buttons : b \in buttonsDown <=> DownAfter(b, seen, m_EventBuffer)

Told == KeysTold /\ ButtonsTold

(* An event that is appended tells what it says of one thing, and nothing  *)
(* of another.                                                             *)
LEMMA Appended ==
    ASSUME NEW E, NEW buffer \in Seq(E), NEW e \in E, NEW x, NEW s
    PROVE  DownAfter(x, s, Append(buffer, e))
             <=> \/ e = Event("Press", x)
                 \/ e # Event("Release", x) /\ DownAfter(x, s, buffer)
<1> DEFINE longer == Append(buffer, e)
           n == Len(buffer)
<1>1. /\ n \in Nat /\ DOMAIN buffer = 1 .. n /\ DOMAIN longer = 1 .. n + 1
      /\ longer[n + 1] = e /\ \A i \in 1 .. n : longer[i] = buffer[i]
  BY AppendProperties, LenProperties
<1> HIDE DEF longer, n
<1>2. Event("Press", x) # Event("Release", x)
  BY DEF Event
<1>3. CASE e = Event("Press", x)
  <2>1. n + 1 \in DOMAIN longer /\ \A j \in DOMAIN longer : ~(j > n + 1)
    BY <1>1
  <2>2. DownAfter(x, s, longer)
    BY <1>1, <1>3, <2>1 DEF DownAfter
  <2> QED BY <1>3, <2>2 DEF longer
<1>4. CASE e = Event("Release", x)
  <2>1. n + 1 \in DOMAIN longer /\ longer[n + 1] = Event("Release", x)
    BY <1>1, <1>4
  <2>2. ASSUME NEW i \in DOMAIN longer, longer[i] = Event("Press", x)
        PROVE  i < n + 1
    BY <1>1, <1>2, <2>1, <2>2
  <2>3. ~DownAfter(x, s, longer)
    BY <1>1, <2>1, <2>2 DEF DownAfter
  <2> QED BY <1>2, <1>4, <2>3 DEF longer
<1>5. CASE e # Event("Press", x) /\ e # Event("Release", x)
  <2>1. \A k \in DOMAIN longer :
           longer[k] \in {Event("Press", x), Event("Release", x)} => k \in DOMAIN buffer
    BY <1>1, <1>5
  <2>2. \A k \in DOMAIN buffer : k \in DOMAIN longer /\ longer[k] = buffer[k]
    BY <1>1
  <2>3. DownAfter(x, s, longer) <=> DownAfter(x, s, buffer)
    BY <2>1, <2>2 DEF DownAfter
  <2> QED BY <1>5, <2>3 DEF longer
<1> QED BY <1>3, <1>4, <1>5

(* Reading the oldest event moves what it tells into what was seen.        *)
LEMMA ReadOne ==
    ASSUME NEW E, NEW buffer \in Seq(E), buffer # << >>, NEW x, NEW s, NEW t,
           x \in t <=> \/ Head(buffer) = Event("Press", x)
                       \/ Head(buffer) # Event("Release", x) /\ x \in s
    PROVE  DownAfter(x, s, buffer) <=> DownAfter(x, t, Tail(buffer))
<1> DEFINE rest == Tail(buffer)
           n == Len(buffer)
<1>1. /\ n \in Nat \ {0} /\ DOMAIN buffer = 1 .. n /\ DOMAIN rest = 1 .. n - 1
      /\ Head(buffer) = buffer[1]
      /\ \A i \in 1 .. n - 1 : rest[i] = buffer[i + 1]
  BY HeadTailProperties, LenProperties, EmptySeq
<1> HIDE DEF rest, n
<1>2. Event("Press", x) # Event("Release", x)
  BY DEF Event
<1>3. ASSUME NEW j \in DOMAIN buffer PROVE j = 1 \/ (j - 1 \in DOMAIN rest /\ rest[j - 1] = buffer[j])
  BY <1>1
<1>4. ASSUME NEW j \in DOMAIN rest PROVE j + 1 \in DOMAIN buffer /\ buffer[j + 1] = rest[j]
  BY <1>1
<1>5. ASSUME DownAfter(x, s, buffer) PROVE DownAfter(x, t, rest)
  <2>1. CASE \E i \in DOMAIN buffer :
               /\ buffer[i] = Event("Press", x)
               /\ \A j \in DOMAIN buffer : j > i => buffer[j] # Event("Release", x)
    <3>1. PICK i \in DOMAIN buffer :
               /\ buffer[i] = Event("Press", x)
               /\ \A j \in DOMAIN buffer : j > i => buffer[j] # Event("Release", x)
      BY <2>1
    <3>2. CASE i = 1
      <4>1. x \in t
        BY <1>1, <3>1, <3>2
      <4>2. \A j \in DOMAIN rest : rest[j] # Event("Release", x)
        BY <1>1, <1>4, <3>1, <3>2
      <4> QED BY <4>1, <4>2 DEF DownAfter
    <3>3. CASE i # 1
      <4>1. i - 1 \in DOMAIN rest /\ rest[i - 1] = Event("Press", x)
        BY <1>3, <3>1, <3>3
      <4>2. \A j \in DOMAIN rest : j > i - 1 => rest[j] # Event("Release", x)
        BY <1>1, <1>4, <3>1
      <4> QED BY <4>1, <4>2 DEF DownAfter
    <3> QED BY <3>2, <3>3
  <2>2. CASE x \in s /\ \A j \in DOMAIN buffer : buffer[j] # Event("Release", x)
    <3>1. x \in t
      BY <1>1, <2>2
    <3>2. \A j \in DOMAIN rest : rest[j] # Event("Release", x)
      BY <1>4, <2>2
    <3> QED BY <3>1, <3>2 DEF DownAfter
  <2> QED BY <1>5, <2>1, <2>2 DEF DownAfter
<1>6. ASSUME DownAfter(x, t, rest) PROVE DownAfter(x, s, buffer)
  <2>1. CASE \E i \in DOMAIN rest :
               /\ rest[i] = Event("Press", x)
               /\ \A j \in DOMAIN rest : j > i => rest[j] # Event("Release", x)
    <3>1. PICK i \in DOMAIN rest :
               /\ rest[i] = Event("Press", x)
               /\ \A j \in DOMAIN rest : j > i => rest[j] # Event("Release", x)
      BY <2>1
    <3>2. i + 1 \in DOMAIN buffer /\ buffer[i + 1] = Event("Press", x)
      BY <1>4, <3>1
    <3>3. ASSUME NEW j \in DOMAIN buffer, j > i + 1 PROVE buffer[j] # Event("Release", x)
      <4>1. j - 1 \in DOMAIN rest /\ rest[j - 1] = buffer[j] /\ j - 1 > i
        BY <1>1, <1>3, <3>3
      <4> QED BY <3>1, <4>1
    <3> QED BY <3>2, <3>3 DEF DownAfter
  <2>2. CASE x \in t /\ \A j \in DOMAIN rest : rest[j] # Event("Release", x)
    <3>1. \A j \in DOMAIN buffer : j > 1 => buffer[j] # Event("Release", x)
      BY <1>1, <1>3, <2>2
    <3>2. CASE buffer[1] = Event("Press", x)
      BY <1>1, <3>1, <3>2 DEF DownAfter
    <3>3. CASE buffer[1] # Event("Press", x)
      <4>1. x \in s /\ buffer[1] # Event("Release", x)
        BY <1>1, <2>2, <3>3
      <4>2. \A j \in DOMAIN buffer : buffer[j] # Event("Release", x)
        BY <1>1, <3>1, <4>1
      <4> QED BY <4>1, <4>2 DEF DownAfter
    <3> QED BY <3>2, <3>3
  <2> QED BY <1>6, <2>1, <2>2 DEF DownAfter
<1> QED BY <1>5, <1>6 DEF rest

LEMMA SameSeen ==
    ASSUME NEW x, NEW buffer, x \in seen' <=> x \in seen
    PROVE  DownAfter(x, seen', buffer) <=> DownAfter(x, seen, buffer)
BY DEF DownAfter

(* What WindowProc makes of a keyboard message. *)
LEMMA KeyboardTells ==
    ASSUME KeysTold, seen' = seen, NEW k \in Keys,
           OnKeyPressed(k) \/ OnKeyReleased(k) \/ OnChar(k) \/ UNCHANGED keyboard
    PROVE  KeysTold'
<1>1. CASE OnKeyPressed(k)
  <2>1. Event("Press", k) \in Clicks(Keys)
    BY DEF Event, Clicks
  <2>2. m_KeyBuffer' = Append(m_KeyBuffer, Event("Press", k)) /\ m_KeyStates' = m_KeyStates \cup {k}
    BY <1>1 DEF OnKeyPressed, Event
  <2>3. ASSUME NEW j \in Keys PROVE j \in m_KeyStates' <=> DownAfter(j, seen', m_KeyBuffer')
    <3>1. /\ Event("Press", k) = Event("Press", j) <=> j = k
          /\ Event("Press", k) # Event("Release", j)
      BY DEF Event
    <3> QED BY <2>1, <2>2, <3>1, Appended DEF KeysTold
  <2> QED BY <2>1, <2>2, <2>3, AppendProperties DEF KeysTold
<1>2. CASE OnKeyReleased(k)
  <2>1. Event("Release", k) \in Clicks(Keys)
    BY DEF Event, Clicks
  <2>2. m_KeyBuffer' = Append(m_KeyBuffer, Event("Release", k)) /\ m_KeyStates' = m_KeyStates \ {k}
    BY <1>2 DEF OnKeyReleased, Event
  <2>3. ASSUME NEW j \in Keys PROVE j \in m_KeyStates' <=> DownAfter(j, seen', m_KeyBuffer')
    <3>1. /\ Event("Release", k) = Event("Release", j) <=> j = k
          /\ Event("Release", k) # Event("Press", j)
      BY DEF Event
    <3> QED BY <2>1, <2>2, <3>1, Appended DEF KeysTold
  <2> QED BY <2>1, <2>2, <2>3, AppendProperties DEF KeysTold
<1>3. CASE OnChar(k) \/ UNCHANGED keyboard
  BY <1>3 DEF OnChar, keyboard, KeysTold
<1> QED BY <1>1, <1>2, <1>3

(* The same of a mouse message. *)
LEMMA MouseTells ==
    ASSUME ButtonsTold, seen' = seen,
           \/ \E b \in Buttons : OnPressed(b) \/ OnReleased(b)
           \/ \E type \in Moves : OnMove(type)
           \/ UNCHANGED <<buttonsDown, m_EventBuffer>>
    PROVE  ButtonsTold'
<1>1. ASSUME NEW b \in Buttons, OnPressed(b) PROVE ButtonsTold'
  <2>1. Event("Press", b) \in MouseEvents
    BY DEF Event, Clicks, MouseEvents
  <2>2. m_EventBuffer' = Append(m_EventBuffer, Event("Press", b)) /\ buttonsDown' = buttonsDown \cup {b}
    BY <1>1 DEF OnPressed, Event
  <2>3. ASSUME NEW j \in Buttons PROVE j \in buttonsDown' <=> DownAfter(j, seen', m_EventBuffer')
    <3>1. /\ Event("Press", b) = Event("Press", j) <=> j = b
          /\ Event("Press", b) # Event("Release", j)
      BY DEF Event
    <3> QED BY <2>1, <2>2, <3>1, Appended DEF ButtonsTold
  <2> QED BY <2>1, <2>2, <2>3, AppendProperties DEF ButtonsTold
<1>2. ASSUME NEW b \in Buttons, OnReleased(b) PROVE ButtonsTold'
  <2>1. Event("Release", b) \in MouseEvents
    BY DEF Event, Clicks, MouseEvents
  <2>2. m_EventBuffer' = Append(m_EventBuffer, Event("Release", b)) /\ buttonsDown' = buttonsDown \ {b}
    BY <1>2 DEF OnReleased, Event
  <2>3. ASSUME NEW j \in Buttons PROVE j \in buttonsDown' <=> DownAfter(j, seen', m_EventBuffer')
    <3>1. /\ Event("Release", b) = Event("Release", j) <=> j = b
          /\ Event("Release", b) # Event("Press", j)
      BY DEF Event
    <3> QED BY <2>1, <2>2, <3>1, Appended DEF ButtonsTold
  <2> QED BY <2>1, <2>2, <2>3, AppendProperties DEF ButtonsTold
<1>3. ASSUME NEW type \in Moves, OnMove(type) PROVE ButtonsTold'
  <2> DEFINE e == [type |-> type]
  <2>1. e \in MouseEvents
    BY DEF MouseEvents
  <2>2. m_EventBuffer' = Append(m_EventBuffer, e) /\ buttonsDown' = buttonsDown
    BY <1>3 DEF OnMove
  <2>3. \A j \in Buttons : e # Event("Press", j) /\ e # Event("Release", j)
    <3>1. \A j : e.type # Event("Press", j).type /\ e.type # Event("Release", j).type
      BY DEF Event, Moves
    <3> QED BY <3>1
  <2> HIDE DEF e
  <2>4. ASSUME NEW j \in Buttons PROVE j \in buttonsDown' <=> DownAfter(j, seen', m_EventBuffer')
    BY <2>1, <2>2, <2>3, Appended DEF ButtonsTold
  <2> QED BY <2>1, <2>2, <2>4, AppendProperties DEF ButtonsTold
<1>4. CASE UNCHANGED <<buttonsDown, m_EventBuffer>>
  BY <1>4 DEF ButtonsTold
<1> QED BY <1>1, <1>2, <1>3, <1>4

(* What a reader makes of an event. *)
LEMMA AfterReading ==
    ASSUME NEW What, NEW e \in Clicks(What) \cup [type : Moves], NEW x, NEW s
    PROVE  /\ x \in After(s, e) <=> \/ e = Event("Press", x)
                                    \/ e # Event("Release", x) /\ x \in s
           /\ x \notin What => (x \in After(s, e) <=> x \in s)
<1>1. CASE e \in Clicks(What) /\ e.type = "Press"
  <2>1. e = Event("Press", e.what) /\ e.what \in What /\ After(s, e) = s \cup {e.what}
    BY <1>1 DEF Clicks, Event, After
  <2>2. /\ e = Event("Press", x) <=> x = e.what
        /\ e # Event("Release", x)
    BY <2>1 DEF Event
  <2> QED BY <2>1, <2>2
<1>2. CASE e \in Clicks(What) /\ e.type = "Release"
  <2>1. e = Event("Release", e.what) /\ e.what \in What /\ After(s, e) = s \ {e.what}
    BY <1>2 DEF Clicks, Event, After
  <2>2. /\ e = Event("Release", x) <=> x = e.what
        /\ e # Event("Press", x)
    BY <2>1 DEF Event
  <2> QED BY <2>1, <2>2
<1>3. CASE e \in [type : Moves]
  <2>1. e.type \in Moves /\ e.type \notin {"Press", "Release"}
    BY <1>3 DEF Moves
  <2>2. After(s, e) = s
    BY <2>1 DEF After
  <2>3. Event("Press", x).type = "Press" /\ Event("Release", x).type = "Release"
    BY DEF Event
  <2> QED BY <2>1, <2>2, <2>3
<1> QED BY <1>1, <1>2, <1>3 DEF Clicks

LEMMA ReadKeyTells == ASSUME Told, ReadKey PROVE Told'
<1> DEFINE e == Head(m_KeyBuffer)
<1>1. /\ m_KeyBuffer \in Seq(Clicks(Keys)) /\ m_KeyBuffer # << >>
      /\ e \in Clicks(Keys) /\ m_KeyBuffer' = Tail(m_KeyBuffer)
      /\ m_KeyBuffer' \in Seq(Clicks(Keys))
      /\ seen' = After(seen, e)
      /\ UNCHANGED <<m_KeyStates, buttonsDown, m_EventBuffer>>
  BY HeadTailProperties, EmptySeq DEF Told, KeysTold, ReadKey, mouse
<1>2. ASSUME NEW k \in Keys PROVE k \in m_KeyStates' <=> DownAfter(k, seen', m_KeyBuffer')
  <2>1. k \in seen' <=> \/ e = Event("Press", k)
                        \/ e # Event("Release", k) /\ k \in seen
    BY <1>1, AfterReading
  <2>2. DownAfter(k, seen, m_KeyBuffer) <=> DownAfter(k, seen', m_KeyBuffer')
    BY <1>1, <2>1, ReadOne
  <2> QED BY <1>1, <2>2 DEF Told, KeysTold
<1>3. ASSUME NEW b \in Buttons PROVE b \in buttonsDown' <=> DownAfter(b, seen', m_EventBuffer')
  <2>1. b \notin Keys
    BY InputAssumption
  <2>2. b \in seen' <=> b \in seen
    BY <1>1, <2>1, AfterReading
  <2> QED BY <1>1, <2>2, SameSeen DEF Told, ButtonsTold
<1> QED BY <1>1, <1>2, <1>3 DEF Told, KeysTold, ButtonsTold

LEMMA ReadEventTells == ASSUME Told, ReadEvent PROVE Told'
<1> DEFINE e == Head(m_EventBuffer)
<1>1. /\ m_EventBuffer \in Seq(MouseEvents) /\ m_EventBuffer # << >>
      /\ e \in MouseEvents /\ m_EventBuffer' = Tail(m_EventBuffer)
      /\ m_EventBuffer' \in Seq(MouseEvents)
      /\ seen' = After(seen, e)
      /\ UNCHANGED <<m_KeyStates, m_KeyBuffer, buttonsDown>>
  BY HeadTailProperties, EmptySeq DEF Told, ButtonsTold, ReadEvent, keyboard
<1>2. ASSUME NEW b \in Buttons PROVE b \in buttonsDown' <=> DownAfter(b, seen', m_EventBuffer')
  <2>1. b \in seen' <=> \/ e = Event("Press", b)
                        \/ e # Event("Release", b) /\ b \in seen
    BY <1>1, AfterReading DEF MouseEvents
  <2>2. DownAfter(b, seen, m_EventBuffer) <=> DownAfter(b, seen', m_EventBuffer')
    BY <1>1, <2>1, ReadOne
  <2> QED BY <1>1, <2>2 DEF Told, ButtonsTold
<1>3. ASSUME NEW k \in Keys PROVE k \in m_KeyStates' <=> DownAfter(k, seen', m_KeyBuffer')
  <2>1. k \notin Buttons
    BY InputAssumption
  <2>2. k \in seen' <=> k \in seen
    BY <1>1, <2>1, AfterReading DEF MouseEvents
  <2> QED BY <1>1, <2>2, SameSeen DEF Told, KeysTold
<1> QED BY <1>1, <1>2, <1>3 DEF Told, KeysTold, ButtonsTold

LEMMA ClearMouseTells == ASSUME Told, ClearMouse PROVE Told'
<1>1. /\ m_EventBuffer' = << >> /\ buttonsDown' = {} /\ seen' = seen \ Buttons
      /\ UNCHANGED <<m_KeyStates, m_KeyBuffer>>
  BY DEF ClearMouse, keyboard
<1>2. \A b \in Buttons : ~DownAfter(b, seen', m_EventBuffer')
  BY <1>1, EmptySeq DEF DownAfter
<1>3. ASSUME NEW k \in Keys PROVE k \in m_KeyStates' <=> DownAfter(k, seen', m_KeyBuffer')
  <2>1. k \in seen' <=> k \in seen
    BY <1>1, InputAssumption
  <2> QED BY <1>1, <2>1, SameSeen DEF Told, KeysTold
<1>4. m_EventBuffer' \in Seq(MouseEvents)
  BY <1>1, EmptySeq
<1> QED BY <1>1, <1>2, <1>3, <1>4 DEF Told, KeysTold, ButtonsTold

LEMMA ToldStep == Told /\ [Next]_vars => Told'
<1> SUFFICES ASSUME Told, [Next]_vars PROVE Told'
  OBVIOUS
<1> USE DEF keyboard, mouse, user, repeats
<1>1. KeysTold /\ ButtonsTold
  BY DEF Told
<1>2. ASSUME NEW k \in Keys, PressKey(k) \/ RepeatKey(k) \/ ReleaseKey(k) \/ TypeChar(k)
      PROVE  Told'
  <2>1. /\ seen' = seen /\ UNCHANGED <<buttonsDown, m_EventBuffer>>
        /\ OnKeyPressed(k) \/ OnKeyReleased(k) \/ OnChar(k) \/ UNCHANGED keyboard
    BY <1>2 DEF PressKey, RepeatKey, ReleaseKey, TypeChar, Keydown, Char, Misses
  <2> QED BY <1>1, <2>1, KeyboardTells, MouseTells DEF Told
<1>3. ASSUME NEW b \in Buttons, PressButton(b) \/ ReleaseButton(b) PROVE Told'
  <2>1. /\ seen' = seen /\ UNCHANGED <<m_KeyStates, m_KeyBuffer>>
        /\ OnPressed(b) \/ OnReleased(b) \/ UNCHANGED <<buttonsDown, m_EventBuffer>>
    BY <1>3 DEF PressButton, ReleaseButton, Misses
  <2>2. KeysTold'
    BY <1>1, <2>1 DEF KeysTold
  <2> QED BY <1>1, <2>1, <2>2, MouseTells DEF Told
<1>4. ASSUME NEW type \in Moves, MoveMouse(type) PROVE Told'
  <2>1. seen' = seen /\ UNCHANGED <<m_KeyStates, m_KeyBuffer>> /\ OnMove(type)
    BY <1>4 DEF MoveMouse
  <2>2. KeysTold'
    BY <1>1, <2>1 DEF KeysTold
  <2> QED BY <1>1, <2>1, <2>2, MouseTells DEF Told
<1>5. CASE ReadChar \/ UserChanges \/ TimePasses \/ SetAutoRepeat \/ UNCHANGED vars
  <2>1. UNCHANGED <<seen, m_KeyStates, m_KeyBuffer, buttonsDown, m_EventBuffer>>
    BY <1>5 DEF ReadChar, UserChanges, TimePasses, SetAutoRepeat, vars
  <2> QED BY <1>1, <2>1 DEF Told, KeysTold, ButtonsTold
<1> QED
  BY <1>2, <1>3, <1>4, <1>5, ReadKeyTells, ReadEventTells, ClearMouseTells DEF Next

LEMMA ToldInit == Init => Told
<1> SUFFICES ASSUME Init PROVE Told
  OBVIOUS
<1>1. /\ m_KeyBuffer = << >> /\ m_EventBuffer = << >> /\ seen = {}
      /\ m_KeyStates = {} /\ buttonsDown = {}
  BY DEF Init
<1>2. \A x : ~DownAfter(x, {}, << >>)
  BY EmptySeq DEF DownAfter
<1> QED BY <1>1, <1>2, EmptySeq DEF Told, KeysTold, ButtonsTold

(* In every reachable state a game that reads the waiting events arrives   *)
(* at the state IsKeyPressed and IsLeftDown report: no event is missing,   *)
(* added or out of order, with auto-repeat on or off, across Clear, and    *)
(* however many events wait.                                               *)
THEOREM EventsTell == Spec => []EventsTellTheState
<1>1. Told => EventsTellTheState
  BY DEF Told, KeysTold, ButtonsTold, EventsTellTheState
<1> QED
  BY <1>1, ToldInit, ToldStep, PTL DEF Spec
=============================================================================
