--------------------------- MODULE ClientSession ----------------------------
(***************************************************************************)
(* Core/Network/ClientSession.hpp: a connection the server has accepted.   *)
(* start() arms the first read; a well-formed packet becomes a GameEvent   *)
(* that holds the session.  Every pending operation holds the session too  *)
(* (self), and so does the game loop while it keeps the pointer of an      *)
(* event; a session nobody holds is destroyed.                             *)
(***************************************************************************)
EXTENDS PacketReader

VARIABLES
    events,     \* GameEvents in eventQueue_ that hold this session
    pushed,     \* history: opcodes of all events pushed
    holders     \* senders that hold a pointer to the session

sessionVars == <<events, pushed, holders>>

Referenced ==
    \/ reading # "none"
    \/ writes # << >>
    \/ pc[Io] # "idle"
    \/ events # << >>
    \/ holders # {}

SessionInit == events = << >> /\ pushed = << >> /\ holders = {}

-----------------------------------------------------------------------------
(* Fault: the test of line 119 is missing. *)
OnBodyUnchecked(k) ==
    /\ BodyHandled(k)
    /\ \E o \in Shown(k) \cup {"hard"} :
          events' = Append(events, o) /\ pushed' = Append(pushed, o)
    /\ reading' = "header"
    /\ UNCHANGED <<vars, holders>>

(* readBody's handler: an event with the opcode the body shows, and none   *)
(* for a malformed hard packet.                                            *)
OnBody(k) ==
    /\ BodyHandled(k)
    /\ \/ /\ \E o \in Shown(k) :
                events' = Append(events, o) /\ pushed' = Append(pushed, o)
          /\ reading' = "header"
       \/ /\ Shown(k) = {} /\ reading' = "header"
          /\ UNCHANGED <<events, pushed>>
       \/ Crash(k) /\ UNCHANGED <<events, pushed>>
    /\ UNCHANGED <<vars, holders>>

(* The game loop, outside src/Core: a thread takes an event and keeps its  *)
(* session, may call sendPacket while it does, and lets go of it.          *)
TakeEvent(s) ==
    /\ events # << >>
    /\ events' = Tail(events)
    /\ holders' = holders \cup {s}
    /\ UNCHANGED <<halves, pushed>>

LetGo(s) ==
    /\ s \in holders
    /\ pc[s] = "idle"
    /\ holders' = holders \ {s}
    /\ UNCHANGED <<halves, events, pushed>>

SessionNext ==
    \/ (Reads \/ Writes(holders)) /\ UNCHANGED sessionVars
    \/ \E k \in Bodies : OnBody(k)
    \/ \E s \in Senders : TakeEvent(s) \/ LetGo(s)

-----------------------------------------------------------------------------
(* Each event pushed is of another packet received, in their order; every  *)
(* well-formed packet has one, with its opcode, and a short one has none.  *)
(* Garbage, and what does not decrypt, may have one that shows anything,   *)
(* but costs no other packet its own.                                      *)
EventsAreThePackets ==
    \E f \in [DOMAIN pushed -> DOMAIN received] :
        /\ \A i, j \in DOMAIN pushed : i < j => f[i] < f[j]
        /\ \A n \in DOMAIN received :
              WellFormed(received[n]) => \E i \in DOMAIN pushed : f[i] = n
        /\ \A i \in DOMAIN pushed :
              /\ received[f[i]] # "short"
              /\ WellFormed(received[f[i]]) => pushed[i] = received[f[i]]

(* What remains of a connection that ended is released: once the socket is *)
(* broken or closed and the game loop holds nothing of it, all pending     *)
(* operations complete and it is destroyed, unless a last event brings it  *)
(* back to the game loop, or a last packet ends the program.               *)
SessionReleased ==
    (sock \in {"broken", "closed"} /\ holders = {} /\ events = << >>)
        ~> (~Referenced \/ holders # {} \/ events # << >> \/ ~Alive)
=============================================================================
