----------------------------- MODULE Connections -----------------------------
(***************************************************************************)
(* Core/Network: one program's side of a connection.  In the server the    *)
(* accept loop starts the session on the io_context's thread that will run *)
(* its handlers; in the client the Client connects.  What both promise of  *)
(* reading and writing is stated once.                                     *)
(***************************************************************************)
EXTENDS ClientSession, Client, Server

VARIABLE role   \* "server" or "client"

allVars == <<halves, sessionVars, clientVars, serverVars, role>>

ConnectionInit ==
    /\ ReaderInit /\ SessionInit /\ ClientInit /\ ServerInit
    /\ role \in {"server", "client"}

InServer(A) == Alive /\ role = "server" /\ A /\ UNCHANGED <<clientVars, role>>
InClient(A) == Alive /\ role = "client" /\ A /\ UNCHANGED <<sessionVars, serverVars, role>>

(* make_shared<ClientSession>(...)->start(): the first session is the one  *)
(* looked at, the others are not followed.                                 *)
StartSession ==
    /\ OnAccept
    /\ IF accept = "socket" /\ sock = "unconnected"
       THEN Opened
       ELSE UNCHANGED halves

AcceptStep == IoFree /\ StartSession /\ UNCHANGED sessionVars

ServerNext ==
    \/ SessionNext /\ UNCHANGED serverVars
    \/ (PeerConnects \/ AcceptCompletes \/ AcceptFails) /\ UNCHANGED <<halves, sessionVars>>
    \/ AcceptStep

ConnectionNext == InServer(ServerNext) \/ InClient(ClientNext)

(* Threads inside sendPacket and writeNext go on, the transport takes data *)
(* while the connection lasts, completion handlers are called, and those   *)
(* of Client's dispatcher return or throw.  Nobody has to send, to take an *)
(* event, to let go of a session, or to break the connection, and no       *)
(* message has to begin to arrive.  An accept that is tried again and      *)
(* again does succeed.                                                     *)
GoesOn ==
    \/ Alive /\ WritesGoOn /\ UNCHANGED <<sessionVars, clientVars, serverVars, role>>
    \/ InClient(HandlerReturns \/ HandlerThrows)

ReadGoesOn ==
    \/ InServer((OnHeader \/ BodyArrives \/ ReadFails) /\ UNCHANGED <<sessionVars, serverVars>>)
    \/ \E k \in Bodies : InServer(OnBody(k) /\ UNCHANGED serverVars)
    \/ InClient((OnHeader \/ BodyArrives \/ ReadFails) /\ UNCHANGED clientVars)
    \/ \E k \in Bodies : InClient(Dispatch(k))

ConnectionSpec ==
    /\ ConnectionInit /\ [][ConnectionNext]_allVars
    /\ WF_allVars(GoesOn) /\ WF_allVars(ReadGoesOn)
    /\ WF_allVars(InServer(AcceptStep))
    /\ SF_allVars(InServer(AcceptCompletes /\ UNCHANGED <<halves, sessionVars>>))

-----------------------------------------------------------------------------
(* A connection never goes deaf: while it lasts a read is armed, its       *)
(* handler is due, or a packet is being handled, whatever was received and *)
(* however writes ended; only a handler that throws leaves it without.     *)
(* (Of a program that has crashed nothing is asked.)                       *)
NeverDeaf == sock \in {"open", "broken"} => reading # "none" \/ busy \/ threw

(* The well-formed packets received are delivered once, in order, to the   *)
(* game loop or to the handlers they are meant for, and no short one is.   *)
(* Nothing is promised of bytes that only look like a packet (line 174 of  *)
(* ClientSession.hpp does: "True if data is Flatbuffers packet").          *)
PacketsDelivered ==
    IF role = "server" THEN EventsAreThePackets ELSE HandlersGetThePackets

(* While a peer waits one is accepted in the end, whatever errors and      *)
(* sessions come before it, unless the program ends.                       *)
PeersAccepted == peers > 0 ~> (accept = "socket" \/ ~Alive)

(* ClientSession.hpp line 54, "Asynchronously sends a packet to the        *)
(* client.": with one sender a packet does not stay in the queue of a      *)
(* session that works, whenever its size() was read.  (With two, as in the *)
(* client whose handlers send too, one's stale size() can leave its        *)
(* packet, and all later ones, in the queue.)                              *)
InQueue(p) == \E i \in DOMAIN writeQueue_ : writeQueue_[i] = p
QueuedPacketLeaves ==
    \A p \in Packets :
        (role = "server" /\ InQueue(p)) ~> (sock # "open" \/ ~InQueue(p) \/ ~Alive)
=============================================================================
