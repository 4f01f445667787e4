------------------------------- MODULE Client -------------------------------
(***************************************************************************)
(* Core/Network/Client.hpp and PacketDispatcher.hpp: the connection to the *)
(* server.  The constructor starts async_connect, whose handler arms the   *)
(* first read; a packet is dispatched to the handler that is registered    *)
(* for the opcode it shows, which runs on the io_context's thread with the *)
(* next read not yet armed.  sendPacket may be called by anybody at any    *)
(* time: before there is a connection, and by such a handler.              *)
(*                                                                         *)
(* The constructor calls shared_from_this before the object is owned by a  *)
(* shared_ptr, which throws; the model is of a Client whose construction   *)
(* and connect are set off in the order the code means.  handlers_ has no  *)
(* lock: handlers are registered before the Client is constructed, or by   *)
(* handlers.                                                               *)
(***************************************************************************)
EXTENDS PacketReader

CONSTANT Registered     \* opcodes whose handler is registered beforehand

ASSUME RegisteredAssumption == Registered \subseteq Opcodes

VARIABLES
    connecting, \* async_connect is in progress
    handlers_,  \* opcodes a handler is registered for
    since,      \* history: opcode -> bodies handled before it was registered
    delivered,  \* history: number of the body -> opcode whose handler was
                \*   called with it, or "none"
    threw       \* history: a handler threw, out of the io_context's run

clientVars == <<connecting, handlers_, since, delivered, threw>>

ClientInit ==
    /\ connecting = TRUE
    /\ handlers_ = Registered
    /\ since = [k \in Opcodes |-> 0]
    /\ delivered = << >>
    /\ threw = FALSE

-----------------------------------------------------------------------------
(* async_connect's handler without error; a close of the socket, by a      *)
(* packet sent too early, has cancelled it.                                *)
Connected ==
    /\ connecting /\ IoFree
    /\ Opened
    /\ connecting' = FALSE
    /\ UNCHANGED <<handlers_, since, delivered, threw>>

(* ... and with one: nothing is closed, retried or told to anybody.        *)
ConnectFails ==
    /\ connecting /\ IoFree
    /\ connecting' = FALSE
    /\ UNCHANGED <<halves, handlers_, since, delivered, threw>>

(* handlers_[opcode] = handler; *)
RegisterHandler(o) ==
    /\ o \notin handlers_
    /\ busy /\ pc[Io] = "idle"
    /\ handlers_' = handlers_ \cup {o}
    /\ since' = [since EXCEPT ![o] = Len(received)]
    /\ UNCHANGED <<halves, connecting, delivered, threw>>

(* readBody's handler, up to the call of the handler it dispatches to; a   *)
(* packet that shows an opcode nobody registered for, or none, is dropped. *)
Dispatch(k) ==
    /\ BodyHandled(k)
    /\ \/ /\ \E o \in Shown(k) \cap handlers_ : delivered' = Append(delivered, o)
          /\ busy' = TRUE /\ reading' = "none"
          /\ UNCHANGED <<sock, writeQueue_, pc, wasEmpty, accepted, packet, writes,
                         bufferVars, networkVars>>
       \/ /\ delivered' = Append(delivered, "none") /\ UNCHANGED vars
          /\ \/ /\ Shown(k) = {} \/ Shown(k) \ handlers_ # {}
                /\ reading' = "header"
             \/ Crash(k)
    /\ UNCHANGED <<connecting, handlers_, since, threw>>

HandlerLeaves(next) ==
    /\ busy /\ pc[Io] = "idle"
    /\ busy' = FALSE
    /\ reading' = next
    /\ UNCHANGED <<sock, writeQueue_, pc, wasEmpty, accepted, packet, writes, bufferVars,
                   networkVars, incoming, arrived, received, connecting, handlers_,
                   since, delivered>>

(* Fault: dispatch is the handler's last call, and it does not read on. *)
HandlerReturnsForGood == HandlerLeaves("none") /\ UNCHANGED threw

(* The handler returns: readHeader();                                      *)
HandlerReturns == HandlerLeaves("header") /\ UNCHANGED threw

(* It throws: readHeader is skipped, the exception leaves run(), which the *)
(* program may call again.                                                 *)
HandlerThrows == HandlerLeaves("none") /\ threw' = TRUE

ClientNext ==
    \/ (Reads \/ Writes(Senders \cup {t \in {Io} : busy})) /\ UNCHANGED clientVars
    \/ Connected \/ ConnectFails \/ HandlerReturns \/ HandlerThrows
    \/ \E k \in Bodies : Dispatch(k)
    \/ \E o \in Opcodes : RegisterHandler(o)

-----------------------------------------------------------------------------
(* A well-formed packet is given to the handler of its opcode if, and only *)
(* if, that was registered when it arrived, however the handlers register  *)
(* and send in between, and whatever came before it; a short one to none.  *)
RegisteredBefore(o, i) == o \in handlers_ /\ i > since[o]
HandlersGetThePackets ==
    /\ Len(delivered) = Len(received)
    /\ \A i \in DOMAIN received :
          /\ WellFormed(received[i]) =>
                delivered[i] = IF RegisteredBefore(received[i], i) THEN received[i] ELSE "none"
          /\ delivered[i] # "none" =>
                received[i] # "short" /\ RegisteredBefore(delivered[i], i)
=============================================================================
