------------------------------- MODULE Server -------------------------------
(***************************************************************************)
(* Core/Network/Server.hpp: the accept loop.  Its handler starts a session *)
(* for the connection it was given, if there is one, and accepts again.    *)
(***************************************************************************)
EXTENDS Naturals

CONSTANT MaxPeers   \* bound: peers that wait while none is being handled

VARIABLES
    accept,     \* "armed", its handler due with a "socket" or an "error", or "none"
    peers       \* connections that wait to be accepted

serverVars == <<accept, peers>>

(* The constructor calls doAccept. *)
ServerInit == accept = "armed" /\ peers = 0

PeerConnects ==
    /\ peers < MaxPeers /\ accept # "socket"
    /\ peers' = peers + 1
    /\ UNCHANGED accept

AcceptCompletes ==
    /\ accept = "armed" /\ peers > 0
    /\ accept' = "socket"
    /\ peers' = peers - 1

(* The peer has gone, or there is no descriptor left. *)
AcceptFails ==
    /\ accept = "armed" /\ peers > 0
    /\ accept' = "error"
    /\ UNCHANGED peers

HandleAccept(next) ==
    /\ accept \in {"socket", "error"}
    /\ accept' = next
    /\ UNCHANGED peers

(* Fault: doAccept is called only if there was no error. *)
OnAcceptOnce == HandleAccept(IF accept = "socket" THEN "armed" ELSE "none")

(* doAccept(); whatever ec was. *)
OnAccept == HandleAccept("armed")

=============================================================================
