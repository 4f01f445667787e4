---------------------------- MODULE PacketWriter ----------------------------
(***************************************************************************)
(* The sending half of Core/Network/ClientSession.hpp (Client.hpp has the  *)
(* same code): sendPacket is called by any thread, looks at                *)
(* writeQueue_.size(), pushes, and calls writeNext when the queue was      *)
(* empty; writeNext pops a packet, encrypts it into finalWriteBuffer_, the *)
(* one buffer of the session, and starts an async_write of that buffer,    *)
(* whose completion handler, run by the io_context's thread, calls         *)
(* writeNext again or closes the socket.                                   *)
(*                                                                         *)
(* Packets are numbered in the order of their push.  A message is Chunks   *)
(* pieces of a packet; the transport reads each piece from the buffer when *)
(* it sends it.  Each call on writeQueue_ is one step (ThreadSafeQueue:    *)
(* its lock is not held across steps, as nobody calls waitPop).            *)
(***************************************************************************)
EXTENDS Naturals, Sequences, FiniteSets

CONSTANTS
    Senders,    \* threads that call sendPacket
    Io,         \* the thread that runs io_context
    Chunks,     \* pieces a message is sent in
    Window,     \* bound: packets accepted but not yet sent when one is sent
    MaxPackets  \* bound: calls of sendPacket

ASSUME SendersAssumption == IsFiniteSet(Senders) /\ Io \notin Senders
ASSUME ChunksAssumption == Chunks \in Nat \ {0}
ASSUME BoundsAssumption == Window \in Nat /\ MaxPackets \in Nat

VARIABLES
    writeQueue_,        \* packets queued
    sock,               \* "unconnected", "open", "broken" by the network,
                        \* "closed" by us
    pc,                 \* where each thread is in sendPacket and writeNext
    wasEmpty,           \* thread -> its local `writing`: size() was 0
    busy,               \* the io thread is in a handler of Client's dispatcher
    packet,             \* thread -> the packet writeNext popped, 0 if none
    finalWriteBuffer_,  \* the packet whose message is in the buffer
    writes,             \* async_writes not completed: [pos, stale]
    accepted,           \* number of packets pushed
    sent,               \* history: messages the transport has taken whole
    overlapped,         \* history: the buffer was filled under a write
    wire                \* pieces handed to the transport, in order

senderVars == <<wasEmpty, accepted, busy>>
bufferVars == <<finalWriteBuffer_, overlapped>>
networkVars == <<sent, wire>>
writerVars == <<writeQueue_, pc, packet, writes, senderVars, bufferVars, networkVars>>
vars == <<sock, writerVars>>

Writers == Senders \cup {Io}
Packets == 1 .. MaxPackets

(* What is read from a buffer that resize has moved away, or that two      *)
(* threads have filled at once: the message of no packet.                  *)
Mixed == 0

RemoveAtIndex(s, i) == SubSeq(s, 1, i - 1) \o SubSeq(s, i + 1, Len(s))

(* async_writes whose message the transport has not taken whole.           *)
InFlight == {i \in DOMAIN writes : writes[i].pos <= Chunks}

(* The io thread can run a completion handler.                             *)
IoFree == pc[Io] = "idle" /\ ~busy

WriterInit ==
    /\ writeQueue_ = << >>
    /\ busy = FALSE
    /\ pc = [t \in Writers |-> "idle"]
    /\ wasEmpty = [t \in Writers |-> FALSE]
    /\ packet = [t \in Writers |-> 0]
    /\ finalWriteBuffer_ = 0 /\ overlapped = FALSE
    /\ writes = << >>
    /\ accepted = 0 /\ sent = 0
    /\ wire = << >>

Init == WriterInit /\ sock = "open"

-----------------------------------------------------------------------------
(* Callers of sendPacket that are between its size() and its push.         *)
Entering == {t \in Writers : pc[t] = "push"}

(* bool writing = !writeQueue_.size();                                     *)
ReadSize(s) ==
    /\ pc[s] = "idle"
    /\ accepted + Cardinality(Entering) < MaxPackets
    /\ accepted + Cardinality(Entering) < sent + Window
    /\ wasEmpty' = [wasEmpty EXCEPT ![s] = (writeQueue_ = << >>)]
    /\ pc' = [pc EXCEPT ![s] = "push"]
    /\ UNCHANGED <<sock, writeQueue_, packet, writes, accepted, busy, bufferVars,
                   networkVars>>

(* writeQueue_.push(packet); ...                                           *)
PushThen(s, next) ==
    /\ pc[s] = "push"
    /\ accepted' = accepted + 1
    /\ writeQueue_' = Append(writeQueue_, accepted + 1)
    /\ pc' = [pc EXCEPT ![s] = next]
    /\ UNCHANGED <<sock, wasEmpty, busy, packet, writes, bufferVars, networkVars>>

(* Fault: line 59 without its `!`. *)
PushPacketInverted(s) == PushThen(s, IF wasEmpty[s] THEN "idle" ELSE "pop")

(* ... if(!writing) return; writeNext();                                   *)
PushPacket(s) == PushThen(s, IF wasEmpty[s] THEN "pop" ELSE "idle")

(* writeNext: if(!writeQueue_.pop(packet)) return; ...                     *)
PopPacket(t) ==
    /\ pc[t] = "pop"
    /\ \/ /\ writeQueue_ = << >>
          /\ pc' = [pc EXCEPT ![t] = "idle"]
          /\ UNCHANGED <<writeQueue_, packet>>
       \/ /\ writeQueue_ # << >>
          /\ packet' = [packet EXCEPT ![t] = Head(writeQueue_)]
          /\ writeQueue_' = Tail(writeQueue_)
          /\ pc' = [pc EXCEPT ![t] = "fill"]
    /\ UNCHANGED <<sock, writes, senderVars, bufferVars, networkVars>>

(* Fault: the copy of line 154 is missing. *)
FillNothing(t) ==
    /\ pc[t] = "fill"
    /\ pc' = [pc EXCEPT ![t] = "start"]
    /\ UNCHANGED <<sock, writeQueue_, packet, writes, senderVars, bufferVars,
                   networkVars>>

(* Threads that have filled the buffer, maybe at the same time as t.       *)
OtherFillers(t) == {u \in Writers \ {t} : pc[u] = "start"}

(* ... encrypt, then the resize of finalWriteBuffer_, which may move it    *)
(* away from the writes that still read it, and the two copies, which may  *)
(* mix with those of another thread, ...                                   *)
FillBuffer(t) ==
    /\ pc[t] = "fill"
    /\ finalWriteBuffer_' \in {packet[t]} \cup {Mixed : u \in OtherFillers(t)}
    /\ writes' \in {writes, [i \in DOMAIN writes |-> [writes[i] EXCEPT !.stale = TRUE]]}
    /\ overlapped' = (overlapped \/ InFlight # {} \/ OtherFillers(t) # {})
    /\ pc' = [pc EXCEPT ![t] = "start"]
    /\ UNCHANGED <<sock, writeQueue_, packet, senderVars, networkVars>>

(* ... and asio::async_write.                                              *)
StartWrite(t) ==
    /\ pc[t] = "start"
    /\ writes' = Append(writes, [pos |-> 1, stale |-> FALSE])
    /\ packet' = [packet EXCEPT ![t] = 0]
    /\ pc' = [pc EXCEPT ![t] = "idle"]
    /\ UNCHANGED <<sock, writeQueue_, senderVars, bufferVars, networkVars>>

-----------------------------------------------------------------------------
(* asio: a write in progress hands its next piece to the transport; writes *)
(* in progress at the same time take turns as they like.                   *)
Transmit(i) ==
    /\ sock = "open"
    /\ writes[i].pos <= Chunks
    /\ wire' = Append(wire, <<IF writes[i].stale THEN Mixed ELSE finalWriteBuffer_,
                              writes[i].pos>>)
    /\ writes' = [writes EXCEPT ![i].pos = @ + 1]
    /\ sent' = IF writes[i].pos = Chunks THEN sent + 1 ELSE sent
    /\ UNCHANGED <<sock, writeQueue_, pc, packet, senderVars, bufferVars>>

(* The completion handler, without error: writeNext().                     *)
WriteDone(i) ==
    /\ IoFree
    /\ writes[i].pos > Chunks
    /\ writes' = RemoveAtIndex(writes, i)
    /\ pc' = [pc EXCEPT ![Io] = "pop"]
    /\ UNCHANGED <<sock, writeQueue_, packet, senderVars, bufferVars, networkVars>>

(* The completion handler is run with an error.                            *)
WriteError(i) ==
    /\ IoFree
    /\ sock # "open"
    /\ writes[i].pos <= Chunks
    /\ writes' = RemoveAtIndex(writes, i)
    /\ UNCHANGED <<writeQueue_, pc, packet, senderVars, bufferVars, networkVars>>

(* Fault: the error branch of line 164 is missing. *)
WriteFailedIgnored(i) == WriteError(i) /\ UNCHANGED sock

(* ... and calls socket_.close().                                          *)
WriteFailed(i) == WriteError(i) /\ sock' = "closed"

(* The network breaks the connection.                                      *)
Break ==
    /\ sock = "open"
    /\ sock' = "broken"
    /\ UNCHANGED writerVars

(* A read handler, on the same thread, closes the socket.                  *)
ReaderCloses ==
    /\ IoFree
    /\ sock' = "closed"
    /\ UNCHANGED writerVars

-----------------------------------------------------------------------------
WriteNextStep(t) == PopPacket(t) \/ FillBuffer(t) \/ StartWrite(t)

Next ==
    \/ \E s \in Senders : ReadSize(s) \/ PushPacket(s)
    \/ \E t \in Writers : WriteNextStep(t)
    \/ \E i \in DOMAIN writes : Transmit(i) \/ WriteDone(i) \/ WriteFailed(i)
    \/ Break \/ ReaderCloses

Spec == Init /\ [][Next]_vars

-----------------------------------------------------------------------------
(* Packets leave the queue in the order of their push, each for one        *)
(* writeNext, and each writeNext starts one write: the packets queued, in  *)
(* writeNext, in a write and sent account for every packet accepted, as    *)
(* long as the socket is not closed because a write failed.                *)
InWriteNext == {t \in Writers : packet[t] # 0}
PacketsAccountedFor ==
    /\ \A i \in DOMAIN writeQueue_ :
          writeQueue_[i] = accepted - Len(writeQueue_) + i
    /\ \A t, u \in InWriteNext : t # u => packet[t] # packet[u]
    /\ sock # "closed" =>
          accepted = Len(writeQueue_) + Cardinality(InWriteNext)
                     + Cardinality(InFlight) + sent

(* Line 151, "Compose full message: [length][encrypted payload]", of the   *)
(* packet that line 141 sends, "next packet from the write queue": what    *)
(* the peer receives is whole messages, each of a packet not sent before.  *)
StreamIntact ==
    \A k \in DOMAIN wire :
        IF k % Chunks = 1 % Chunks
        THEN /\ wire[k][1] # Mixed /\ wire[k][2] = 1
             /\ \A j \in 1 .. k - 1 : wire[j][1] # wire[k][1]
        ELSE wire[k] = <<wire[k - 1][1], wire[k - 1][2] + 1>>

(* Only a writeNext that fills the buffer under the write or the fill of   *)
(* another one can damage the stream: with callers that wait for one       *)
(* packet to be sent before the next, nothing the io thread does can.      *)
OnlyOverlapDamages == ~overlapped => StreamIntact
=============================================================================
