---------------------------- MODULE PacketReader ----------------------------
(***************************************************************************)
(* The receiving half that Core/Network/ClientSession.hpp and Client.hpp   *)
(* share, on top of the sending half: a read of the length header is       *)
(* armed; its handler arms a read of the body; the body's handler decrypts *)
(* and classifies the packet, hands it on, which is where the two differ,  *)
(* and arms the next header read.  Both halves share the socket and the    *)
(* io_context's thread.                                                    *)
(*                                                                         *)
(* An operation that has completed waits for its handler to be run: what   *)
(* happens in between may find the socket closed by another handler.       *)
(***************************************************************************)
EXTENDS PacketWriter

CONSTANT MaxArrivals    \* bound: messages the peer sends

ASSUME MaxArrivalsAssumption == MaxArrivals \in Nat

VARIABLES
    reading,    \* "header", "body": waiting for data; "gotHeader", "gotBody":
                \*   the handler is due; "none": nothing is armed; "crashed":
                \*   the program ended in the handler
    incoming,   \* kind of the message being read
    arrived,    \* number of headers received
    received    \* history: kinds of the bodies handled, as they arrived

readerVars == <<reading, incoming, arrived, received>>
halves == <<vars, readerVars>>

(* "flat", "hard": a FlatBuffers or a hard packet; "short": the first two  *)
(* bytes are no number below 1000, and there are fewer than in a           *)
(* HardMovePacket; "corrupt": the cipher text does not decrypt, or to no   *)
(* packet, neither of which is checked; "oversize": incomingLength_ >      *)
(* maxPacketSize.                                                          *)
Arrivals == {"flat", "hard", "short", "corrupt", "oversize"}
WellFormed(k) == k \in {"flat", "hard"}

(* What decrypt makes of it: of a corrupt one, arbitrary bytes, which may  *)
(* be those of a hard packet, or "garbage": a number below 1000, and then  *)
(* what is no FlatBuffers packet.                                          *)
Bodies == {"flat", "hard", "short", "garbage"}
Decrypted(k) == IF k = "corrupt" THEN Bodies \ {"flat"} ELSE {k} \cap (Bodies \ {"garbage"})

(* One opcode stands for each kind of packet, and one for all the others.  *)
Opcodes == {"flat", "hard"}
AnyOpcode == Opcodes \cup {"other"}

(* The opcodes a body that decrypted to k may show.  isFlatbuffers looks   *)
(* at two bytes, and GetPacket()->opcode() follows the offsets it finds in *)
(* bytes that nobody has verified: garbage shows any opcode, if the        *)
(* program survives it.  A short one shows none.                           *)
Shown(k) == CASE k = "garbage" -> AnyOpcode
              [] k = "hard" /\ incoming = "corrupt" -> AnyOpcode \ {"flat"}
              [] OTHER -> {k} \cap Opcodes

Alive == reading # "crashed"

ReaderInit ==
    /\ WriterInit
    /\ sock = "unconnected"
    /\ reading = "none" /\ incoming = "none"
    /\ arrived = 0
    /\ received = << >>

-----------------------------------------------------------------------------
(* The connection is there: the first read is armed.                       *)
Opened ==
    /\ sock = "unconnected"
    /\ sock' = "open"
    /\ reading' = "header"
    /\ UNCHANGED <<writerVars, incoming, arrived, received>>

(* asio completes the read of the header: incomingLength_ is known.        *)
HeaderArrives ==
    /\ sock = "open"
    /\ reading = "header"
    /\ arrived < MaxArrivals
    /\ arrived' = arrived + 1
    /\ incoming' \in Arrivals
    /\ reading' = "gotHeader"
    /\ UNCHANGED <<vars, received>>

(* readHeader's handler: a length beyond maxPacketSize closes the socket,  *)
(* any other arms the read of the body.                                    *)
OnHeader ==
    /\ IoFree
    /\ reading = "gotHeader"
    /\ \/ incoming = "oversize" /\ reading' = "none" /\ ReaderCloses
       \/ incoming # "oversize" /\ reading' = "body" /\ UNCHANGED vars
    /\ UNCHANGED <<incoming, arrived, received>>

BodyArrives ==
    /\ sock = "open"
    /\ reading = "body"
    /\ reading' = "gotBody"
    /\ UNCHANGED <<vars, incoming, arrived, received>>

(* readBody's handler, up to what it does with a body that decrypts to k,  *)
BodyHandled(k) ==
    /\ IoFree
    /\ reading = "gotBody"
    /\ k \in Decrypted(incoming)
    /\ received' = Append(received, incoming)
    /\ UNCHANGED <<incoming, arrived>>

(* ... if it gets past opcode().                                           *)
Crash(k) == k = "garbage" /\ reading' = "crashed"

(* Fault: the handlers retry the read instead of closing the socket. *)
ReadRetries ==
    /\ IoFree
    /\ sock \notin {"open", "unconnected"}
    /\ reading \in {"header", "body"}
    /\ reading' = "header"
    /\ UNCHANGED <<vars, incoming, arrived, received>>

(* Either handler with an error, of the network or of our own close.       *)
ReadFails ==
    /\ sock \notin {"open", "unconnected"}
    /\ reading \in {"header", "body"}
    /\ ReaderCloses
    /\ reading' = "none"
    /\ UNCHANGED <<incoming, arrived, received>>

Reads == HeaderArrives \/ OnHeader \/ BodyArrives \/ ReadFails

(* Writes in progress, and calls of sendPacket by the given threads.       *)
Completes == \E i \in DOMAIN writes : Transmit(i) \/ WriteDone(i) \/ WriteFailed(i)
Writes(callers) ==
    /\ \/ \E t \in callers : ReadSize(t)
       \/ \E t \in Writers : PushPacket(t) \/ WriteNextStep(t)
       \/ Completes \/ Break
    /\ UNCHANGED readerVars

WritesGoOn ==
    /\ (\E t \in Writers : PushPacket(t) \/ WriteNextStep(t)) \/ Completes
    /\ UNCHANGED readerVars
=============================================================================
