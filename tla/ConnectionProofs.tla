-------------------------- MODULE ConnectionProofs --------------------------
(* Proofs about connections, for any senders, sizes of messages and bounds, *)
(* and about the lengths of encrypted messages.                             *)
EXTENDS Connections, Crypto, FiniteSetTheorems, FunctionTheorems, SequenceTheorems, TLAPS

-----------------------------------------------------------------------------
(* Reading *)

(* What a step of the sending half is: of no interest to the reader, but   *)
(* that it may break or close the socket.                                  *)
LEMMA WritesLeaveReader ==
    ASSUME NEW callers, Writes(callers)
    PROVE  /\ UNCHANGED <<readerVars, busy>>
           /\ sock' \in {"open", "broken"} => sock \in {"open", "broken"}
  <1> USE DEF Writes
  <1>1. CASE \E t \in callers : ReadSize(t)
      BY <1>1 DEF ReadSize
  <1>2. CASE \E t \in Writers : PushPacket(t) \/ WriteNextStep(t)
      BY <1>2 DEF PushPacket, PushThen, WriteNextStep, PopPacket, FillBuffer, StartWrite,
                  senderVars
  <1>3. CASE Completes
      BY <1>3 DEF Completes, Transmit, WriteDone, WriteFailed, WriteError, senderVars
  <1>4. CASE Break
      BY <1>4 DEF Break, writerVars, senderVars
  <1> QED
      BY <1>1, <1>2, <1>3, <1>4

LEMMA ReadsStayArmed ==
    ASSUME NeverDeaf, Reads, threw' = threw
    PROVE  NeverDeaf'
  BY DEF NeverDeaf, Reads, HeaderArrives, OnHeader, BodyArrives, ReadFails, ReaderCloses,
         vars, writerVars, senderVars

LEMMA StepNeverDeaf == NeverDeaf /\ [ConnectionNext]_allVars => NeverDeaf'
  <1> SUFFICES ASSUME NeverDeaf, [ConnectionNext]_allVars PROVE NeverDeaf'
      OBVIOUS
  <1>1. ASSUME UNCHANGED halves, threw' = threw PROVE NeverDeaf'
      BY <1>1 DEF NeverDeaf, halves, vars, writerVars, senderVars, readerVars
  <1>2. ASSUME NEW callers, Writes(callers), threw' = threw PROVE NeverDeaf'
      BY <1>2, WritesLeaveReader DEF NeverDeaf, readerVars
  <1>3. CASE InServer(ServerNext)
    <2>1. threw' = threw
        BY <1>3 DEF InServer, clientVars
    <2>2. CASE SessionNext
      <3>1. CASE Reads \/ Writes(holders)
          BY <2>1, <3>1, <1>2, ReadsStayArmed
      <3>2. ASSUME NEW k \in Bodies, OnBody(k) PROVE NeverDeaf'
          BY <3>2 DEF OnBody, Crash, NeverDeaf
      <3>3. ASSUME NEW s \in Senders, TakeEvent(s) \/ LetGo(s) PROVE NeverDeaf'
          BY <2>1, <3>3, <1>1 DEF TakeEvent, LetGo
      <3> QED
          BY <2>2, <3>1, <3>2, <3>3 DEF SessionNext
    <2>3. CASE UNCHANGED halves
        BY <2>1, <2>3, <1>1
    <2>4. CASE AcceptStep
      <3>1. CASE Opened
          BY <3>1 DEF Opened, NeverDeaf
      <3> QED
          BY <2>1, <2>4, <3>1, <1>1 DEF AcceptStep, StartSession
    <2> QED
        BY <1>3, <2>2, <2>3, <2>4 DEF InServer, ServerNext
  <1>4. CASE InClient(ClientNext)
    <2>1. CASE (Reads \/ Writes(Senders \cup {t \in {Io} : busy})) /\ UNCHANGED clientVars
        BY <2>1, <1>2, ReadsStayArmed DEF clientVars
    <2>2. CASE Connected
        BY <2>2 DEF Connected, Opened, NeverDeaf
    <2>3. CASE ConnectFails
        BY <2>3, <1>1 DEF ConnectFails
    <2>4. CASE HandlerReturns \/ HandlerThrows
        BY <2>4 DEF HandlerReturns, HandlerThrows, HandlerLeaves, NeverDeaf
    <2>5. ASSUME NEW k \in Bodies, Dispatch(k) PROVE NeverDeaf'
        BY <2>5 DEF Dispatch, Crash, NeverDeaf
    <2>6. ASSUME NEW o \in Opcodes, RegisterHandler(o) PROVE NeverDeaf'
        BY <2>6, <1>1 DEF RegisterHandler
    <2> QED
        BY <1>4, <2>1, <2>2, <2>3, <2>4, <2>5, <2>6 DEF InClient, ClientNext
  <1>5. CASE UNCHANGED allVars
      BY <1>5, <1>1 DEF allVars, clientVars
  <1> QED
      BY <1>3, <1>4, <1>5 DEF ConnectionNext

(* A connection reads on as long as it lasts, in the server and in the     *)
(* client, unless a handler throws.                                        *)
THEOREM ConnectionsListen == ConnectionSpec => []NeverDeaf
  <1>1. ConnectionInit => NeverDeaf
      BY DEF ConnectionInit, ReaderInit, NeverDeaf
  <1> QED
      BY <1>1, StepNeverDeaf, PTL DEF ConnectionSpec

-----------------------------------------------------------------------------
(* Bodies *)

(* What a body shows was in it, unless it was damaged. *)
LEMMA BodyShows ==
    ASSUME NEW k \in Bodies, BodyHandled(k)
    PROVE  /\ incoming \in Arrivals
           /\ Shown(k) \subseteq AnyOpcode
           /\ Shown(k) # {} => incoming # "short"
           /\ WellFormed(incoming) => Shown(k) = {incoming} /\ ~Crash(k)
  <1>1. k \in Decrypted(incoming)
      BY DEF BodyHandled
  <1>2. CASE incoming = "corrupt"
    <2>1. k \in {"hard", "short", "garbage"}
        BY <1>1, <1>2 DEF Decrypted, Bodies
    <2>2. Shown(k) \subseteq AnyOpcode
        BY <1>2, <2>1 DEF Shown, AnyOpcode
    <2> QED
        BY <1>2, <2>2 DEF WellFormed, Arrivals
  <1>3. CASE incoming # "corrupt"
    <2>1. k = incoming /\ k \in {"flat", "hard", "short"}
        BY <1>1, <1>3 DEF Decrypted, Bodies
    <2>2. CASE k \in Opcodes
        BY <1>3, <2>1, <2>2 DEF Shown, Crash, AnyOpcode, Opcodes, Arrivals, WellFormed
    <2>3. CASE k = "short"
        BY <2>1, <2>3 DEF Shown, WellFormed, AnyOpcode, Opcodes, Arrivals
    <2> QED
        BY <2>1, <2>2, <2>3 DEF Opcodes
  <1> QED
      BY <1>2, <1>3

-----------------------------------------------------------------------------
(* Dispatching *)

DispatchInv ==
    /\ received \in Seq(Arrivals)
    /\ delivered \in Seq(AnyOpcode \cup {"none"})
    /\ handlers_ \subseteq Opcodes
    /\ since \in [Opcodes -> Nat]
    /\ \A o \in Opcodes : since[o] <= Len(received)
    /\ HandlersGetThePackets

LEMMA DispatchStays ==
    ASSUME DispatchInv, UNCHANGED <<received, delivered, handlers_, since>>
    PROVE  DispatchInv'
  BY DEF DispatchInv, HandlersGetThePackets, RegisteredBefore, WellFormed, Opcodes, AnyOpcode,
         Arrivals

(* The handler called, if any, is the right one. *)
LEMMA DispatchCalls ==
    ASSUME DispatchInv, NEW k \in Bodies, Dispatch(k)
    PROVE  \E d \in AnyOpcode \cup {"none"} :
              /\ delivered' = Append(delivered, d)
              /\ WellFormed(incoming) => d = IF incoming \in handlers_ THEN incoming ELSE "none"
              /\ d # "none" => incoming # "short" /\ d \in handlers_
  <1> USE BodyShows
  <1>1. BodyHandled(k)
      BY DEF Dispatch
  <1>2. CASE \E o \in Shown(k) \cap handlers_ : delivered' = Append(delivered, o)
    <2>1. PICK o \in Shown(k) \cap handlers_ : delivered' = Append(delivered, o)
        BY <1>2
    <2>2. o \in AnyOpcode /\ o # "none" /\ incoming # "short"
        BY <1>1, <2>1 DEF AnyOpcode, Opcodes
    <2>3. WellFormed(incoming) => o = incoming
        BY <1>1, <2>1
    <2> QED
        BY <2>1, <2>2, <2>3
  <1>3. CASE /\ delivered' = Append(delivered, "none")
             /\ Shown(k) = {} \/ Shown(k) \ handlers_ # {} \/ Crash(k)
    <2>1. WellFormed(incoming) => incoming \notin handlers_
        BY <1>1, <1>3
    <2> QED
        BY <1>3, <2>1
  <1> QED
      BY <1>2, <1>3 DEF Dispatch

LEMMA StepDispatch ==
    ASSUME DispatchInv, NEW k \in Bodies, Dispatch(k)
    PROVE  DispatchInv'
  <1>1. /\ received \in Seq(Arrivals) /\ delivered \in Seq(AnyOpcode \cup {"none"})
        /\ Len(delivered) = Len(received) /\ Len(received) \in Nat
        /\ DOMAIN received = 1 .. Len(received)
      BY LenProperties DEF DispatchInv, HandlersGetThePackets
  <1>2. /\ incoming \in Arrivals /\ received' = Append(received, incoming)
        /\ UNCHANGED <<handlers_, since>>
      BY BodyShows DEF Dispatch, BodyHandled
  <1>3. PICK d \in AnyOpcode \cup {"none"} :
              /\ delivered' = Append(delivered, d)
              /\ WellFormed(incoming) => d = IF incoming \in handlers_ THEN incoming ELSE "none"
              /\ d # "none" => incoming # "short" /\ d \in handlers_
      BY DispatchCalls
  <1>4. /\ received' \in Seq(Arrivals) /\ Len(received') = Len(received) + 1
        /\ received'[Len(received) + 1] = incoming
        /\ \A i \in 1 .. Len(received) : received'[i] = received[i]
      BY <1>1, <1>2, AppendProperties
  <1>5. /\ delivered' \in Seq(AnyOpcode \cup {"none"}) /\ Len(delivered') = Len(received) + 1
        /\ delivered'[Len(received) + 1] = d
        /\ \A i \in 1 .. Len(received) : delivered'[i] = delivered[i]
    <2>1. delivered' = Append(delivered, d)
        BY <1>3
    <2> QED
        BY <1>1, <2>1, AppendProperties
  <1>6. DOMAIN received' = 1 .. Len(received) + 1
      BY <1>4, LenProperties
  <1>7. \A o \in Opcodes : since'[o] <= Len(received')
      BY <1>1, <1>2, <1>4 DEF DispatchInv
  <1>8. ASSUME NEW i \in DOMAIN received'
        PROVE  /\ WellFormed(received'[i]) => delivered'[i]
                    = IF RegisteredBefore(received[i], i)' THEN received'[i] ELSE "none"
               /\ delivered'[i] # "none" =>
                    received'[i] # "short" /\ RegisteredBefore(delivered[i], i)'
    <2>1. CASE i \in 1 .. Len(received)
      <3>1. received'[i] = received[i] /\ delivered'[i] = delivered[i]
          BY <1>4, <1>5, <2>1
      <3>2. /\ RegisteredBefore(received[i], i)' <=> RegisteredBefore(received[i], i)
            /\ RegisteredBefore(delivered[i], i)' <=> RegisteredBefore(delivered[i], i)
          BY <1>2, <3>1 DEF RegisteredBefore
      <3> QED
          BY <1>1, <2>1, <3>1, <3>2 DEF DispatchInv, HandlersGetThePackets
    <2>2. CASE i = Len(received) + 1
      <3>1. received'[i] = incoming /\ delivered'[i] = d
          BY <1>4, <1>5, <2>2
      <3>2. \A o \in handlers_ : i > since[o]
          BY <1>1, <2>2 DEF DispatchInv
      <3>3. /\ RegisteredBefore(received[i], i)' <=> incoming \in handlers_
            /\ d # "none" => RegisteredBefore(delivered[i], i)'
          BY <1>2, <1>3, <3>1, <3>2 DEF RegisteredBefore
      <3> QED
          BY <1>3, <3>1, <3>3
    <2> QED
        BY <1>1, <1>6, <2>1, <2>2
  <1>9. HandlersGetThePackets'
      BY <1>4, <1>5, <1>8 DEF HandlersGetThePackets
  <1> QED
      BY <1>2, <1>4, <1>5, <1>7, <1>9 DEF DispatchInv, Opcodes, AnyOpcode, Arrivals

LEMMA StepRegister ==
    ASSUME DispatchInv, NEW o \in Opcodes, RegisterHandler(o)
    PROVE  DispatchInv'
  <1>1. /\ UNCHANGED <<received, delivered>> /\ o \notin handlers_
        /\ handlers_' = handlers_ \cup {o}
        /\ since' = [since EXCEPT ![o] = Len(received)]
      BY DEF RegisterHandler, halves, readerVars
  <1>2. Len(received) \in Nat /\ DOMAIN received = 1 .. Len(received)
      BY LenProperties DEF DispatchInv
  <1>3. since' \in [Opcodes -> Nat] /\ \A x \in Opcodes : since'[x] <= Len(received')
      BY <1>1, <1>2 DEF DispatchInv
  <1>4. ASSUME NEW x \in Opcodes, NEW i \in DOMAIN received
        PROVE  x \in handlers_' /\ i > since'[x] <=> RegisteredBefore(x, i)
    <2>1. CASE x = o
        BY <1>1, <1>2, <2>1 DEF DispatchInv, RegisteredBefore
    <2>2. CASE x # o
        BY <1>1, <2>2 DEF DispatchInv, RegisteredBefore
    <2> QED
        BY <2>1, <2>2
  <1>5. ASSUME NEW i \in DOMAIN received
        PROVE  /\ WellFormed(received[i]) => delivered[i]
                    = IF RegisteredBefore(received[i], i)' THEN received[i] ELSE "none"
               /\ delivered[i] # "none" =>
                    received[i] # "short" /\ RegisteredBefore(delivered[i], i)'
    <2>1. WellFormed(received[i]) => received[i] \in Opcodes
        BY DEF WellFormed, Opcodes
    <2>2. RegisteredBefore(delivered[i], i) => delivered[i] \in Opcodes
        BY DEF DispatchInv, RegisteredBefore
    <2>3. /\ WellFormed(received[i]) => delivered[i]
                = IF RegisteredBefore(received[i], i) THEN received[i] ELSE "none"
          /\ delivered[i] # "none" =>
                received[i] # "short" /\ RegisteredBefore(delivered[i], i)
        BY DEF DispatchInv, HandlersGetThePackets
    <2>4. /\ received[i] \in Opcodes =>
                (RegisteredBefore(received[i], i)' <=> RegisteredBefore(received[i], i))
          /\ delivered[i] \in Opcodes =>
                (RegisteredBefore(delivered[i], i)' <=> RegisteredBefore(delivered[i], i))
        BY <1>1, <1>4 DEF RegisteredBefore
    <2> QED
        BY <2>1, <2>2, <2>3, <2>4
  <1>6. HandlersGetThePackets'
      BY <1>1, <1>5 DEF HandlersGetThePackets, DispatchInv
  <1> QED
      BY <1>1, <1>3, <1>6 DEF DispatchInv, Opcodes, AnyOpcode, Arrivals

LEMMA StepClient ==
    ASSUME DispatchInv, InClient(ClientNext)
    PROVE  DispatchInv'
  <1>1. CASE (Reads \/ Writes(Senders \cup {t \in {Io} : busy})) /\ UNCHANGED clientVars
    <2>1. received' = received
        BY <1>1, WritesLeaveReader
        DEF Reads, HeaderArrives, OnHeader, BodyArrives, ReadFails, readerVars
    <2> QED
        BY <1>1, <2>1, DispatchStays DEF clientVars
  <1>2. CASE Connected \/ ConnectFails
      BY <1>2, DispatchStays DEF Connected, ConnectFails, Opened, halves, readerVars
  <1>3. CASE HandlerReturns \/ HandlerThrows
      BY <1>3, DispatchStays DEF HandlerReturns, HandlerThrows, HandlerLeaves
  <1> QED
      BY <1>1, <1>2, <1>3, StepDispatch, StepRegister DEF InClient, ClientNext

(* Client calls the handlers of exactly the well-formed packets that       *)
(* arrived after their registration, and of no short one.                  *)
THEOREM HandlersCalled == ConnectionSpec => [](role = "client" => HandlersGetThePackets)
  <1> DEFINE Inv == role = "client" => DispatchInv
  <1>1. ConnectionInit => Inv
    <2> SUFFICES ASSUME ConnectionInit PROVE DispatchInv
        OBVIOUS
    <2> USE RegisteredAssumption DEF ConnectionInit, ReaderInit, ClientInit
    <2>1. /\ received \in Seq(Arrivals) /\ delivered \in Seq(AnyOpcode \cup {"none"})
          /\ Len(received) = 0
        OBVIOUS
    <2>2. HandlersGetThePackets
        BY DEF HandlersGetThePackets
    <2> QED
        BY <2>1, <2>2 DEF DispatchInv, Opcodes
  <1>2. Inv /\ [ConnectionNext]_allVars => Inv'
    <2> SUFFICES ASSUME Inv, [ConnectionNext]_allVars PROVE Inv'
        OBVIOUS
    <2>1. CASE InServer(ServerNext)
        BY <2>1 DEF InServer
    <2>2. CASE InClient(ClientNext)
        BY <2>2, StepClient DEF InClient
    <2>3. CASE UNCHANGED allVars
        BY <2>3, DispatchStays DEF allVars, halves, readerVars, clientVars
    <2> QED
        BY <2>1, <2>2, <2>3 DEF ConnectionNext
  <1>3. Inv => (role = "client" => HandlersGetThePackets)
      BY DEF DispatchInv
  <1> QED
      BY <1>1, <1>2, <1>3, PTL DEF ConnectionSpec

-----------------------------------------------------------------------------
(* Events *)

(* The event numbered i is of the packet numbered f[i]. *)
Picks(f) ==
    /\ f \in [DOMAIN pushed -> DOMAIN received]
    /\ \A i, j \in DOMAIN pushed : i < j => f[i] < f[j]
    /\ \A n \in DOMAIN received :
          WellFormed(received[n]) => \E i \in DOMAIN pushed : f[i] = n
    /\ \A i \in DOMAIN pushed :
          /\ received[f[i]] # "short"
          /\ WellFormed(received[f[i]]) => pushed[i] = received[f[i]]

PushInv ==
    /\ received \in Seq(Arrivals)
    /\ pushed \in Seq(AnyOpcode)
    /\ \E f : Picks(f)

LEMMA PushStays == PushInv /\ UNCHANGED <<received, pushed>> => PushInv'
  BY DEF PushInv, Picks, WellFormed, Arrivals, AnyOpcode, Opcodes

LEMMA StepPushed ==
    ASSUME PushInv, NEW k \in Bodies, OnBody(k)
    PROVE  PushInv'
  <1> DEFINE m == Len(pushed)
             n == Len(received)
  <1>1. /\ m \in Nat /\ n \in Nat
        /\ DOMAIN pushed = 1 .. m /\ DOMAIN received = 1 .. n
        /\ incoming \in Arrivals /\ received' = Append(received, incoming)
      BY BodyShows, LenProperties DEF PushInv, OnBody, BodyHandled
  <1>2. /\ received' \in Seq(Arrivals) /\ DOMAIN received' = 1 .. n + 1
        /\ received'[n + 1] = incoming /\ \A i \in 1 .. n : received'[i] = received[i]
      BY <1>1 DEF PushInv
  <1>3. PICK f : Picks(f)
      BY DEF PushInv
  <1> HIDE DEF m, n
  <1>4. /\ f \in [1 .. m -> 1 .. n]
        /\ \A i, j \in 1 .. m : i < j => f[i] < f[j]
        /\ \A l \in 1 .. n : WellFormed(received[l]) => \E i \in 1 .. m : f[i] = l
        /\ \A i \in 1 .. m : /\ received[f[i]] # "short"
                             /\ WellFormed(received[f[i]]) => pushed[i] = received[f[i]]
      BY <1>1, <1>3 DEF Picks
  <1>5. CASE pushed' = pushed /\ ~WellFormed(incoming)
    <2>1. f \in [DOMAIN pushed' -> DOMAIN received']
        BY <1>1, <1>2, <1>4, <1>5
    <2>2. ASSUME NEW l \in DOMAIN received', WellFormed(received'[l])
          PROVE  \E i \in DOMAIN pushed' : f[i] = l
      <3>1. l \in 1 .. n /\ received'[l] = received[l]
          BY <1>1, <1>2, <1>5, <2>2
      <3> QED
          BY <1>1, <1>4, <1>5, <2>2, <3>1
    <2>3. Picks(f)'
        BY <1>1, <1>2, <1>4, <1>5, <2>1, <2>2 DEF Picks
    <2> QED
        BY <1>2, <1>5, <2>3 DEF PushInv, AnyOpcode, Opcodes, Arrivals
  <1>6. ASSUME NEW o \in Shown(k), pushed' = Append(pushed, o)
        PROVE  PushInv'
    <2> DEFINE g == [i \in 1 .. m + 1 |-> IF i <= m THEN f[i] ELSE n + 1]
    <2>1. /\ o \in AnyOpcode /\ incoming # "short"
          /\ WellFormed(incoming) => o = incoming
        BY <1>6, BodyShows DEF OnBody
    <2>2. /\ pushed' \in Seq(AnyOpcode) /\ DOMAIN pushed' = 1 .. m + 1
          /\ pushed'[m + 1] = o /\ \A i \in 1 .. m : pushed'[i] = pushed[i]
        BY <1>6, <2>1, AppendProperties, LenProperties DEF PushInv, m
    <2>3. g[m + 1] = n + 1 /\ \A i \in 1 .. m : g[i] = f[i]
        BY <1>1
    <2>4. g \in [DOMAIN pushed' -> DOMAIN received']
        BY <1>1, <1>2, <1>4, <2>2
    <2> HIDE DEF g
    <2>5. ASSUME NEW i \in 1 .. m + 1, NEW j \in 1 .. m + 1, i < j PROVE g[i] < g[j]
      <3>1. i \in 1 .. m
          BY <1>1, <2>5
      <3>2. CASE j \in 1 .. m
          BY <1>4, <2>3, <2>5, <3>1, <3>2
      <3>3. CASE j = m + 1
        <4>1. g[j] = n + 1 /\ g[i] = f[i] /\ f[i] \in 1 .. n
            BY <1>4, <2>3, <3>1, <3>3
        <4> QED
            BY <1>1, <4>1
      <3> QED
          BY <1>1, <3>2, <3>3
    <2>6. ASSUME NEW l \in DOMAIN received', WellFormed(received'[l])
          PROVE  \E i \in DOMAIN pushed' : g[i] = l
      <3>1. CASE l = n + 1
          BY <1>1, <2>2, <2>3, <3>1
      <3>2. CASE l # n + 1
        <4>1. l \in 1 .. n /\ received'[l] = received[l]
            BY <1>1, <1>2, <3>2
        <4>2. PICK i \in 1 .. m : f[i] = l
            BY <1>4, <2>6, <4>1
        <4> QED
            BY <1>1, <2>2, <2>3, <4>2
      <3> QED
          BY <3>1, <3>2
    <2>7. ASSUME NEW i \in DOMAIN pushed'
          PROVE  /\ received'[g[i]] # "short"
                 /\ WellFormed(received'[g[i]]) => pushed'[i] = received'[g[i]]
      <3>1. CASE i \in 1 .. m
        <4>1. g[i] = f[i] /\ f[i] \in 1 .. n /\ pushed'[i] = pushed[i]
            BY <1>4, <2>2, <2>3, <3>1
        <4> QED
            BY <1>2, <1>4, <3>1, <4>1
      <3>2. CASE i = m + 1
          BY <1>2, <2>1, <2>2, <2>3, <3>2
      <3>3. i \in 1 .. m \/ i = m + 1
          BY <1>1, <2>2
      <3> QED
          BY <3>1, <3>2, <3>3
    <2>8. PICK h : h = g
        OBVIOUS
    <2>9. Picks(h)'
        BY <2>2, <2>4, <2>5, <2>6, <2>7, <2>8 DEF Picks
    <2> QED
        BY <1>2, <2>2, <2>9 DEF PushInv, AnyOpcode, Opcodes, Arrivals
  <1>7. \/ pushed' = pushed /\ ~WellFormed(incoming)
        \/ \E o \in Shown(k) : pushed' = Append(pushed, o)
    <2>1. BodyHandled(k)
        BY DEF OnBody
    <2> QED
        BY <2>1, BodyShows DEF OnBody
  <1> QED
      BY <1>5, <1>6, <1>7

LEMMA StepServer ==
    ASSUME PushInv, InServer(ServerNext)
    PROVE  PushInv'
  <1>1. ASSUME UNCHANGED <<received, pushed>> PROVE PushInv'
      BY <1>1, PushStays
  <1>2. CASE (Reads \/ Writes(holders)) /\ UNCHANGED sessionVars
    <2>1. received' = received
        BY <1>2, WritesLeaveReader
        DEF Reads, HeaderArrives, OnHeader, BodyArrives, ReadFails, readerVars
    <2> QED
        BY <1>1, <1>2, <2>1 DEF sessionVars
  <1>3. ASSUME NEW s \in Senders, TakeEvent(s) \/ LetGo(s) PROVE PushInv'
      BY <1>1, <1>3 DEF TakeEvent, LetGo, halves, readerVars
  <1>4. ASSUME UNCHANGED <<halves, sessionVars>> PROVE PushInv'
      BY <1>1, <1>4 DEF halves, readerVars, sessionVars
  <1>5. CASE AcceptStep
      BY <1>1, <1>4, <1>5 DEF AcceptStep, StartSession, Opened, sessionVars
  <1> QED
      BY <1>2, <1>3, <1>4, <1>5, StepPushed DEF InServer, ServerNext, SessionNext

(* The well-formed packets received are delivered once and in order, by    *)
(* the server to the game loop and by the client to the handlers           *)
(* registered by then, however many others arrive in between, and whatever *)
(* those are taken for.                                                    *)
THEOREM DeliversThePackets == ConnectionSpec => []PacketsDelivered
  <1> DEFINE Inv == role = "server" => PushInv
  <1>1. ConnectionInit => Inv
    <2> SUFFICES ASSUME ConnectionInit PROVE PushInv
        OBVIOUS
    <2>1. received = << >> /\ pushed = << >>
        BY DEF ConnectionInit, ReaderInit, SessionInit
    <2>2. Picks(<< >>)
        BY <2>1 DEF Picks
    <2> QED
        BY <2>1, <2>2 DEF PushInv
  <1>2. Inv /\ [ConnectionNext]_allVars => Inv'
    <2> SUFFICES ASSUME Inv, [ConnectionNext]_allVars PROVE Inv'
        OBVIOUS
    <2>1. CASE InServer(ServerNext)
        BY <2>1, StepServer DEF InServer
    <2>2. CASE InClient(ClientNext)
        BY <2>2 DEF InClient
    <2>3. CASE UNCHANGED allVars
        BY <2>3, PushStays DEF allVars, halves, readerVars, sessionVars
    <2> QED
        BY <2>1, <2>2, <2>3 DEF ConnectionNext
  <1>3. role \in {"server", "client"} /\ [ConnectionNext]_allVars => (role \in {"server", "client"})'
      BY DEF ConnectionNext, InServer, InClient, allVars
  <1>4. ConnectionInit => role \in {"server", "client"}
      BY DEF ConnectionInit
  <1>5. /\ role \in {"server", "client"}
        /\ Inv
        /\ role = "client" => HandlersGetThePackets
        => PacketsDelivered
    <2>1. PushInv => EventsAreThePackets
        BY DEF PushInv, Picks, EventsAreThePackets
    <2> QED
        BY <2>1 DEF PacketsDelivered
  <1> HIDE DEF Inv
  <1> QED
      BY <1>1, <1>2, <1>3, <1>4, <1>5, HandlersCalled, PTL DEF ConnectionSpec

-----------------------------------------------------------------------------
(* Sending *)

WriteStates == {"idle", "push", "pop", "fill", "start"}
Operations == [pos : Nat, stale : BOOLEAN]

WriterTypeOK ==
    /\ pc \in [Writers -> WriteStates]
    /\ packet \in [Writers -> Nat]
    /\ writeQueue_ \in Seq(Nat)
    /\ writes \in Seq(Operations)
    /\ accepted \in Nat /\ sent \in Nat
    /\ Len(writeQueue_) <= accepted
    /\ holders \subseteq Senders

(* The queue holds the last numbers in order; the packets in a writeNext   *)
(* come before them.                                                       *)
PacketsInOrder ==
    /\ \A i \in DOMAIN writeQueue_ : writeQueue_[i] = accepted - Len(writeQueue_) + i
    /\ \A t \in Writers : packet[t] # 0 <=> pc[t] \in {"fill", "start"}
    /\ \A t \in Writers : packet[t] <= accepted - Len(writeQueue_)
    /\ \A t, u \in InWriteNext : t # u => packet[t] # packet[u]

PacketsCounted ==
    accepted = Len(writeQueue_) + Cardinality(InWriteNext) + Cardinality(InFlight) + sent

AccountInv ==
    /\ WriterTypeOK
    /\ PacketsInOrder
    /\ sock # "closed" => PacketsCounted

(* What AccountInv is about. *)
accountVars == <<writeQueue_, pc, packet, writes, accepted, sent>>

-----------------------------------------------------------------------------
(* Counting *)

LEMMA WritersFinite == IsFiniteSet(Writers)
  BY SendersAssumption, FS_Singleton, FS_Union DEF Writers

LEMMA InWriteNextFinite == IsFiniteSet(InWriteNext) /\ Cardinality(InWriteNext) \in Nat
  <1>1. InWriteNext \subseteq Writers
      BY DEF InWriteNext
  <1> QED
      BY <1>1, WritersFinite, FS_Subset, FS_CardinalityType

LEMMA InFlightFinite ==
    ASSUME writes \in Seq(Operations)
    PROVE  IsFiniteSet(InFlight) /\ Cardinality(InFlight) \in Nat
  <1>1. Len(writes) \in Int /\ InFlight \subseteq 1 .. Len(writes)
      BY DEF InFlight
  <1>2. IsFiniteSet(1 .. Len(writes))
      BY <1>1, FS_Interval
  <1> QED
      BY <1>1, <1>2, FS_Subset, FS_CardinalityType

LEMMA SameInWriteNext ==
    ASSUME packet' = packet
    PROVE  InWriteNext' = InWriteNext
  BY DEF InWriteNext

LEMMA SameInFlight ==
    ASSUME writes \in Seq(Operations), writes' \in Seq(Operations),
           Len(writes') = Len(writes),
           \A i \in DOMAIN writes : writes'[i].pos = writes[i].pos
    PROVE  InFlight' = InFlight
  <1>1. DOMAIN writes' = DOMAIN writes
      OBVIOUS
  <1> QED
      BY <1>1 DEF InFlight

LEMMA Removed ==
    ASSUME writes \in Seq(Operations), NEW i \in DOMAIN writes,
           writes' = RemoveAtIndex(writes, i)
    PROVE  /\ writes' \in Seq(Operations)
           /\ Len(writes') = Len(writes) - 1
           /\ \A j \in 1 .. Len(writes) - 1 :
                writes'[j] = IF j < i THEN writes[j] ELSE writes[j + 1]
  <1>1. i \in 1 .. Len(writes) /\ Len(writes) \in Nat
      OBVIOUS
  <1> DEFINE before == SubSeq(writes, 1, i - 1)
             after == SubSeq(writes, i + 1, Len(writes))
  <1>2. /\ before \in Seq(Operations) /\ Len(before) = i - 1
        /\ \A j \in 1 .. i - 1 : before[j] = writes[j]
      BY <1>1
  <1>3. /\ after \in Seq(Operations) /\ Len(after) = Len(writes) - i
        /\ \A j \in 1 .. Len(writes) - i : after[j] = writes[i + j]
      BY <1>1
  <1>4. writes' = before \o after
      BY DEF RemoveAtIndex
  <1> HIDE DEF before, after
  <1>5. /\ writes' \in Seq(Operations) /\ Len(writes') = Len(before) + Len(after)
        /\ \A j \in 1 .. Len(before) + Len(after) :
             writes'[j] = IF j <= Len(before) THEN before[j] ELSE after[j - Len(before)]
    <2>1. before \o after \in Seq(Operations) /\ Len(before \o after) = Len(before) + Len(after)
        BY <1>2, <1>3, ConcatProperties
    <2>2. \A j \in 1 .. Len(before) + Len(after) :
            (before \o after)[j] = IF j <= Len(before) THEN before[j] ELSE after[j - Len(before)]
        BY <1>2, <1>3, ConcatProperties
    <2> QED
        BY <1>4, <2>1, <2>2
  <1>6. ASSUME NEW j \in 1 .. Len(writes) - 1
        PROVE  writes'[j] = IF j < i THEN writes[j] ELSE writes[j + 1]
    <2>1. CASE j < i
      <3>1. /\ j \in 1 .. Len(before) + Len(after) /\ j <= Len(before) /\ j \in 1 .. i - 1
          BY <1>1, <1>2, <1>3, <2>1
      <3>2. writes'[j] = before[j]
          BY <1>5, <3>1
      <3> QED
          BY <1>2, <2>1, <3>1, <3>2
    <2>2. CASE j >= i
      <3>1. j - (i - 1) \in 1 .. Len(writes) - i /\ i + (j - (i - 1)) = j + 1
          BY <1>1, <2>2
      <3>2. /\ Len(before) = i - 1 /\ j \in 1 .. Len(before) + Len(after)
            /\ ~(j <= Len(before))
          BY <1>1, <1>2, <1>3, <2>2
      <3>3. writes'[j] = after[j - Len(before)]
          BY <1>5, <3>2
      <3>4. writes'[j] = after[j - (i - 1)]
          BY <3>2, <3>3
      <3> QED
          BY <1>1, <1>3, <2>2, <3>1, <3>4
    <2> QED
        BY <1>1, <2>1, <2>2
  <1> QED
      BY <1>1, <1>2, <1>3, <1>5, <1>6

(* Removing a write that the transport has taken whole moves the others,   *)
(* and leaves their number.                                                *)
LEMMA DoneNotCounted ==
    ASSUME writes \in Seq(Operations), NEW i \in DOMAIN writes,
           writes[i].pos > Chunks, writes' = RemoveAtIndex(writes, i)
    PROVE  writes' \in Seq(Operations) /\ Cardinality(InFlight') = Cardinality(InFlight)
  <1> DEFINE f == [j \in InFlight |-> IF j < i THEN j ELSE j - 1]
  <1>1. /\ writes' \in Seq(Operations) /\ Len(writes') = Len(writes) - 1
        /\ \A j \in 1 .. Len(writes) - 1 :
             writes'[j] = IF j < i THEN writes[j] ELSE writes[j + 1]
      BY Removed
  <1>2. i \in 1 .. Len(writes) /\ Len(writes) \in Nat /\ i \notin InFlight
    <2>1. writes[i] \in Operations
        OBVIOUS
    <2>2. writes[i].pos \in Nat
        BY <2>1 DEF Operations
    <2>3. ~ (writes[i].pos <= Chunks)
        BY <2>2, ChunksAssumption
    <2> QED
        BY <2>3 DEF InFlight
  <1>3. ASSUME NEW j \in InFlight PROVE f[j] \in InFlight'
    <2>1. j \in 1 .. Len(writes) /\ writes[j].pos <= Chunks /\ j # i
        BY <1>2 DEF InFlight
    <2>2. f[j] \in 1 .. Len(writes) - 1 /\ writes'[f[j]] = writes[j]
        BY <1>1, <1>2, <2>1
    <2>3. f[j] \in DOMAIN writes'
        BY <1>1, <2>2
    <2> QED
        BY <2>1, <2>2, <2>3 DEF InFlight
  <1>4. ASSUME NEW j \in InFlight, NEW k \in InFlight, f[j] = f[k] PROVE j = k
    <2>1. j \in 1 .. Len(writes) /\ k \in 1 .. Len(writes) /\ j # i /\ k # i
        BY <1>2 DEF InFlight
    <2> QED
        BY <1>2, <1>4, <2>1
  <1>5. ASSUME NEW k \in InFlight' PROVE \E j \in InFlight : f[j] = k
    <2>1. k \in 1 .. Len(writes) - 1 /\ writes'[k].pos <= Chunks
        BY <1>1 DEF InFlight
    <2>2. CASE k < i
      <3>1. k \in InFlight /\ f[k] = k
          BY <1>1, <1>2, <2>1, <2>2 DEF InFlight
      <3> QED
          BY <3>1
    <2>3. CASE k >= i
      <3>1. k + 1 \in InFlight
          BY <1>1, <1>2, <2>1, <2>3 DEF InFlight
      <3>2. f[k + 1] = k
          BY <1>2, <2>1, <2>3, <3>1
      <3> QED
          BY <3>1, <3>2
    <2> QED
        BY <1>2, <2>1, <2>2, <2>3
  <1>6. f \in Bijection(InFlight, InFlight')
    <2> HIDE DEF f
    <2>1. f \in [InFlight -> InFlight']
        BY <1>3 DEF f
    <2>2. f \in Injection(InFlight, InFlight')
        BY <1>4, <2>1, Fun_IsInj
    <2>3. f \in Surjection(InFlight, InFlight')
        BY <1>5, <2>1, Fun_IsSurj
    <2> QED
        BY <2>2, <2>3 DEF Bijection
  <1> QED
      BY <1>1, <1>6, InFlightFinite, FS_Bijection DEF ExistsBijection

LEMMA OneMoreInFlight ==
    ASSUME writes \in Seq(Operations),
           writes' = Append(writes, [pos |-> 1, stale |-> FALSE])
    PROVE  /\ writes' \in Seq(Operations) /\ Cardinality(InFlight') = Cardinality(InFlight) + 1
           /\ InFlight' = InFlight \cup {Len(writes) + 1}
           /\ \A j \in InFlight : writes'[j] = writes[j]
           /\ writes'[Len(writes) + 1].pos = 1 /\ ~writes'[Len(writes) + 1].stale
  <1> DEFINE op == [pos |-> 1, stale |-> FALSE]
  <1>1. op \in Operations /\ op.pos = 1 /\ ~op.stale
      BY DEF Operations
  <1> HIDE DEF op
  <1>2. /\ writes' \in Seq(Operations) /\ Len(writes') = Len(writes) + 1
        /\ \A j \in 1 .. Len(writes) : writes'[j] = writes[j]
        /\ writes'[Len(writes) + 1] = op
      BY <1>1 DEF op
  <1>3. Len(writes) + 1 \notin InFlight
      BY DEF InFlight
  <1>4. InFlight' = InFlight \cup {Len(writes) + 1}
    <2>1. DOMAIN writes' = DOMAIN writes \cup {Len(writes) + 1}
        BY <1>2
    <2>2. writes'[Len(writes) + 1].pos <= Chunks
        BY <1>1, <1>2, ChunksAssumption
    <2> QED
        BY <1>2, <2>1, <2>2 DEF InFlight
  <1>5. \A j \in InFlight : writes'[j] = writes[j]
      BY <1>2 DEF InFlight
  <1> QED
      BY <1>1, <1>2, <1>3, <1>4, <1>5, InFlightFinite, FS_AddElement

LEMMA PieceTransmitted ==
    ASSUME writes \in Seq(Operations), NEW i \in DOMAIN writes, writes[i].pos <= Chunks,
           writes' = [writes EXCEPT ![i].pos = @ + 1]
    PROVE  /\ writes' \in Seq(Operations)
           /\ writes[i].pos = Chunks => Cardinality(InFlight') = Cardinality(InFlight) - 1
           /\ writes[i].pos # Chunks => Cardinality(InFlight') = Cardinality(InFlight)
           /\ writes[i].pos \in Nat /\ i \in InFlight
           /\ writes[i].pos = Chunks => InFlight' = InFlight \ {i}
           /\ writes[i].pos # Chunks => InFlight' = InFlight
           /\ writes'[i].pos = writes[i].pos + 1 /\ writes'[i].stale = writes[i].stale
  <1>1. writes[i] \in Operations
      OBVIOUS
  <1>2. writes[i].pos \in Nat /\ [writes[i] EXCEPT !.pos = @ + 1] \in Operations
    <2>1. PICK p \in Nat, b \in BOOLEAN : writes[i] = [pos |-> p, stale |-> b]
        BY <1>1 DEF Operations
    <2>2. [writes[i] EXCEPT !.pos = @ + 1] = [pos |-> p + 1, stale |-> b]
        BY <2>1
    <2> QED
        BY <2>1, <2>2 DEF Operations
  <1>3. writes' = [writes EXCEPT ![i] = [writes[i] EXCEPT !.pos = @ + 1]]
      OBVIOUS
  <1>4. writes' \in Seq(Operations) /\ Len(writes') = Len(writes)
      BY <1>2, <1>3, ExceptSeq
  <1>5. /\ DOMAIN writes' = DOMAIN writes
        /\ writes'[i].pos = writes[i].pos + 1 /\ writes'[i].stale = writes[i].stale
        /\ \A j \in DOMAIN writes : j # i => writes'[j] = writes[j]
      BY <1>1, <1>4 DEF Operations
  <1>6. i \in InFlight
      BY DEF InFlight
  <1>7. ASSUME writes[i].pos = Chunks PROVE InFlight' = InFlight \ {i}
    <2>1. ~ (writes'[i].pos <= Chunks)
        BY <1>2, <1>5, <1>7
    <2> QED
        BY <1>5, <2>1 DEF InFlight
  <1>8. ASSUME writes[i].pos # Chunks PROVE InFlight' = InFlight
    <2>1. writes'[i].pos <= Chunks
        BY <1>2, <1>5, <1>8, ChunksAssumption
    <2> QED
        BY <1>5, <2>1 DEF InFlight
  <1> QED
      BY <1>2, <1>4, <1>5, <1>6, <1>7, <1>8, InFlightFinite, FS_RemoveElement

(* The packet of a thread in writeNext is counted, and is no more when its *)
(* write is started.                                                       *)
LEMMA PacketTaken ==
    ASSUME packet \in [Writers -> Nat], NEW t \in Writers, packet[t] = 0,
           NEW n \in Nat \ {0}, packet' = [packet EXCEPT ![t] = n]
    PROVE  /\ InWriteNext' = InWriteNext \cup {t}
           /\ Cardinality(InWriteNext') = Cardinality(InWriteNext) + 1
  <1>1. InWriteNext' = InWriteNext \cup {t} /\ t \notin InWriteNext
      BY DEF InWriteNext
  <1> QED
      BY <1>1, InWriteNextFinite, FS_AddElement

LEMMA PacketHandedOn ==
    ASSUME packet \in [Writers -> Nat], NEW t \in Writers, packet[t] # 0,
           packet' = [packet EXCEPT ![t] = 0]
    PROVE  /\ InWriteNext' = InWriteNext \ {t}
           /\ Cardinality(InWriteNext') = Cardinality(InWriteNext) - 1
  <1>1. InWriteNext' = InWriteNext \ {t} /\ t \in InWriteNext
      BY DEF InWriteNext
  <1> QED
      BY <1>1, InWriteNextFinite, FS_RemoveElement

-----------------------------------------------------------------------------
(* The steps *)

LEMMA AccountStays ==
    ASSUME AccountInv, UNCHANGED accountVars, holders' \subseteq Senders,
           sock' # "closed" => sock # "closed"
    PROVE  AccountInv'
  <1> USE DEF AccountInv, accountVars
  <1>1. WriterTypeOK' /\ PacketsInOrder'
      BY DEF WriterTypeOK, PacketsInOrder, Operations, Writers, InWriteNext
  <1>2. InWriteNext' = InWriteNext /\ InFlight' = InFlight
      BY DEF InWriteNext, InFlight
  <1>3. PacketsCounted => PacketsCounted'
      BY <1>2 DEF PacketsCounted
  <1> QED
      BY <1>1, <1>3

LEMMA StepReadSize ==
    ASSUME AccountInv, NEW t, ReadSize(t), holders' = holders
    PROVE  AccountInv'
  <1> USE DEF AccountInv, ReadSize, networkVars
  <1>1. WriterTypeOK'
      BY DEF WriterTypeOK, WriteStates, Operations, Writers
  <1>2. PacketsInOrder'
      BY DEF WriterTypeOK, PacketsInOrder, InWriteNext, Writers
  <1>3. InWriteNext' = InWriteNext /\ InFlight' = InFlight
      BY DEF InWriteNext, InFlight
  <1>4. PacketsCounted => PacketsCounted'
      BY <1>3 DEF PacketsCounted
  <1> QED
      BY <1>1, <1>2, <1>4

LEMMA StepPush ==
    ASSUME AccountInv, NEW t \in Writers, PushPacket(t), holders' = holders
    PROVE  AccountInv'
  <1> USE DEF AccountInv, PushPacket, PushThen, networkVars
  <1>1. /\ writeQueue_ \in Seq(Nat) /\ accepted \in Nat /\ Len(writeQueue_) <= accepted
        /\ accepted' = accepted + 1
      BY DEF WriterTypeOK
  <1>2. /\ writeQueue_' \in Seq(Nat) /\ Len(writeQueue_') = Len(writeQueue_) + 1
        /\ \A i \in 1 .. Len(writeQueue_) : writeQueue_'[i] = writeQueue_[i]
        /\ writeQueue_'[Len(writeQueue_) + 1] = accepted + 1
      BY <1>1
  <1>3. /\ pc' \in [Writers -> WriteStates]
        /\ \A u \in Writers : pc'[u] \in {"fill", "start"} <=> pc[u] \in {"fill", "start"}
      BY DEF WriterTypeOK, WriteStates
  <1>4. WriterTypeOK'
      BY <1>1, <1>2, <1>3 DEF WriterTypeOK, Operations, Writers
  <1>5. \A i \in DOMAIN writeQueue_' : writeQueue_'[i] = accepted' - Len(writeQueue_') + i
      BY <1>1, <1>2 DEF PacketsInOrder
  <1>6. PacketsInOrder'
    <2>1. accepted' - Len(writeQueue_') = accepted - Len(writeQueue_)
        BY <1>1, <1>2
    <2> QED
        BY <1>3, <1>5, <2>1 DEF PacketsInOrder, InWriteNext, Writers
  <1>7. InWriteNext' = InWriteNext /\ InFlight' = InFlight
      BY DEF InWriteNext, InFlight
  <1>8. PacketsCounted => PacketsCounted'
      BY <1>1, <1>2, <1>7, InWriteNextFinite, InFlightFinite DEF PacketsCounted, WriterTypeOK
  <1> QED
      BY <1>4, <1>6, <1>8

LEMMA FirstTaken ==
    ASSUME NEW s \in Seq(Nat), s # << >>
    PROVE  /\ Tail(s) \in Seq(Nat) /\ Len(Tail(s)) = Len(s) - 1
           /\ Len(s) \in Nat \ {0}
           /\ \A i \in 1 .. Len(s) - 1 : Tail(s)[i] = s[i + 1]
           /\ Head(s) = s[1] /\ 1 \in DOMAIN s
  OBVIOUS

LEMMA StepPop ==
    ASSUME AccountInv, NEW t \in Writers, PopPacket(t), holders' = holders
    PROVE  AccountInv'
  <1> USE DEF AccountInv, PopPacket, networkVars, senderVars
  <1>1. CASE writeQueue_ = << >>
    <2>1. WriterTypeOK'
        BY <1>1 DEF WriterTypeOK, WriteStates, Operations, Writers
    <2>2. PacketsInOrder'
        BY <1>1 DEF WriterTypeOK, PacketsInOrder, InWriteNext, Writers
    <2>3. InWriteNext' = InWriteNext /\ InFlight' = InFlight
        BY <1>1 DEF InWriteNext, InFlight
    <2>4. PacketsCounted => PacketsCounted'
        BY <1>1, <2>3 DEF PacketsCounted
    <2> QED
        BY <2>1, <2>2, <2>4
  <1>2. CASE writeQueue_ # << >>
    <2> DEFINE n == Head(writeQueue_)
    <2>1. /\ writeQueue_ \in Seq(Nat) /\ accepted \in Nat /\ Len(writeQueue_) <= accepted
          /\ accepted' = accepted
        BY DEF WriterTypeOK
    <2>2. /\ writeQueue_' \in Seq(Nat) /\ Len(writeQueue_') = Len(writeQueue_) - 1
          /\ Len(writeQueue_) \in Nat \ {0}
          /\ \A i \in 1 .. Len(writeQueue_) - 1 : writeQueue_'[i] = writeQueue_[i + 1]
          /\ n = writeQueue_[1] /\ 1 \in DOMAIN writeQueue_
        BY <1>2, <2>1, FirstTaken
    <2>3. n = accepted - Len(writeQueue_) + 1 /\ n \in Nat \ {0}
      <3> HIDE DEF n, PopPacket
      <3>1. writeQueue_[1] = accepted - Len(writeQueue_) + 1
          BY <2>2 DEF PacketsInOrder
      <3> QED
          BY <2>1, <2>2, <3>1
    <2>4. /\ packet' = [packet EXCEPT ![t] = n] /\ packet[t] = 0
          /\ pc' = [pc EXCEPT ![t] = "fill"]
        BY <1>2 DEF PacketsInOrder
    <2> HIDE DEF n
    <2>5. /\ pc' \in [Writers -> WriteStates] /\ pc'[t] = "fill"
          /\ packet' \in [Writers -> Nat] /\ packet'[t] = n
          /\ \A u \in Writers : u # t => pc'[u] = pc[u] /\ packet'[u] = packet[u]
        BY <2>3, <2>4 DEF WriterTypeOK, WriteStates
    <2>6. /\ InWriteNext' = InWriteNext \cup {t}
          /\ Cardinality(InWriteNext') = Cardinality(InWriteNext) + 1
        BY <2>3, <2>4, PacketTaken DEF WriterTypeOK
    <2>7. WriterTypeOK'
        BY <2>1, <2>2, <2>5 DEF WriterTypeOK, Operations, Writers
    <2>8. PacketsInOrder'
      <3>1. \A i \in DOMAIN writeQueue_' :
              writeQueue_'[i] = accepted' - Len(writeQueue_') + i
        <4> HIDE DEF PopPacket
        <4>1. ASSUME NEW i \in 1 .. Len(writeQueue_) - 1
              PROVE  writeQueue_[i + 1] = accepted - Len(writeQueue_) + (i + 1)
          <5>1. i + 1 \in DOMAIN writeQueue_
              BY <2>1, <2>2
          <5> QED
              BY <5>1 DEF PacketsInOrder
        <4>2. ASSUME NEW i \in 1 .. Len(writeQueue_) - 1
              PROVE  writeQueue_'[i] = accepted' - Len(writeQueue_') + i
          <5>1. writeQueue_'[i] = writeQueue_[i + 1]
              BY <2>2
          <5>2. accepted' - Len(writeQueue_') + i = accepted - Len(writeQueue_) + (i + 1)
              BY <2>1, <2>2
          <5> QED
              BY <4>1, <5>1, <5>2
        <4>3. DOMAIN writeQueue_' = 1 .. Len(writeQueue_) - 1
            BY <2>2
        <4> QED
            BY <4>2, <4>3
      <3>2. \A u \in Writers : packet'[u] # 0 <=> pc'[u] \in {"fill", "start"}
          BY <2>3, <2>5 DEF PacketsInOrder
      <3>3. \A u \in Writers : u # t => packet'[u] < n /\ packet'[u] \in Nat
          BY <2>1, <2>2, <2>3, <2>5 DEF PacketsInOrder, WriterTypeOK
      <3>4. \A u \in Writers : packet'[u] <= accepted' - Len(writeQueue_')
          BY <2>1, <2>2, <2>3, <2>5, <3>3
      <3>5. \A u, v \in InWriteNext' : u # v => packet'[u] # packet'[v]
        <4>1. ASSUME NEW u \in InWriteNext, NEW v \in InWriteNext, u # v, u # t, v # t
              PROVE  packet'[u] # packet'[v]
            BY <4>1, <2>5 DEF PacketsInOrder, InWriteNext
        <4>2. InWriteNext \subseteq Writers
            BY DEF InWriteNext
        <4> QED
            BY <2>3, <2>5, <2>6, <3>3, <4>1, <4>2
      <3> QED
          BY <3>1, <3>2, <3>4, <3>5 DEF PacketsInOrder, Writers
    <2>9. InFlight' = InFlight
        BY DEF InFlight
    <2>10. PacketsCounted => PacketsCounted'
        BY <2>1, <2>2, <2>6, <2>9, InWriteNextFinite, InFlightFinite
        DEF PacketsCounted, WriterTypeOK
    <2> QED
        BY <2>7, <2>8, <2>10
  <1> QED
      BY <1>1, <1>2

LEMMA BecomesStale ==
    ASSUME NEW op \in Operations
    PROVE  [op EXCEPT !.stale = TRUE] \in Operations /\ [op EXCEPT !.stale = TRUE].pos = op.pos
  BY DEF Operations

LEMMA Restaled ==
    ASSUME writes \in Seq(Operations),
           writes' \in {writes, [i \in DOMAIN writes |-> [writes[i] EXCEPT !.stale = TRUE]]}
    PROVE  /\ writes' \in Seq(Operations) /\ Len(writes') = Len(writes)
           /\ \A i \in DOMAIN writes : writes'[i].pos = writes[i].pos
  <1>1. CASE writes' = writes
      BY <1>1
  <1>2. CASE writes' = [i \in DOMAIN writes |-> [writes[i] EXCEPT !.stale = TRUE]]
    <2>1. ASSUME NEW i \in DOMAIN writes
          PROVE  writes'[i] \in Operations /\ writes'[i].pos = writes[i].pos
      <3>1. writes[i] \in Operations
          OBVIOUS
      <3>2. writes'[i] = [writes[i] EXCEPT !.stale = TRUE]
          BY <1>2
      <3> QED
          BY <3>1, <3>2, BecomesStale
    <2>2. DOMAIN writes' = 1 .. Len(writes) /\ Len(writes) \in Nat
        BY <1>2
    <2>3. writes' \in [1 .. Len(writes) -> Operations]
        BY <1>2, <2>1, <2>2
    <2> QED
        BY <2>1, <2>2, <2>3, SeqDef
  <1> QED
      BY <1>1, <1>2

LEMMA StepFill ==
    ASSUME AccountInv, NEW t \in Writers, FillBuffer(t), holders' = holders
    PROVE  AccountInv'
  <1> USE DEF AccountInv, FillBuffer, networkVars, senderVars
  <1>1. /\ pc' \in [Writers -> WriteStates]
        /\ \A u \in Writers : pc'[u] \in {"fill", "start"} <=> pc[u] \in {"fill", "start"}
      BY DEF WriterTypeOK, WriteStates
  <1>2. writes \in Seq(Operations)
      BY DEF WriterTypeOK
  <1>3. /\ writes' \in Seq(Operations) /\ Len(writes') = Len(writes)
        /\ \A i \in DOMAIN writes : writes'[i].pos = writes[i].pos
      BY <1>2, Restaled
  <1>4. WriterTypeOK'
      BY <1>1, <1>3 DEF WriterTypeOK, Writers
  <1>5. PacketsInOrder'
      BY <1>1 DEF PacketsInOrder, InWriteNext, Writers
  <1>6. InFlight' = InFlight /\ InWriteNext' = InWriteNext
      BY <1>2, <1>3, SameInFlight, SameInWriteNext
  <1>7. PacketsCounted => PacketsCounted'
      BY <1>6 DEF PacketsCounted
  <1> QED
      BY <1>4, <1>5, <1>7

LEMMA StepStart ==
    ASSUME AccountInv, NEW t \in Writers, StartWrite(t), holders' = holders
    PROVE  AccountInv'
  <1> USE DEF AccountInv, StartWrite, networkVars, senderVars
  <1>1. /\ packet \in [Writers -> Nat] /\ packet[t] # 0
        /\ packet' = [packet EXCEPT ![t] = 0]
      BY DEF WriterTypeOK, PacketsInOrder
  <1>2. /\ pc' \in [Writers -> WriteStates] /\ pc'[t] = "idle"
        /\ packet' \in [Writers -> Nat] /\ packet'[t] = 0
        /\ \A u \in Writers : u # t => pc'[u] = pc[u] /\ packet'[u] = packet[u]
      BY <1>1 DEF WriterTypeOK, WriteStates
  <1>3. /\ InWriteNext' = InWriteNext \ {t}
        /\ Cardinality(InWriteNext') = Cardinality(InWriteNext) - 1
      BY <1>1, PacketHandedOn
  <1>4. /\ writes' \in Seq(Operations)
        /\ Cardinality(InFlight') = Cardinality(InFlight) + 1
      BY OneMoreInFlight DEF WriterTypeOK
  <1>5. WriterTypeOK'
      BY <1>2, <1>4 DEF WriterTypeOK, Writers
  <1>6. PacketsInOrder'
    <2>1. \A u \in Writers : packet'[u] # 0 <=> pc'[u] \in {"fill", "start"}
        BY <1>2 DEF PacketsInOrder
    <2>2. \A u \in Writers : packet'[u] <= accepted - Len(writeQueue_)
        BY <1>2 DEF PacketsInOrder, WriterTypeOK
    <2>3. \A u, v \in InWriteNext' : u # v => packet'[u] # packet'[v]
        BY <1>2, <1>3 DEF PacketsInOrder, InWriteNext
    <2> QED
        BY <2>1, <2>2, <2>3 DEF PacketsInOrder, Writers
  <1>7. PacketsCounted => PacketsCounted'
      BY <1>3, <1>4, InWriteNextFinite, InFlightFinite DEF PacketsCounted, WriterTypeOK
  <1> QED
      BY <1>5, <1>6, <1>7

LEMMA StepTransmit ==
    ASSUME AccountInv, NEW i \in DOMAIN writes, Transmit(i), holders' = holders
    PROVE  AccountInv'
  <1> USE DEF AccountInv, Transmit, senderVars
  <1>1. writes \in Seq(Operations) /\ sent \in Nat
      BY DEF WriterTypeOK
  <1>2. /\ writes' \in Seq(Operations)
        /\ writes[i].pos = Chunks => Cardinality(InFlight') = Cardinality(InFlight) - 1
        /\ writes[i].pos # Chunks => Cardinality(InFlight') = Cardinality(InFlight)
      BY <1>1, PieceTransmitted
  <1>3. InWriteNext' = InWriteNext
      BY SameInWriteNext
  <1>4. WriterTypeOK'
      BY <1>1, <1>2 DEF WriterTypeOK, Writers
  <1>5. PacketsInOrder'
      BY DEF PacketsInOrder, InWriteNext, Writers
  <1>6. PacketsCounted => PacketsCounted'
      BY <1>1, <1>2, <1>3, InWriteNextFinite, InFlightFinite DEF PacketsCounted, WriterTypeOK
  <1> QED
      BY <1>4, <1>5, <1>6

LEMMA StepWriteDone ==
    ASSUME AccountInv, NEW i \in DOMAIN writes, WriteDone(i), holders' = holders
    PROVE  AccountInv'
  <1> USE DEF AccountInv, WriteDone, IoFree, networkVars, senderVars
  <1>1. /\ writes' \in Seq(Operations)
        /\ Cardinality(InFlight') = Cardinality(InFlight)
      BY DoneNotCounted DEF WriterTypeOK
  <1>2. /\ pc' \in [Writers -> WriteStates]
        /\ \A u \in Writers : pc'[u] \in {"fill", "start"} <=> pc[u] \in {"fill", "start"}
      BY DEF WriterTypeOK, WriteStates, Writers
  <1>3. WriterTypeOK'
      BY <1>1, <1>2 DEF WriterTypeOK, Writers
  <1>4. PacketsInOrder'
      BY <1>2 DEF PacketsInOrder, InWriteNext, Writers
  <1>5. PacketsCounted => PacketsCounted'
      BY <1>1, SameInWriteNext DEF PacketsCounted
  <1> QED
      BY <1>3, <1>4, <1>5

(* The packet is lost, and the socket is closed. *)
LEMMA StepWriteFailed ==
    ASSUME AccountInv, NEW i \in DOMAIN writes, WriteFailed(i), holders' = holders
    PROVE  AccountInv'
  <1> USE DEF AccountInv, WriteFailed, WriteError, networkVars, senderVars
  <1>1. writes' \in Seq(Operations)
      BY Removed DEF WriterTypeOK
  <1>2. WriterTypeOK' /\ PacketsInOrder'
      BY <1>1 DEF WriterTypeOK, PacketsInOrder, InWriteNext, Writers
  <1> QED
      BY <1>2

LEMMA StepWrites ==
    ASSUME AccountInv, NEW callers, Writes(callers), holders' = holders
    PROVE  AccountInv'
  <1>1. CASE Break
      BY <1>1, AccountStays DEF Break, writerVars, senderVars, networkVars, accountVars,
                                AccountInv, WriterTypeOK
  <1> QED
      BY <1>1, StepReadSize, StepPush, StepPop, StepFill, StepStart, StepTransmit,
         StepWriteDone, StepWriteFailed
      DEF Writes, Completes, WriteNextStep

(* Every other step leaves what is sent alone, and opens no closed socket. *)
LEMMA OtherSteps ==
    ASSUME UNCHANGED vars \/ ReaderCloses \/ Opened
    PROVE  UNCHANGED accountVars /\ (sock' # "closed" => sock # "closed")
  BY DEF vars, writerVars, senderVars, networkVars, accountVars, ReaderCloses, Opened

LEMMA ReadsWriteNothing ==
    ASSUME Reads
    PROVE  UNCHANGED accountVars /\ (sock' # "closed" => sock # "closed")
  BY OtherSteps DEF Reads, HeaderArrives, OnHeader, BodyArrives, ReadFails

LEMMA StepAccount == AccountInv /\ [ConnectionNext]_allVars => AccountInv'
  <1> SUFFICES ASSUME AccountInv, [ConnectionNext]_allVars PROVE AccountInv'
      OBVIOUS
  <1>1. holders \subseteq Senders
      BY DEF AccountInv, WriterTypeOK
  <1>2. ASSUME UNCHANGED accountVars, sock' # "closed" => sock # "closed",
               holders' \subseteq Senders
        PROVE  AccountInv'
      BY <1>2, AccountStays
  <1>3. CASE InServer(ServerNext)
    <2>1. ASSUME (Reads \/ Writes(holders)) /\ UNCHANGED sessionVars PROVE AccountInv'
        BY <1>1, <1>2, <2>1, ReadsWriteNothing, StepWrites DEF sessionVars
    <2>2. ASSUME NEW k \in Bodies, OnBody(k) PROVE AccountInv'
        BY <1>1, <1>2, <2>2, OtherSteps DEF OnBody
    <2>3. ASSUME NEW s \in Senders, TakeEvent(s) \/ LetGo(s) PROVE AccountInv'
        BY <1>1, <1>2, <2>3, OtherSteps DEF TakeEvent, LetGo, halves
    <2>4. ASSUME UNCHANGED <<halves, sessionVars>> PROVE AccountInv'
        BY <1>1, <1>2, <2>4, OtherSteps DEF halves, sessionVars
    <2>5. CASE AcceptStep
        BY <1>1, <1>2, <2>5, OtherSteps DEF AcceptStep, StartSession, halves, sessionVars
    <2> QED
        BY <1>3, <2>1, <2>2, <2>3, <2>4, <2>5 DEF InServer, ServerNext, SessionNext
  <1>4. CASE InClient(ClientNext)
    <2>1. holders' = holders
        BY <1>4 DEF InClient, sessionVars
    <2>2. CASE Reads \/ Writes(Senders \cup {t \in {Io} : busy})
        BY <1>1, <1>2, <2>1, <2>2, ReadsWriteNothing, StepWrites
    <2>3. CASE Connected \/ ConnectFails
        BY <1>1, <1>2, <2>1, <2>3, OtherSteps DEF Connected, ConnectFails, halves
    <2>4. CASE HandlerReturns \/ HandlerThrows
        BY <1>1, <1>2, <2>1, <2>4
        DEF HandlerReturns, HandlerThrows, HandlerLeaves, accountVars, networkVars
    <2>5. ASSUME NEW k \in Bodies, Dispatch(k) PROVE AccountInv'
        BY <1>1, <1>2, <2>1, <2>5, OtherSteps DEF Dispatch, accountVars, networkVars
    <2>6. ASSUME NEW o \in Opcodes, RegisterHandler(o) PROVE AccountInv'
        BY <1>1, <1>2, <2>1, <2>6, OtherSteps DEF RegisterHandler, halves
    <2> QED
        BY <1>4, <2>2, <2>3, <2>4, <2>5, <2>6 DEF InClient, ClientNext
  <1>5. CASE UNCHANGED allVars
      BY <1>1, <1>2, <1>5, OtherSteps DEF allVars, halves, sessionVars
  <1> QED
      BY <1>3, <1>4, <1>5 DEF ConnectionNext

LEMMA InitAccount == ConnectionInit => AccountInv
  <1> SUFFICES ASSUME ConnectionInit PROVE AccountInv
      OBVIOUS
  <1> USE DEF ConnectionInit, ReaderInit, WriterInit, SessionInit
  <1>1. WriterTypeOK
    <2>1. pc \in [Writers -> WriteStates] /\ packet \in [Writers -> Nat]
        BY DEF WriteStates
    <2>2. writeQueue_ \in Seq(Nat) /\ writes \in Seq(Operations) /\ Len(writeQueue_) = 0
        OBVIOUS
    <2> QED
        BY <2>1, <2>2 DEF WriterTypeOK
  <1>2. InWriteNext = {} /\ InFlight = {}
      BY DEF InWriteNext, InFlight
  <1>3. PacketsInOrder
      BY <1>2 DEF PacketsInOrder
  <1>4. PacketsCounted
    <2>1. Cardinality(InWriteNext) = 0 /\ Cardinality(InFlight) = 0
        BY <1>2, FS_EmptySet
    <2>2. Len(writeQueue_) = 0 /\ accepted = 0 /\ sent = 0
        OBVIOUS
    <2> QED
        BY <2>1, <2>2 DEF PacketsCounted
  <1> QED
      BY <1>1, <1>3, <1>4 DEF AccountInv

(* Every packet accepted is queued, in a writeNext, in a write or sent,    *)
(* each in one place, until the socket is closed.                          *)
THEOREM PacketsNotLost == ConnectionSpec => []PacketsAccountedFor
  <1>1. AccountInv => PacketsAccountedFor
      BY DEF AccountInv, PacketsInOrder, PacketsCounted, PacketsAccountedFor
  <1> QED
      BY <1>1, InitAccount, StepAccount, PTL DEF ConnectionSpec

-----------------------------------------------------------------------------
(* The place of a piece in its message *)

LEMMA Remainder ==
    ASSUME NEW n \in Nat
    PROVE  /\ n \div Chunks \in Nat /\ n % Chunks \in 0 .. Chunks - 1
           /\ n = Chunks * (n \div Chunks) + (n % Chunks)
  BY ChunksAssumption, SMTT(30)

LEMMA NextMultiple ==
    ASSUME NEW q \in Nat, NEW p \in Nat, q < p
    PROVE  Chunks * q + Chunks <= Chunks * p
  <1>1. p - q - 1 \in Nat /\ p = q + 1 + (p - q - 1)
      OBVIOUS
  <1>2. PICK d \in Nat : p = q + 1 + d
      BY <1>1
  <1>3. Chunks * p = Chunks * q + Chunks + Chunks * d
      BY <1>2, ChunksAssumption
  <1>4. Chunks * d \in Nat /\ Chunks * q \in Nat
      BY ChunksAssumption
  <1> QED
      BY <1>3, <1>4, ChunksAssumption

LEMMA RemainderUnique ==
    ASSUME NEW n \in Nat, NEW q \in Nat, NEW r \in 0 .. Chunks - 1, n = Chunks * q + r
    PROVE  n % Chunks = r
  <1> DEFINE p == n \div Chunks
             s == n % Chunks
  <1>1. p \in Nat /\ s \in 0 .. Chunks - 1 /\ n = Chunks * p + s
      BY Remainder
  <1> HIDE DEF p, s
  <1>2. Chunks * p \in Nat /\ Chunks * q \in Nat
      BY <1>1, ChunksAssumption
  <1>3. ~ (p < q) /\ ~ (q < p)
      BY <1>1, <1>2, NextMultiple, ChunksAssumption
  <1>4. p = q
      BY <1>1, <1>3
  <1>5. s = r
      BY <1>1, <1>2, <1>4, ChunksAssumption
  <1> QED
      BY <1>5 DEF s

LEMMA NextRemainder ==
    ASSUME NEW n \in Nat
    PROVE  /\ n % Chunks = Chunks - 1 => (n + 1) % Chunks = 0
           /\ n % Chunks # Chunks - 1 => (n + 1) % Chunks = (n % Chunks) + 1
  <1> DEFINE p == n \div Chunks
             s == n % Chunks
  <1>1. p \in Nat /\ s \in 0 .. Chunks - 1 /\ n = Chunks * p + s
      BY Remainder
  <1> HIDE DEF p, s
  <1>2. CASE s = Chunks - 1
    <2>1. n + 1 = Chunks * (p + 1) + 0 /\ 0 \in 0 .. Chunks - 1 /\ p + 1 \in Nat
        BY <1>1, <1>2, ChunksAssumption
    <2>2. (n + 1) % Chunks = 0
        BY <2>1, RemainderUnique
    <2> QED
        BY <1>2, <2>2 DEF s
  <1>3. CASE s # Chunks - 1
    <2>1. n + 1 = Chunks * p + (s + 1) /\ s + 1 \in 0 .. Chunks - 1
        BY <1>1, <1>3, ChunksAssumption
    <2>2. (n + 1) % Chunks = s + 1
        BY <1>1, <2>1, RemainderUnique
    <2> QED
        BY <1>3, <2>2 DEF s
  <1> QED
      BY <1>2, <1>3

(* After n pieces a message begins if and only if n is whole messages.     *)
LEMMA MessageBegins ==
    ASSUME NEW n \in Nat
    PROVE  (n + 1) % Chunks = 1 % Chunks <=> n % Chunks = 0
  <1>1. n % Chunks \in 0 .. Chunks - 1
      BY Remainder
  <1>2. CASE Chunks = 1
    <2>1. n % Chunks = 0 /\ (n + 1) % Chunks = 0 /\ 1 % Chunks = 0
        BY <1>2, Remainder
    <2> QED
        BY <2>1
  <1>3. CASE Chunks > 1
    <2>1. 1 % Chunks = 1 /\ Chunks - 1 # 0
      <3>1. 1 = Chunks * 0 + 1 /\ 1 \in 0 .. Chunks - 1 /\ Chunks - 1 # 0
          BY <1>3, ChunksAssumption
      <3> QED
          BY <3>1, RemainderUnique
    <2>2. CASE n % Chunks = Chunks - 1
      <3>1. (n + 1) % Chunks = 0
          BY <2>2, NextRemainder
      <3>2. (n + 1) % Chunks # 1 % Chunks
          BY <2>1, <3>1, 0 # 1, Zenon
      <3>3. n % Chunks # 0
          BY <2>1, <2>2, Zenon
      <3> QED
          BY <3>2, <3>3, Zenon
    <2>3. CASE n % Chunks # Chunks - 1
      <3>1. (n + 1) % Chunks = (n % Chunks) + 1
          BY <2>3, NextRemainder
      <3>2. n % Chunks \in Nat
          BY <1>1, ChunksAssumption
      <3> QED
          BY <2>1, <2>3, <3>1, <3>2
    <2> QED
        BY <2>2, <2>3
  <1> QED
      BY <1>2, <1>3, ChunksAssumption

-----------------------------------------------------------------------------
(* The stream *)

StreamTypeOK == finalWriteBuffer_ \in Nat /\ wire \in Seq(Nat \X Nat)

(* Packets that have left the queue.                                       *)
Popped == accepted - Len(writeQueue_)

(* At most one thread has filled the buffer, and then no write is in       *)
(* flight; ...                                                             *)
OneFills ==
    /\ \A t, u \in Writers : pc[t] = "start" /\ pc[u] = "start" => t = u
    /\ \A t \in Writers : pc[t] = "start" => InFlight = {} /\ finalWriteBuffer_ = packet[t]

(* ... at most one is, which reads the buffer as it was filled, with a     *)
(* packet no thread holds any more.                                        *)
OneInFlight ==
    /\ \A i, j \in InFlight : i = j
    /\ \A i \in InFlight :
          /\ ~writes[i].stale /\ writes[i].pos >= 1
          /\ finalWriteBuffer_ # Mixed /\ finalWriteBuffer_ <= Popped
          /\ \A t \in Writers : packet[t] # finalWriteBuffer_

(* The packets on the wire are not those that are yet to begin.            *)
FreshAhead ==
    \A k \in DOMAIN wire :
        /\ wire[k][1] <= Popped
        /\ \A t \in Writers : packet[t] # 0 => packet[t] # wire[k][1]
        /\ \A i \in InFlight : writes[i].pos = 1 => wire[k][1] # finalWriteBuffer_

(* The wire ends where the write in flight has got to.                     *)
Aligned ==
    sock \in {"open", "unconnected"} =>
        /\ InFlight = {} => Len(wire) % Chunks = 0
        /\ \A i \in InFlight :
              /\ Len(wire) % Chunks = writes[i].pos - 1
              /\ writes[i].pos > 1 =>
                    wire[Len(wire)] = <<finalWriteBuffer_, writes[i].pos - 1>>

StreamSound == OneFills /\ OneInFlight /\ FreshAhead /\ Aligned /\ StreamIntact

StreamInv == AccountInv /\ StreamTypeOK /\ (~overlapped => StreamSound)

(* What StreamInv is about. *)
streamVars == <<accountVars, bufferVars, networkVars>>

(* A step of a connection is one of its sending half, or leaves it alone   *)
(* and opens no broken or closed socket.                                   *)
LEMMA StepKinds ==
    ASSUME ConnectionNext \/ UNCHANGED allVars
    PROVE  \/ \E callers : Writes(callers)
           \/ /\ UNCHANGED streamVars
              /\ sock' \in {"open", "unconnected"} => sock \in {"open", "unconnected"}
  <1> DEFINE Leaves == /\ UNCHANGED streamVars
                       /\ sock' \in {"open", "unconnected"} => sock \in {"open", "unconnected"}
  <1>1. ASSUME UNCHANGED vars \/ ReaderCloses \/ Opened PROVE Leaves
      BY <1>1 DEF vars, writerVars, senderVars, streamVars, accountVars, networkVars, bufferVars,
                  ReaderCloses, Opened
  <1>2. ASSUME UNCHANGED halves PROVE Leaves
      BY <1>1, <1>2 DEF halves
  <1>3. ASSUME Reads PROVE Leaves
      BY <1>1, <1>3 DEF Reads, HeaderArrives, OnHeader, BodyArrives, ReadFails
  <1>4. CASE InServer(ServerNext)
    <2>1. ASSUME NEW k \in Bodies, OnBody(k) PROVE Leaves
        BY <1>1, <2>1 DEF OnBody
    <2>2. ASSUME NEW s \in Senders, TakeEvent(s) \/ LetGo(s) PROVE Leaves
        BY <1>2, <2>2 DEF TakeEvent, LetGo
    <2>3. CASE AcceptStep
        BY <1>1, <1>2, <2>3 DEF AcceptStep, StartSession
    <2> QED
        BY <1>2, <1>3, <1>4, <2>1, <2>2, <2>3 DEF InServer, ServerNext, SessionNext
  <1>5. CASE InClient(ClientNext)
    <2>1. ASSUME Connected \/ ConnectFails PROVE Leaves
        BY <1>1, <1>2, <2>1 DEF Connected, ConnectFails
    <2>2. ASSUME HandlerReturns \/ HandlerThrows PROVE Leaves
        BY <2>2 DEF HandlerReturns, HandlerThrows, HandlerLeaves, streamVars, accountVars,
                    networkVars, bufferVars
    <2>3. ASSUME NEW k \in Bodies, Dispatch(k) PROVE Leaves
        BY <1>1, <2>3 DEF Dispatch, streamVars, accountVars, networkVars, bufferVars
    <2>4. ASSUME NEW o \in Opcodes, RegisterHandler(o) PROVE Leaves
        BY <1>2, <2>4 DEF RegisterHandler
    <2> QED
        BY <1>3, <1>5, <2>1, <2>2, <2>3, <2>4 DEF InClient, ClientNext
  <1>6. CASE UNCHANGED allVars
      BY <1>2, <1>6 DEF allVars
  <1> QED
      BY <1>4, <1>5, <1>6 DEF ConnectionNext

LEMMA SameStream ==
    ASSUME wire' = wire, StreamIntact
    PROVE  StreamIntact'
  BY DEF StreamIntact

LEMMA StreamStays ==
    ASSUME StreamInv, UNCHANGED streamVars, AccountInv',
           sock' \in {"open", "unconnected"} => sock \in {"open", "unconnected"}
    PROVE  StreamInv'
  <1> USE DEF streamVars, accountVars, bufferVars, networkVars
  <1>1. InFlight' = InFlight /\ Popped' = Popped
      BY DEF InFlight, Popped
  <1>2. StreamTypeOK'
      BY DEF StreamInv, StreamTypeOK
  <1>3. ASSUME StreamSound PROVE StreamSound'
    <2>1. OneFills' /\ OneInFlight' /\ FreshAhead'
        BY <1>1, <1>3 DEF StreamSound, OneFills, OneInFlight, FreshAhead, Writers
    <2>2. Aligned'
        BY <1>1, <1>3 DEF StreamSound, Aligned
    <2>3. StreamIntact'
        BY <1>3, SameStream DEF StreamSound
    <2> QED
        BY <2>1, <2>2, <2>3 DEF StreamSound
  <1> QED
      BY <1>2, <1>3 DEF StreamInv

-----------------------------------------------------------------------------
(* Callers *)

LEMMA StreamReadSize ==
    ASSUME StreamInv, NEW t, ReadSize(t), AccountInv'
    PROVE  StreamInv'
  <1> USE DEF ReadSize, bufferVars, networkVars
  <1>1. InFlight' = InFlight /\ Popped' = Popped
      BY DEF InFlight, Popped
  <1>2. \A u \in Writers : pc'[u] = "start" => pc[u] = "start"
      BY DEF StreamInv, AccountInv, WriterTypeOK
  <1>3. ASSUME StreamSound PROVE StreamSound'
    <2>1. OneFills' /\ OneInFlight' /\ FreshAhead'
        BY <1>1, <1>2, <1>3 DEF StreamSound, OneFills, OneInFlight, FreshAhead, Writers
    <2>2. Aligned' /\ StreamIntact'
        BY <1>1, <1>3, SameStream DEF StreamSound, Aligned
    <2> QED
        BY <2>1, <2>2 DEF StreamSound
  <1> QED
      BY <1>3 DEF StreamInv, StreamTypeOK

LEMMA StreamPush ==
    ASSUME StreamInv, NEW t \in Writers, PushPacket(t), AccountInv'
    PROVE  StreamInv'
  <1> USE DEF PushPacket, PushThen, bufferVars, networkVars
  <1>1. InFlight' = InFlight
      BY DEF InFlight
  <1>2. Popped' = Popped
      BY DEF Popped, StreamInv, AccountInv, WriterTypeOK
  <1>3. \A u \in Writers : pc'[u] = "start" => pc[u] = "start"
      BY DEF StreamInv, AccountInv, WriterTypeOK
  <1>4. ASSUME StreamSound PROVE StreamSound'
    <2>1. OneFills' /\ OneInFlight' /\ FreshAhead'
        BY <1>1, <1>2, <1>3, <1>4 DEF StreamSound, OneFills, OneInFlight, FreshAhead, Writers
    <2>2. Aligned' /\ StreamIntact'
        BY <1>1, <1>4, SameStream DEF StreamSound, Aligned
    <2> QED
        BY <2>1, <2>2 DEF StreamSound
  <1> QED
      BY <1>4 DEF StreamInv, StreamTypeOK

-----------------------------------------------------------------------------
(* writeNext *)

(* The packet popped is above all that were popped before it.              *)
LEMMA StreamPop ==
    ASSUME StreamInv, NEW t \in Writers, PopPacket(t), AccountInv'
    PROVE  StreamInv'
  <1> USE DEF PopPacket, bufferVars, networkVars
  <1>1. InFlight' = InFlight
      BY DEF InFlight
  <1>2. \A u \in Writers : pc'[u] = "start" <=> pc[u] = "start" /\ u # t
      BY DEF StreamInv, AccountInv, WriterTypeOK
  <1>3. /\ Popped \in Nat /\ Popped' \in Nat /\ Popped <= Popped'
        /\ packet' \in {packet, [packet EXCEPT ![t] = Popped + 1]}
    <2>1. /\ writeQueue_ \in Seq(Nat) /\ accepted \in Nat /\ Len(writeQueue_) <= accepted
          /\ accepted' = accepted /\ t \in DOMAIN packet
        BY DEF StreamInv, AccountInv, WriterTypeOK, senderVars
    <2>2. CASE writeQueue_ = << >>
      <3>1. writeQueue_' = writeQueue_ /\ packet' = packet
          BY <2>2
      <3> QED
          BY <2>1, <3>1 DEF Popped
    <2>3. CASE writeQueue_ # << >>
      <3>1. /\ Len(writeQueue_') = Len(writeQueue_) - 1 /\ Len(writeQueue_) \in Nat \ {0}
            /\ Head(writeQueue_) = writeQueue_[1] /\ 1 \in DOMAIN writeQueue_
          BY <2>1, <2>3, FirstTaken
      <3>2. writeQueue_[1] = Popped + 1
        <4> HIDE DEF PopPacket
        <4>1. writeQueue_[1] = accepted - Len(writeQueue_) + 1
            BY <3>1 DEF StreamInv, AccountInv, PacketsInOrder
        <4> QED
            BY <4>1 DEF Popped
      <3> QED
          BY <2>1, <2>3, <3>1, <3>2 DEF Popped
    <2> QED
        BY <2>2, <2>3
  <1>4. /\ packet \in [Writers -> Nat] /\ finalWriteBuffer_ \in Nat
        /\ \A k \in DOMAIN wire : wire[k][1] \in Nat
      BY DEF StreamInv, AccountInv, WriterTypeOK, StreamTypeOK
  <1>5. \A u \in Writers : packet'[u] = packet[u] \/ packet'[u] = Popped + 1
      BY <1>3, <1>4
  <1> HIDE DEF PopPacket
  <1>6. UNCHANGED <<writes, finalWriteBuffer_, overlapped, wire, sock>>
      BY DEF PopPacket
  <1>7. ASSUME StreamSound PROVE StreamSound'
    <2>1. OneFills'
      <3>1. \A u \in Writers : pc'[u] = "start" => packet'[u] = packet[u]
        <4>1. \A u \in Writers : u # t => packet'[u] = packet[u]
            BY <1>3, <1>4
        <4> QED
            BY <1>2, <4>1
      <3> QED
          BY <1>1, <1>2, <1>6, <1>7, <3>1 DEF StreamSound, OneFills, Writers
    <2>2. OneInFlight'
        BY <1>1, <1>3, <1>4, <1>5, <1>6, <1>7 DEF StreamSound, OneInFlight, Writers
    <2>3. FreshAhead'
        BY <1>1, <1>3, <1>4, <1>5, <1>6, <1>7 DEF StreamSound, FreshAhead, Writers
    <2>4. Aligned' /\ StreamIntact'
        BY <1>1, <1>6, <1>7, SameStream DEF StreamSound, Aligned
    <2> QED
        BY <2>1, <2>2, <2>3, <2>4 DEF StreamSound
  <1> QED
      BY <1>6, <1>7 DEF StreamInv, StreamTypeOK

(* A fill that no write and no other fill overlaps leaves one thread with  *)
(* a filled buffer.                                                        *)
LEMMA StreamFill ==
    ASSUME StreamInv, NEW t \in Writers, FillBuffer(t), AccountInv'
    PROVE  StreamInv'
  <1>1. /\ UNCHANGED <<sock, writeQueue_, packet, accepted, wire>>
        /\ finalWriteBuffer_' \in {packet[t]} \cup {Mixed : u \in OtherFillers(t)}
        /\ overlapped' = (overlapped \/ InFlight # {} \/ OtherFillers(t) # {})
        /\ pc' = [pc EXCEPT ![t] = "start"]
      BY DEF FillBuffer, networkVars, senderVars
  <1>2. /\ writes' \in Seq(Operations) /\ Len(writes') = Len(writes)
        /\ \A i \in DOMAIN writes : writes'[i].pos = writes[i].pos
      BY Restaled DEF FillBuffer, StreamInv, AccountInv, WriterTypeOK
  <1>3. InFlight' = InFlight /\ Popped' = Popped
      BY <1>1, <1>2, SameInFlight DEF StreamInv, AccountInv, WriterTypeOK, Popped
  <1>4. packet \in [Writers -> Nat] /\ pc \in [Writers -> WriteStates]
      BY DEF StreamInv, AccountInv, WriterTypeOK
  <1>5. StreamTypeOK'
      BY <1>1, <1>4 DEF StreamInv, StreamTypeOK, Mixed
  <1>6. ASSUME ~overlapped' PROVE StreamSound'
    <2>1. InFlight' = {} /\ OtherFillers(t) = {} /\ StreamSound
        BY <1>1, <1>3, <1>6 DEF StreamInv
    <2>2. finalWriteBuffer_' = packet[t]
        BY <1>1, <2>1
    <2>3. \A u \in Writers : pc'[u] = "start" => u = t
        BY <1>1, <1>4, <2>1 DEF OtherFillers
    <2>4. OneFills' /\ OneInFlight' /\ FreshAhead'
        BY <1>1, <1>3, <2>1, <2>2, <2>3 DEF StreamSound, OneFills, OneInFlight, FreshAhead, Writers
    <2>5. Aligned' /\ StreamIntact'
        BY <1>1, <1>3, <2>1, SameStream DEF StreamSound, Aligned
    <2> QED
        BY <2>4, <2>5 DEF StreamSound
  <1> QED
      BY <1>5, <1>6 DEF StreamInv

(* The write started is the only one in flight.                            *)
LEMMA StreamStart ==
    ASSUME StreamInv, NEW t \in Writers, StartWrite(t), AccountInv'
    PROVE  StreamInv'
  <1>1. /\ UNCHANGED <<sock, writeQueue_, accepted, wire, finalWriteBuffer_, overlapped>>
        /\ pc[t] = "start"
        /\ writes' = Append(writes, [pos |-> 1, stale |-> FALSE])
        /\ packet' = [packet EXCEPT ![t] = 0]
        /\ pc' = [pc EXCEPT ![t] = "idle"]
      BY DEF StartWrite, networkVars, senderVars, bufferVars
  <1>2. /\ packet \in [Writers -> Nat] /\ pc \in [Writers -> WriteStates]
        /\ writes \in Seq(Operations) /\ packet[t] # 0 /\ packet[t] <= Popped
        /\ \A u \in Writers : packet[u] # 0 /\ u # t => packet[u] # packet[t]
      BY <1>1 DEF StreamInv, AccountInv, WriterTypeOK, PacketsInOrder, InWriteNext, Popped
  <1>3. /\ InFlight' = InFlight \cup {Len(writes) + 1}
        /\ writes'[Len(writes) + 1].pos = 1 /\ ~writes'[Len(writes) + 1].stale
      BY <1>1, <1>2, OneMoreInFlight
  <1>4. Popped' = Popped
      BY <1>1 DEF Popped
  <1>5. /\ pc'[t] = "idle" /\ packet'[t] = 0
        /\ \A u \in Writers : u # t => pc'[u] = pc[u] /\ packet'[u] = packet[u]
      BY <1>1, <1>2
  <1>6. ASSUME StreamSound PROVE StreamSound'
    <2>1. /\ InFlight = {} /\ finalWriteBuffer_ = packet[t]
          /\ \A u \in Writers : pc[u] = "start" => u = t
        BY <1>1, <1>6 DEF StreamSound, OneFills
    <2>2. InFlight' = {Len(writes) + 1}
        BY <1>3, <2>1
    <2>3. OneFills'
        BY <1>5, <2>1 DEF OneFills, Writers
    <2>4. OneInFlight'
      <3>1. /\ finalWriteBuffer_' = packet[t] /\ packet[t] <= Popped'
            /\ \A u \in Writers : packet'[u] # packet[t]
          BY <1>1, <1>2, <1>4, <1>5, <2>1
      <3> QED
          BY <1>2, <1>3, <2>2, <3>1 DEF OneInFlight, Writers, Mixed
    <2>5. FreshAhead'
      <3>1. \A k \in DOMAIN wire : wire[k][1] # packet[t]
          BY <1>2, <1>6 DEF StreamSound, FreshAhead
      <3> QED
          BY <1>1, <1>2, <1>4, <1>5, <1>6, <2>1, <3>1 DEF StreamSound, FreshAhead, Writers
    <2>6. Aligned'
      <3>1. sock' \in {"open", "unconnected"} => Len(wire') % Chunks = 0
          BY <1>1, <1>6, <2>1 DEF StreamSound, Aligned
      <3> QED
          BY <1>3, <2>2, <3>1 DEF Aligned
    <2>7. StreamIntact'
        BY <1>1, <1>6, SameStream DEF StreamSound
    <2> QED
        BY <2>3, <2>4, <2>5, <2>6, <2>7 DEF StreamSound
  <1> QED
      BY <1>1, <1>6 DEF StreamInv, StreamTypeOK

-----------------------------------------------------------------------------
(* The network *)

(* A piece is appended to what the peer receives: it goes on with the      *)
(* message the wire ends with, or begins that of a packet not seen there.  *)
LEMMA PieceAppended ==
    ASSUME StreamIntact, NEW b \in Nat, NEW p \in 1 .. Chunks,
           wire \in Seq(Nat \X Nat), wire' = Append(wire, <<b, p>>),
           Len(wire) % Chunks = p - 1, b # Mixed,
           p = 1 => \A k \in DOMAIN wire : wire[k][1] # b,
           p > 1 => wire[Len(wire)] = <<b, p - 1>>
    PROVE  StreamIntact'
  <1> DEFINE n == Len(wire)
             Good(k) == IF k % Chunks = 1 % Chunks
                        THEN /\ wire'[k][1] # Mixed /\ wire'[k][2] = 1
                             /\ \A j \in 1 .. k - 1 : wire'[j][1] # wire'[k][1]
                        ELSE wire'[k] = <<wire'[k - 1][1], wire'[k - 1][2] + 1>>
  <1>1. /\ n \in Nat /\ DOMAIN wire = 1 .. n /\ DOMAIN wire' = 1 .. n + 1
        /\ wire'[n + 1] = <<b, p>> /\ \A k \in 1 .. n : wire'[k] = wire[k]
      OBVIOUS
  <1>2. n % Chunks = p - 1
      OBVIOUS
  <1>3. p = 1 => \A k \in 1 .. n : wire[k][1] # b
      BY <1>1
  <1>4. p > 1 => wire[n] = <<b, p - 1>>
      OBVIOUS
  <1>5. p \in Nat \ {0}
      BY ChunksAssumption
  <1>6. \A k \in 1 .. n :
          IF k % Chunks = 1 % Chunks
          THEN wire[k][1] # Mixed /\ wire[k][2] = 1 /\ \A j \in 1 .. k - 1 : wire[j][1] # wire[k][1]
          ELSE wire[k] = <<wire[k - 1][1], wire[k - 1][2] + 1>>
      BY <1>1 DEF StreamIntact
  <1> HIDE DEF n
  <1>7. ASSUME NEW k \in 1 .. n
        PROVE  Good(k)
    <2>1. CASE k % Chunks = 1 % Chunks
      <3>1. \A j \in 1 .. k - 1 : j \in 1 .. n
          BY <1>1
      <3> QED
          BY <1>1, <1>6, <2>1, <3>1
    <2>2. CASE k % Chunks # 1 % Chunks
      <3>1. k # 1
          BY <2>2
      <3>2. k - 1 \in 1 .. n
          BY <1>1, <3>1
      <3> QED
          BY <1>1, <1>6, <2>2, <3>2
    <2> QED
        BY <2>1, <2>2
  <1>8. ASSUME p = 1 PROVE Good(n + 1)
    <2>1. (n + 1) % Chunks = 1 % Chunks
      <3>1. n % Chunks = 0
          BY <1>2, <1>8
      <3> QED
          BY <1>1, <3>1, MessageBegins
    <2>2. /\ wire'[n + 1][1] # Mixed /\ wire'[n + 1][2] = 1
          /\ \A j \in 1 .. (n + 1) - 1 : wire'[j][1] # wire'[n + 1][1]
        BY <1>1, <1>3, <1>8
    <2> QED
        BY <2>1, <2>2
  <1>9. ASSUME p > 1 PROVE Good(n + 1)
    <2>1. n % Chunks # 0
        BY <1>2, <1>5, <1>9
    <2>2. (n + 1) % Chunks # 1 % Chunks
        BY <1>1, <2>1, MessageBegins
    <2>3. n # 0
        BY <2>1, Remainder, ChunksAssumption
    <2>4. wire'[n] = <<b, p - 1>> /\ (n + 1) - 1 = n
      <3>1. n \in 1 .. n /\ (n + 1) - 1 = n
          BY <1>1, <2>3
      <3>2. wire'[n] = wire[n]
          BY <1>1, <3>1
      <3> QED
          BY <1>4, <1>9, <3>1, <3>2
    <2>5. wire'[n + 1] = <<wire'[(n + 1) - 1][1], wire'[(n + 1) - 1][2] + 1>>
      <3>1. ASSUME NEW x, x = <<b, p - 1>> PROVE x[1] = b /\ x[2] = p - 1
          BY <3>1
      <3>2. wire'[n][1] = b /\ wire'[n][2] = p - 1
          BY <2>4, <3>1, Zenon
      <3>3. (p - 1) + 1 = p
          BY <1>5
      <3>4. <<wire'[n][1], wire'[n][2] + 1>> = <<b, p>>
          BY <3>2, <3>3, Zenon
      <3> QED
          BY <1>1, <2>4, <3>4, Zenon
    <2> QED
        BY <2>2, <2>5
  <1> HIDE DEF Good
  <1>10. Good(n + 1)
      BY <1>5, <1>8, <1>9
  <1>11. \A k \in DOMAIN wire' : Good(k)
    <2>1. \A k \in 1 .. n + 1 : k \in 1 .. n \/ k = n + 1
        BY <1>1
    <2> QED
        BY <1>1, <1>7, <1>10, <2>1
  <1> QED
      BY <1>11 DEF StreamIntact, Good

LEMMA StreamTransmit ==
    ASSUME StreamInv, NEW i \in DOMAIN writes, Transmit(i), AccountInv'
    PROVE  StreamInv'
  <1> DEFINE p == writes[i].pos
             b == IF writes[i].stale THEN Mixed ELSE finalWriteBuffer_
  <1>1. /\ UNCHANGED <<sock, writeQueue_, pc, packet, accepted, finalWriteBuffer_, overlapped>>
        /\ sock = "open" /\ p <= Chunks
        /\ wire' = Append(wire, <<b, p>>)
        /\ writes' = [writes EXCEPT ![i].pos = @ + 1]
      BY DEF Transmit, senderVars, bufferVars
  <1>2. /\ writes \in Seq(Operations) /\ finalWriteBuffer_ \in Nat
        /\ wire \in Seq(Nat \X Nat)
      BY DEF StreamInv, AccountInv, WriterTypeOK, StreamTypeOK
  <1>3. /\ p \in Nat /\ i \in InFlight
        /\ p = Chunks => InFlight' = InFlight \ {i}
        /\ p # Chunks => InFlight' = InFlight
        /\ writes'[i].pos = p + 1 /\ writes'[i].stale = writes[i].stale
      BY <1>1, <1>2, PieceTransmitted
  <1> HIDE DEF p
  <1>4. b \in Nat /\ <<b, p>> \in Nat \X Nat
      BY <1>2, <1>3 DEF Mixed
  <1>5. /\ wire' \in Seq(Nat \X Nat) /\ Len(wire') = Len(wire) + 1 /\ Len(wire) \in Nat
        /\ DOMAIN wire' = 1 .. Len(wire) + 1 /\ DOMAIN wire = 1 .. Len(wire)
        /\ wire'[Len(wire) + 1] = <<b, p>> /\ \A k \in 1 .. Len(wire) : wire'[k] = wire[k]
      BY <1>1, <1>2, <1>4
  <1>6. Popped' = Popped
      BY <1>1 DEF Popped
  <1>7. ASSUME StreamSound PROVE StreamSound'
    <2>1. /\ InFlight = {i} /\ ~writes[i].stale /\ p >= 1
          /\ finalWriteBuffer_ # Mixed /\ finalWriteBuffer_ <= Popped
          /\ \A t \in Writers : packet[t] # finalWriteBuffer_
        BY <1>3, <1>7 DEF StreamSound, OneInFlight, p
    <2>2. /\ Len(wire) % Chunks = p - 1
          /\ p > 1 => wire[Len(wire)] = <<b, p - 1>>
        BY <1>1, <1>3, <1>7, <2>1 DEF StreamSound, Aligned, p
    <2>3. p = 1 => \A k \in DOMAIN wire : wire[k][1] # b
        BY <1>3, <1>7, <2>1 DEF StreamSound, FreshAhead, p
    <2>4. b = finalWriteBuffer_
        BY <2>1
    <2> HIDE DEF b
    <2>5. StreamIntact'
      <3>1. p \in 1 .. Chunks
          BY <1>1, <1>3, <2>1, ChunksAssumption
      <3>2. b # Mixed /\ StreamIntact
          BY <1>7, <2>1, <2>4 DEF StreamSound
      <3> QED
          BY <1>1, <1>2, <1>4, <2>2, <2>3, <3>1, <3>2, PieceAppended
    <2>6. OneFills'
        BY <1>1, <1>3, <1>7, <2>1 DEF StreamSound, OneFills, Writers
    <2>7. InFlight' \subseteq {i}
        BY <1>3, <2>1
    <2>8. OneInFlight'
      <3>1. ~writes'[i].stale /\ writes'[i].pos >= 1
          BY <1>3, <2>1
      <3>2. /\ finalWriteBuffer_' # Mixed /\ finalWriteBuffer_' <= Popped'
            /\ \A t \in Writers : packet'[t] # finalWriteBuffer_'
          BY <1>1, <1>6, <2>1
      <3> QED
          BY <2>7, <3>1, <3>2 DEF OneInFlight, Writers, Mixed
    <2>9. FreshAhead'
      <3>1. \A k \in 1 .. Len(wire) + 1 :
              /\ wire'[k][1] <= Popped
              /\ \A t \in Writers : packet[t] # 0 => packet[t] # wire'[k][1]
        <4>1. ASSUME NEW k \in 1 .. Len(wire)
              PROVE  /\ wire'[k][1] <= Popped
                     /\ \A t \in Writers : packet[t] # 0 => packet[t] # wire'[k][1]
            BY <1>5, <1>7 DEF StreamSound, FreshAhead
        <4>2. wire'[Len(wire) + 1][1] = finalWriteBuffer_
            BY <1>5, <2>4
        <4> QED
            BY <1>5, <2>1, <4>1, <4>2
      <3>2. \A l \in InFlight' : writes'[l].pos # 1
          BY <1>3, <2>1, <2>7
      <3> QED
          BY <1>1, <1>5, <1>6, <3>1, <3>2 DEF FreshAhead, Writers
    <2>10. Aligned'
      <3>1. CASE p = Chunks
        <4>1. InFlight' = {} /\ Len(wire) % Chunks = Chunks - 1
            BY <1>3, <2>1, <2>2, <3>1
        <4>2. Len(wire') % Chunks = 0
            BY <1>5, <4>1, NextRemainder
        <4> QED
            BY <4>1, <4>2 DEF Aligned
      <3>2. CASE p # Chunks
        <4>1. InFlight' = {i} /\ Len(wire) % Chunks # Chunks - 1
            BY <1>3, <2>1, <2>2, <3>2, ChunksAssumption
        <4>2. Len(wire') % Chunks = (p - 1) + 1
            BY <1>5, <2>2, <4>1, NextRemainder
        <4>3. Len(wire') % Chunks = writes'[i].pos - 1
            BY <1>3, <4>2
        <4>4. wire'[Len(wire')] = <<finalWriteBuffer_, writes'[i].pos - 1>>
            BY <1>3, <1>5, <2>4
        <4> QED
            BY <1>1, <4>1, <4>3, <4>4 DEF Aligned
      <3> QED
          BY <3>1, <3>2
    <2> QED
        BY <2>5, <2>6, <2>8, <2>9, <2>10 DEF StreamSound
  <1> QED
      BY <1>1, <1>2, <1>5, <1>7 DEF StreamInv, StreamTypeOK

(* Removing a write renumbers those after it.                              *)
LEMMA RemovedInFlight ==
    ASSUME writes \in Seq(Operations), NEW i \in DOMAIN writes,
           writes' = RemoveAtIndex(writes, i)
    PROVE  /\ \A k \in InFlight' : \E j \in InFlight : j # i /\ writes'[k] = writes[j]
           /\ (\A j, l \in InFlight : j = l) => \A j, l \in InFlight' : j = l
  <1>1. /\ writes' \in Seq(Operations) /\ Len(writes') = Len(writes) - 1
        /\ \A j \in 1 .. Len(writes) - 1 :
             writes'[j] = IF j < i THEN writes[j] ELSE writes[j + 1]
      BY Removed
  <1>2. i \in 1 .. Len(writes) /\ Len(writes) \in Nat
      OBVIOUS
  <1>3. ASSUME NEW k \in InFlight'
        PROVE  /\ k \in 1 .. Len(writes) - 1
               /\ k < i => k \in InFlight /\ writes'[k] = writes[k]
               /\ ~ (k < i) => k + 1 \in InFlight /\ writes'[k] = writes[k + 1]
    <2>1. k \in 1 .. Len(writes) - 1 /\ writes'[k].pos <= Chunks
        BY <1>1 DEF InFlight
    <2> QED
        BY <1>1, <1>2, <2>1 DEF InFlight
  <1>4. ASSUME NEW k \in InFlight' PROVE \E j \in InFlight : j # i /\ writes'[k] = writes[j]
      BY <1>2, <1>3
  <1>5. ASSUME \A j, l \in InFlight : j = l, NEW j \in InFlight', NEW l \in InFlight'
        PROVE  j = l
    <2>1. CASE j < i /\ l < i
        BY <1>3, <1>5, <2>1
    <2>2. CASE ~ (j < i) /\ ~ (l < i)
        BY <1>3, <1>5, <2>2
    <2>3. CASE j < i /\ ~ (l < i)
        BY <1>2, <1>3, <1>5, <2>3
    <2>4. CASE ~ (j < i) /\ l < i
        BY <1>2, <1>3, <1>5, <2>4
    <2> QED
        BY <2>1, <2>2, <2>3, <2>4
  <1> QED
      BY <1>4, <1>5

LEMMA StreamRemoved ==
    ASSUME StreamInv, NEW i \in DOMAIN writes, writes' = RemoveAtIndex(writes, i),
           UNCHANGED <<writeQueue_, accepted, packet, bufferVars, wire>>, AccountInv',
           \A u \in Writers : pc'[u] = "start" => pc[u] = "start",
           (writes[i].pos > Chunks /\ sock' = sock) \/ sock' = "closed"
    PROVE  StreamInv'
  <1> USE DEF bufferVars
  <1>1. writes \in Seq(Operations)
      BY DEF StreamInv, AccountInv, WriterTypeOK
  <1>2. /\ \A k \in InFlight' : \E j \in InFlight : writes'[k] = writes[j]
        /\ (\A j, l \in InFlight : j = l) => \A j, l \in InFlight' : j = l
      BY <1>1, RemovedInFlight
  <1>3. Popped' = Popped
      BY DEF Popped
  <1>4. ASSUME StreamSound PROVE StreamSound'
    <2>1. OneFills'
        BY <1>2, <1>4 DEF StreamSound, OneFills, Writers
    <2>2. OneInFlight'
        BY <1>2, <1>3, <1>4 DEF StreamSound, OneInFlight, Writers
    <2>3. FreshAhead'
        BY <1>2, <1>3, <1>4 DEF StreamSound, FreshAhead, Writers
    <2>4. Aligned'
      <3>1. CASE sock' = "closed"
          BY <3>1 DEF Aligned
      <3>2. CASE writes[i].pos > Chunks /\ sock' = sock
        <4>1. Cardinality(InFlight') = Cardinality(InFlight)
            BY <1>1, <3>2, DoneNotCounted
        <4>2. InFlight' = {} => InFlight = {}
            BY <1>1, <4>1, InFlightFinite, FS_EmptySet
        <4> QED
            BY <1>2, <1>4, <3>2, <4>2 DEF StreamSound, Aligned
      <3> QED
          BY <3>1, <3>2
    <2>5. StreamIntact'
        BY <1>4, SameStream DEF StreamSound
    <2> QED
        BY <2>1, <2>2, <2>3, <2>4, <2>5 DEF StreamSound
  <1> QED
      BY <1>4 DEF StreamInv, StreamTypeOK

LEMMA StreamWriteDone ==
    ASSUME StreamInv, NEW i \in DOMAIN writes, WriteDone(i), AccountInv'
    PROVE  StreamInv'
  <1>1. \A u \in Writers : pc'[u] = "start" => pc[u] = "start"
      BY DEF WriteDone, StreamInv, AccountInv, WriterTypeOK
  <1> QED
      BY <1>1, StreamRemoved DEF WriteDone, senderVars, networkVars

LEMMA StreamWriteFailed ==
    ASSUME StreamInv, NEW i \in DOMAIN writes, WriteFailed(i), AccountInv'
    PROVE  StreamInv'
  BY StreamRemoved DEF WriteFailed, WriteError, senderVars, networkVars

LEMMA StepStream ==
    ASSUME StreamInv, ConnectionNext \/ UNCHANGED allVars, AccountInv'
    PROVE  StreamInv'
  <1>1. ASSUME NEW callers, Writes(callers) PROVE StreamInv'
    <2>1. CASE Break
        BY <2>1, StreamStays
        DEF Break, writerVars, senderVars, streamVars, accountVars, networkVars, bufferVars
    <2> QED
        BY <1>1, <2>1, StreamReadSize, StreamPush, StreamPop, StreamFill, StreamStart,
           StreamTransmit, StreamWriteDone, StreamWriteFailed
        DEF Writes, Completes, WriteNextStep
  <1> QED
      BY <1>1, StepKinds, StreamStays

(* Without a fill that overlaps a write or another fill, the peer receives *)
(* whole messages, each of a packet it has not received before, whatever   *)
(* the size of a message, and however the socket is broken and closed.     *)
THEOREM StreamUndamaged == ConnectionSpec => []OnlyOverlapDamages
  <1>1. ConnectionInit => AccountInv /\ StreamInv
    <2> SUFFICES ASSUME ConnectionInit PROVE StreamInv
        BY InitAccount
    <2>1. AccountInv
        BY InitAccount
    <2>2. /\ finalWriteBuffer_ = 0 /\ wire = << >> /\ writes = << >>
          /\ \A t \in Writers : pc[t] = "idle"
        BY DEF ConnectionInit, ReaderInit, WriterInit
    <2>3. InFlight = {} /\ DOMAIN wire = {} /\ Len(wire) = 0
        BY <2>2 DEF InFlight
    <2>4. Len(wire) % Chunks = 0
        BY <2>3, ChunksAssumption
    <2>5. OneFills /\ OneInFlight /\ FreshAhead /\ StreamIntact
        BY <2>2, <2>3 DEF OneFills, OneInFlight, FreshAhead, StreamIntact
    <2>6. Aligned
        BY <2>3, <2>4 DEF Aligned
    <2>7. StreamTypeOK
        BY <2>2 DEF StreamTypeOK
    <2> QED
        BY <2>1, <2>5, <2>6, <2>7 DEF StreamInv, StreamSound
  <1>2. AccountInv /\ StreamInv /\ [ConnectionNext]_allVars => (AccountInv /\ StreamInv)'
      BY StepAccount, StepStream
  <1>3. StreamInv => OnlyOverlapDamages
      BY DEF StreamInv, StreamSound, OnlyOverlapDamages
  <1> QED
      BY <1>1, <1>2, <1>3, PTL DEF ConnectionSpec

-----------------------------------------------------------------------------
(* One sender *)

(* With the sender s alone the queue holds a packet only between its push  *)
(* and a pop, by s itself or by the io thread.                             *)
QueueInv(s) ==
    /\ AccountInv
    /\ wasEmpty \in [Writers -> BOOLEAN]
    /\ pc[Io] # "push"
    /\ pc[s] = "push" => wasEmpty[s]
    /\ writeQueue_ # << >> => pc[s] = "pop" /\ Len(writeQueue_) = 1

LEMMA StepQueue ==
    ASSUME NEW s, Senders = {s}, QueueInv(s), role = "server",
           InServer(ServerNext) \/ UNCHANGED allVars, AccountInv'
    PROVE  QueueInv(s)'
  <1>1. /\ pc \in [Writers -> WriteStates] /\ wasEmpty \in [Writers -> BOOLEAN]
        /\ s # Io /\ Writers = {s, Io} /\ s \in Writers /\ Io \in Writers
        /\ writeQueue_ \in Seq(Nat) /\ holders \subseteq {s}
      BY SendersAssumption DEF QueueInv, AccountInv, WriterTypeOK, Writers
  <1>2. ASSUME UNCHANGED <<pc, wasEmpty, writeQueue_>> PROVE QueueInv(s)'
      BY <1>2 DEF QueueInv, Writers
  <1>3. ASSUME NEW t \in holders, ReadSize(t) PROVE QueueInv(s)'
    <2>1. /\ t = s /\ writeQueue_' = writeQueue_ /\ pc[s] = "idle"
          /\ pc' = [pc EXCEPT ![s] = "push"]
          /\ wasEmpty' = [wasEmpty EXCEPT ![s] = (writeQueue_ = << >>)]
        BY <1>1, <1>3 DEF ReadSize
    <2>2. writeQueue_ = << >>
        BY <2>1 DEF QueueInv
    <2> QED
        BY <1>1, <2>1, <2>2 DEF QueueInv
  <1>4. ASSUME NEW t \in Writers, PushPacket(t) PROVE QueueInv(s)'
    <2>1. t = s /\ pc[s] = "push" /\ wasEmpty[s] /\ writeQueue_ = << >>
        BY <1>1, <1>4 DEF PushPacket, PushThen, QueueInv
    <2>2. /\ wasEmpty' = wasEmpty /\ writeQueue_' = Append(writeQueue_, accepted + 1)
          /\ pc' = [pc EXCEPT ![s] = "pop"]
        BY <1>4, <2>1 DEF PushPacket, PushThen
    <2>3. Len(writeQueue_') = 1
        BY <2>1, <2>2
    <2> QED
        BY <1>1, <2>2, <2>3 DEF QueueInv
  <1>5. ASSUME NEW t \in Writers, PopPacket(t) PROVE QueueInv(s)'
    <2>1. writeQueue_' = << >>
      <3>1. CASE writeQueue_ = << >>
          BY <1>5, <3>1 DEF PopPacket
      <3>2. CASE writeQueue_ # << >>
        <4>1. writeQueue_' = Tail(writeQueue_) /\ Len(writeQueue_) = 1
            BY <1>5, <3>2 DEF PopPacket, QueueInv
        <4>2. Len(writeQueue_') = 0 /\ writeQueue_' \in Seq(Nat)
            BY <1>1, <3>2, <4>1
        <4> QED
            BY <4>2
      <3> QED
          BY <3>1, <3>2
    <2>2. wasEmpty' = wasEmpty /\ pc[t] = "pop"
        BY <1>5 DEF PopPacket, senderVars
    <2>3. pc' = [pc EXCEPT ![t] = "idle"] \/ pc' = [pc EXCEPT ![t] = "fill"]
        BY <1>5 DEF PopPacket
    <2> QED
        BY <1>1, <2>1, <2>2, <2>3 DEF QueueInv
  <1>6. ASSUME NEW t \in Writers, FillBuffer(t) \/ StartWrite(t) PROVE QueueInv(s)'
    <2>1. UNCHANGED <<wasEmpty, writeQueue_>> /\ pc[t] \in {"fill", "start"}
        BY <1>6 DEF FillBuffer, StartWrite, senderVars
    <2>2. pc' = [pc EXCEPT ![t] = "start"] \/ pc' = [pc EXCEPT ![t] = "idle"]
        BY <1>6 DEF FillBuffer, StartWrite
    <2> QED
        BY <1>1, <2>1, <2>2 DEF QueueInv
  <1>7. CASE Completes
    <2>1. ASSUME NEW i \in DOMAIN writes, WriteDone(i) PROVE QueueInv(s)'
      <3>1. /\ UNCHANGED <<wasEmpty, writeQueue_>>
            /\ pc' = [pc EXCEPT ![Io] = "pop"]
          BY <2>1 DEF WriteDone, senderVars
      <3> QED
          BY <1>1, <3>1 DEF QueueInv
    <2> QED
        BY <1>2, <1>7, <2>1 DEF Completes, Transmit, WriteFailed, WriteError, senderVars
  <1>8. CASE Writes(holders)
      BY <1>2, <1>3, <1>4, <1>5, <1>6, <1>7, <1>8
      DEF Writes, WriteNextStep, Break, writerVars, senderVars
  <1>9. ASSUME UNCHANGED vars \/ ReaderCloses \/ Opened PROVE QueueInv(s)'
      BY <1>2, <1>9 DEF vars, writerVars, senderVars, ReaderCloses, Opened
  <1>10. CASE InServer(ServerNext)
    <2>1. CASE Reads
        BY <1>9, <2>1 DEF Reads, HeaderArrives, OnHeader, BodyArrives, ReadFails
    <2>2. ASSUME NEW k \in Bodies, OnBody(k) PROVE QueueInv(s)'
        BY <1>9, <2>2 DEF OnBody
    <2>3. ASSUME NEW t \in Senders, TakeEvent(t) \/ LetGo(t) PROVE QueueInv(s)'
        BY <1>9, <2>3 DEF TakeEvent, LetGo, halves
    <2>4. ASSUME UNCHANGED halves PROVE QueueInv(s)'
        BY <1>9, <2>4 DEF halves
    <2>5. CASE AcceptStep
        BY <1>9, <2>4, <2>5 DEF AcceptStep, StartSession
    <2> QED
        BY <1>8, <1>10, <2>1, <2>2, <2>3, <2>4, <2>5 DEF InServer, ServerNext, SessionNext
  <1> QED
      BY <1>9, <1>10 DEF allVars, halves

(* With one sender no packet of the server waits in the queue for a size() *)
(* that was read too early: whenever the queue is not empty, that sender   *)
(* is about to pop: the safety behind QueuedPacketLeaves.                  *)
THEOREM OneSenderPops ==
    ASSUME NEW s, Senders = {s}
    PROVE  ConnectionSpec => [](role = "server" /\ writeQueue_ # << >> => pc[s] = "pop")
  <1> DEFINE Inv == role = "server" => QueueInv(s)
  <1>1. ConnectionInit => AccountInv /\ Inv
    <2> SUFFICES ASSUME ConnectionInit PROVE AccountInv /\ QueueInv(s)
        OBVIOUS
    <2>1. /\ pc = [t \in Writers |-> "idle"] /\ writeQueue_ = << >>
          /\ wasEmpty = [t \in Writers |-> FALSE]
        BY DEF ConnectionInit, ReaderInit, WriterInit
    <2>2. s \in Writers /\ Io \in Writers
        BY DEF Writers
    <2> QED
        BY <2>1, <2>2, InitAccount DEF QueueInv
  <1>2. AccountInv /\ Inv /\ [ConnectionNext]_allVars => (AccountInv /\ Inv)'
    <2> SUFFICES ASSUME AccountInv, Inv, [ConnectionNext]_allVars
                 PROVE  AccountInv' /\ Inv'
        OBVIOUS
    <2>1. AccountInv'
        BY StepAccount
    <2>2. CASE InServer(ServerNext) \/ UNCHANGED allVars
      <3>1. ASSUME role' = "server" PROVE role = "server"
          BY <2>2, <3>1 DEF InServer, allVars
      <3> QED
          BY <2>1, <2>2, <3>1, StepQueue
    <2>3. CASE InClient(ClientNext)
        BY <2>1, <2>3 DEF InClient
    <2> QED
        BY <2>1, <2>2, <2>3 DEF ConnectionNext
  <1>3. Inv => (role = "server" /\ writeQueue_ # << >> => pc[s] = "pop")
      BY DEF QueueInv
  <1> HIDE DEF Inv
  <1> QED
      BY <1>1, <1>2, <1>3, PTL DEF ConnectionSpec

-----------------------------------------------------------------------------
(* The life of a session *)

(* In the server a thread inside sendPacket holds the session it was       *)
(* called on, and there is no dispatcher to be busy or to throw.           *)
LifeInv ==
    /\ NeverDeaf
    /\ holders \subseteq Senders
    /\ role = "server" => /\ ~busy /\ ~threw
                          /\ DOMAIN pc = Writers
                          /\ \A s \in Senders : pc[s] # "idle" => s \in holders

LEMMA CallsStayHeld ==
    ASSUME LifeInv, role = "server", Writes(holders)
    PROVE  /\ busy' = busy /\ DOMAIN pc' = Writers
           /\ \A s \in Senders : pc'[s] # "idle" => s \in holders
  <1> USE DEF LifeInv
  <1>1. busy' = busy
      BY WritesLeaveReader
  <1>2. ASSUME NEW t \in Writers, NEW x, pc' = [pc EXCEPT ![t] = x],
               t \in holders \cup {Io} \/ pc[t] # "idle"
        PROVE  /\ DOMAIN pc' = Writers
               /\ \A s \in Senders : pc'[s] # "idle" => s \in holders
      BY <1>2, SendersAssumption DEF Writers
  <1>3. CASE \E t \in holders : ReadSize(t)
      BY <1>1, <1>2, <1>3 DEF ReadSize, Writers
  <1>4. CASE \E t \in Writers : PushPacket(t) \/ WriteNextStep(t)
    <2> PICK t \in Writers : PushPacket(t) \/ WriteNextStep(t)
        BY <1>4
    <2>1. pc[t] # "idle" /\ \E x : pc' = [pc EXCEPT ![t] = x]
        BY DEF PushPacket, PushThen, WriteNextStep, PopPacket, FillBuffer, StartWrite
    <2> QED
        BY <1>1, <1>2, <2>1
  <1>5. CASE Completes \/ Break
    <2>1. pc' = pc \/ pc' = [pc EXCEPT ![Io] = "pop"]
        BY <1>5 DEF Completes, Transmit, WriteDone, WriteFailed, WriteError, Break, writerVars
    <2>2. Io \in Writers
        BY DEF Writers
    <2> QED
        BY <1>1, <1>2, <2>1, <2>2
  <1> QED
      BY <1>3, <1>4, <1>5 DEF Writes

LEMMA StepLife == LifeInv /\ [ConnectionNext]_allVars => LifeInv'
  <1> SUFFICES ASSUME LifeInv, [ConnectionNext]_allVars PROVE LifeInv'
      OBVIOUS
  <1>1. NeverDeaf'
      BY StepNeverDeaf DEF LifeInv
  <1>2. ASSUME UNCHANGED <<busy, pc, holders, threw, role>> PROVE LifeInv'
      BY <1>1, <1>2 DEF LifeInv
  <1>3. CASE InServer(ServerNext)
    <2>1. role = "server" /\ UNCHANGED <<threw, role>>
        BY <1>3 DEF InServer, clientVars
    <2>2. CASE Reads /\ UNCHANGED sessionVars
      <3>1. UNCHANGED <<busy, pc>>
          BY <2>2 DEF Reads, HeaderArrives, OnHeader, BodyArrives, ReadFails, ReaderCloses,
                      vars, writerVars, senderVars
      <3> QED
          BY <1>2, <2>1, <2>2, <3>1 DEF sessionVars
    <2>3. CASE Writes(holders) /\ UNCHANGED sessionVars
        BY <1>1, <2>1, <2>3, CallsStayHeld DEF LifeInv, sessionVars
    <2>4. ASSUME NEW k \in Bodies, OnBody(k) PROVE LifeInv'
        BY <1>2, <2>1, <2>4 DEF OnBody, vars, writerVars, senderVars
    <2>5. ASSUME NEW s \in Senders, TakeEvent(s) \/ LetGo(s) PROVE LifeInv'
      <3>1. UNCHANGED <<busy, pc>>
          BY <2>5 DEF TakeEvent, LetGo, halves, vars, writerVars, senderVars
      <3>2. holders' = holders \cup {s} \/ (holders' = holders \ {s} /\ pc[s] = "idle")
          BY <2>5 DEF TakeEvent, LetGo
      <3> QED
          BY <1>1, <2>1, <3>1, <3>2 DEF LifeInv
    <2>6. CASE UNCHANGED <<halves, sessionVars>>
        BY <1>2, <2>1, <2>6 DEF halves, vars, writerVars, senderVars, sessionVars
    <2>7. CASE AcceptStep
        BY <1>2, <2>1, <2>7
        DEF AcceptStep, StartSession, Opened, halves, vars, writerVars, senderVars, sessionVars
    <2> QED
        BY <1>3, <2>2, <2>3, <2>4, <2>5, <2>6, <2>7 DEF InServer, ServerNext, SessionNext
  <1>4. CASE InClient(ClientNext)
      BY <1>1, <1>4 DEF InClient, sessionVars, LifeInv
  <1>5. CASE UNCHANGED allVars
      BY <1>2, <1>5 DEF allVars, halves, vars, writerVars, senderVars, sessionVars, clientVars
  <1> QED
      BY <1>3, <1>4, <1>5 DEF ConnectionNext

LEMMA InitLife == ConnectionInit => LifeInv
  <1> SUFFICES ASSUME ConnectionInit PROVE LifeInv
      OBVIOUS
  <1> USE DEF ConnectionInit, ReaderInit
  <1>1. NeverDeaf /\ holders = {}
      BY DEF SessionInit, NeverDeaf
  <1>2. ~busy /\ ~threw
      BY DEF WriterInit, ClientInit
  <1>3. DOMAIN pc = Writers /\ \A s \in Senders : pc[s] = "idle"
      BY DEF WriterInit, Writers
  <1> QED
      BY <1>1, <1>2, <1>3 DEF LifeInv

(* A session is not destroyed under a socket it has not closed: a read     *)
(* that is armed, or its handler, holds it, whatever the game loop does.   *)
THEOREM OpenSessionHeld ==
    ConnectionSpec => [](role = "server" /\ sock \in {"open", "broken"} => Referenced)
  <1>1. LifeInv => (role = "server" /\ sock \in {"open", "broken"} => Referenced)
      BY DEF LifeInv, NeverDeaf, Referenced
  <1> QED
      BY <1>1, InitLife, StepLife, PTL DEF ConnectionSpec

LEMMA ReleasedStays ==
    ASSUME LifeInv, [ConnectionNext]_allVars, role = "server", sock # "unconnected",
           ~Referenced
    PROVE  UNCHANGED <<halves, sessionVars>>
  <1>1. /\ reading = "none" /\ writes = << >> /\ pc[Io] = "idle"
        /\ events = << >> /\ holders = {}
        /\ sock \notin {"open", "broken", "unconnected"}
      BY DEF LifeInv, NeverDeaf, Referenced
  <1>2. \A t \in Writers : pc[t] = "idle"
      BY <1>1 DEF LifeInv, Writers
  <1>3. ~Reads /\ \A k : ~OnBody(k)
      BY <1>1 DEF Reads, HeaderArrives, OnHeader, BodyArrives, ReadFails, OnBody, BodyHandled
  <1>4. ~Writes(holders)
    <2>1. \A t \in Writers : ~(PushPacket(t) \/ WriteNextStep(t))
        BY <1>2 DEF PushPacket, PushThen, WriteNextStep, PopPacket, FillBuffer, StartWrite
    <2>2. ~Completes /\ ~Break
        BY <1>1 DEF Completes, Break
    <2> QED
        BY <1>1, <2>1, <2>2 DEF Writes
  <1>5. \A s : ~TakeEvent(s) /\ ~LetGo(s)
      BY <1>1 DEF TakeEvent, LetGo
  <1>6. CASE InServer(ServerNext)
      BY <1>1, <1>3, <1>4, <1>5, <1>6
      DEF InServer, ServerNext, SessionNext, AcceptStep, StartSession
  <1>7. CASE InClient(ClientNext)
      BY <1>7 DEF InClient
  <1>8. CASE UNCHANGED allVars
      BY <1>8 DEF allVars
  <1> QED
      BY <1>6, <1>7, <1>8 DEF ConnectionNext

(* A session that nobody holds is destroyed, and nothing is left that      *)
(* could act on it: no call of sendPacket is inside it, no handler is due, *)
(* no write reads its buffer, and it is never held again.                  *)
THEOREM ReleasedForGood ==
    ConnectionSpec => [][role = "server" /\ sock # "unconnected" /\ ~Referenced
                            => UNCHANGED <<halves, sessionVars>>]_allVars
  <1>1. ASSUME LifeInv, [ConnectionNext]_allVars
        PROVE  [role = "server" /\ sock # "unconnected" /\ ~Referenced
                  => UNCHANGED <<halves, sessionVars>>]_allVars
      BY <1>1, ReleasedStays
  <1> QED
      BY <1>1, InitLife, StepLife, PTL DEF ConnectionSpec

-----------------------------------------------------------------------------
(* Lengths *)

(* The conversion to int keeps what fits it and cuts off what does not. *)
LEMMA IntConversion ==
    ASSUME NEW n \in Nat
    PROVE  /\ AsInt32(n) \in Int /\ AsInt32(n) <= 2147483647
           /\ AsInt32(n) <= n
           /\ n < 2147483648 => AsInt32(n) = n
  BY SMT DEF AsInt32

(* Whatever of the packet EVP_EncryptUpdate takes, it writes blocks.       *)
LEMMA BlocksWritten ==
    ASSUME NEW inl \in Int, inl <= 2147483647
    PROVE  /\ UpdateLength(inl) \in Nat /\ UpdateLength(inl) <= 2147483632
           /\ UpdateLength(inl) % BlockLength = 0
           /\ inl > 0 => inl < UpdateLength(inl) + BlockLength /\ UpdateLength(inl) <= inl
           /\ inl <= 0 => UpdateLength(inl) = 0
  BY SMT DEF UpdateLength, BlockLength

(* encrypt writes within its buffer, also when it narrows the size to int. *)
(* If it returns, then what was written, and the header tells its length.  *)
THEOREM BufferSuffices ==
    ASSUME NEW size \in Nat
    PROVE  /\ WrittenLength(size) <= BufferLength(size)
           /\ Returns(size) => /\ EncryptedLength(size) = WrittenLength(size)
                               /\ EncryptedLength(size) % BlockLength = 0
                               /\ HeaderLength(size) = EncryptedLength(size)
  <1>1. /\ AsInt32(size) \in Int /\ AsInt32(size) <= 2147483647
        /\ AsInt32(size) <= size
      BY IntConversion
  <1> DEFINE update == UpdateLength(AsInt32(size))
  <1>2. /\ update \in Nat /\ update <= 2147483632
        /\ update % BlockLength = 0
        /\ AsInt32(size) > 0 => update <= AsInt32(size)
        /\ AsInt32(size) <= 0 => update = 0
      BY <1>1, BlocksWritten
  <1> HIDE DEF update
  <1>3. update <= size
      BY <1>1, <1>2
  <1>4. WrittenLength(size) = update + 16
      BY DEF WrittenLength, FinalLength, BlockLength, update
  <1>5. WrittenLength(size) <= BufferLength(size)
      BY <1>2, <1>3, <1>4 DEF BufferLength, EVP_MAX_BLOCK_LENGTH
  <1>6. ASSUME Returns(size)
        PROVE  /\ EncryptedLength(size) = update + 16
               /\ EncryptedLength(size) \in Nat /\ EncryptedLength(size) <= 2147483647
    <2>1. AsInt32(update + 16) = IF update + 16 < 2147483648 THEN update + 16
                                 ELSE update + 16 - 4294967296
        BY SMT, <1>2 DEF AsInt32
    <2>2. AsInt32(update + 16) >= 0
        BY <1>4, <1>6 DEF Returns, EncryptedLength
    <2> QED
        BY <1>2, <1>4, <2>1, <2>2 DEF EncryptedLength
  <1>7. (update + 16) % BlockLength = 0
      BY SMT, <1>2 DEF BlockLength
  <1>8. ASSUME Returns(size) PROVE HeaderLength(size) = EncryptedLength(size)
      BY SMT, <1>6, <1>8 DEF HeaderLength, AsUint32
  <1> QED
      BY <1>4, <1>5, <1>6, <1>7, <1>8

(* encrypt returns the whole packet, with one block at most to pad it, as  *)
(* long as the packet's size is within int.  A longer one for which it     *)
(* returns is cut off without a word: the result is shorter than it.       *)
THEOREM WholeWithinInt ==
    ASSUME NEW size \in Nat, Returns(size)
    PROVE  /\ size < 2147483648 =>
                 EncryptedLength(size) = BlockLength * (size \div BlockLength + 1)
           /\ size >= 2147483648 => EncryptedLength(size) < size
  <1>1. EncryptedLength(size) = UpdateLength(AsInt32(size)) + 16
      BY BufferSuffices DEF WrittenLength, FinalLength, BlockLength
  <1>2. ASSUME size < 2147483648
        PROVE  EncryptedLength(size) = BlockLength * (size \div BlockLength + 1)
    <2>1. AsInt32(size) = size
        BY <1>2, IntConversion
    <2>2. UpdateLength(size) = 16 * (size \div 16)
        BY SMT DEF UpdateLength, BlockLength
    <2> QED
        BY SMT, <1>1, <2>1, <2>2 DEF BlockLength
  <1>3. ASSUME size >= 2147483648
        PROVE  EncryptedLength(size) < size
    <2>1. EncryptedLength(size) <= 2147483647
      <3>1. WrittenLength(size) \in Nat
          BY <1>1, IntConversion, BlocksWritten DEF WrittenLength, FinalLength, BlockLength
      <3> QED
          BY <3>1, IntConversion DEF EncryptedLength
    <2> QED
        BY <1>3, <2>1, IntConversion, BlocksWritten, <1>1
  <1> QED
      BY <1>2, <1>3

(* The peer reads a message if and only if the size that was encrypted is  *)
(* below maxPacketSize: a packet of exactly that size, which sendPacket    *)
(* does not refuse, makes the peer close the connection, and one of 4 GiB  *)
(* or more may pass for a short one.                                       *)
THEOREM LimitIsPadded ==
    ASSUME NEW size \in Nat, Returns(size)
    PROVE  TooLong(HeaderLength(size)) <=> AsInt32(size) >= maxPacketSize
  <1>1. HeaderLength(size) = UpdateLength(AsInt32(size)) + 16
      BY BufferSuffices DEF WrittenLength, FinalLength, BlockLength
  <1>2. AsInt32(size) \in Int
      BY IntConversion
  <1> QED
      BY SMT, <1>1, <1>2 DEF TooLong, UpdateLength, BlockLength, maxPacketSize
=============================================================================
