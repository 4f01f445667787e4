# TLA+ specifications of ReforgedWorld

ReforgedWorld is a game client and server in C++20: a library (`src/Core`), a Windows client
(`src/Client`) and a server that is still a stub (`src/Server`). This directory models the parts
whose correctness depends on the order in which things happen, checks them with TLC on small
instances, and proves the central ones with TLAPS for every instance.

`PROJECT.json` lists, for every definition that models code, the lines it stands for, and for every
property a plausible bug (a definition of the same module whose comment starts with "Fault:") that
the property catches.

## Inventory

| Component | State | Operations | What is hard |
|---|---|---|---|
| `Core/ThreadPool.hpp` | task queue, `m_done`, workers | construct, `Submit` (from anywhere, tasks included), destroy | `notify_one` after the unlock; `m_done` set without the mutex; tasks accepted while `Stop` joins |
| `Core/Utility/AsyncLogger.hpp` | the pool, stored futures, file | `Log`, `WaitAll`, destroy | two mutexes and the pool's; `back()` and `share()` with no lock; destruction order of members |
| `Core/Network/ThreadSafeQueue.hpp` | queue | `push`, `pop`, `waitPop`, `size` | wake-ups against takers that do not wait |
| `Core/Network/ClientSession.hpp` | socket, write queue, one write buffer, read state | `start`, `sendPacket`, completion handlers | one io thread and any number of senders; `size()` and `push` are not one step; writes in progress while the buffer is refilled; shared ownership |
| `Core/Network/Client.hpp` | like a session, and a dispatcher | `sendPacket`, completion handlers | as above, and `shared_from_this` in the constructor |
| `Core/Network/Server.hpp` | acceptor, sessions' event queue | `startAccept` | the accept must be armed again on every path |
| `Core/Network/PacketDispatcher.hpp` | handlers by opcode | register, dispatch | registration during a dispatch |
| `Core/Network/Crypto.hpp`, packets, opcodes | none | pure functions | lengths narrowed to `int` and `uint32_t`, padding against the size limit, bodies read unverified |
| `Core/EventProvider.hpp` | handlers, connections, task queue, workers | `Subscribe`, `Disconnect`, `Fire`, destroy | handlers called with the lock held, handlers that use the provider, queued calls of handlers that are gone |
| `Core/StepTimer.hpp` | accumulated time | `Tick`, setters, getters | callbacks under the lock, unlocked getters and setters, a target that is not positive |
| `Core/SubsystemManager.hpp` | map of singletons | `Get`, `Remove`, `Clear` | construction under the lock, references that outlive an entry |
| `Client/Window`, `Client/WinMain.cpp` | window, flags of `WindowProc` | message loop, `WindowProc`, `Tick` | overlapping minimize, suspend and drag; destruction from inside the loop |
| `Client/Input` | key and button states, three event buffers | `On...`, `Read...` | input that does not reach the window, auto-repeat filters |
| `Client/DebugConsole` | command map, listener thread | register, process | a blocking `getline` joined by the destructor |
| `Client/Logger`, `Core/Utility/Time.hpp`, `File.hpp`, `EnumFlags.hpp`, `FunctionBinder.hpp` | none of their own | formatting, file access | arithmetic of time zones |

How they interact: the client's main thread owns the window, reads messages, feeds the input queues
(subsystems of the manager) and ticks the timer. The game's `Logger` owns an `AsyncLogger`, which
owns a `ThreadPool`. Sessions run on asio's io thread, push `GameEvent`s into a `ThreadSafeQueue`
that the game loop reads, and the game loop calls `sendPacket` from its own thread. An event holds a
`shared_ptr` to its session, as does every pending asynchronous operation.

What makes each correct: the pool and the queues lose, duplicate and reorder nothing and wake who
must be woken; the destructors return and leave no work behind that uses what they destroy; a settled
future means what it says; a session keeps reading, sends whole messages, and is released when its
connection ends; a `Fire` calls those that are subscribed; the game is told what happens to its
window; the input state is the user's.

## Modules

| Module | Models | Relation |
|---|---|---|
| `TaskExecutor` | what users of a pool are promised | abstract |
| `ThreadPool` | `ThreadPool.hpp` | implements `TaskExecutor` |
| `AsyncLogger` | `AsyncLogger.hpp` | extends `ThreadPool` with what the tasks do |
| `FifoQueue` | what users of the queue are promised | abstract |
| `ThreadSafeQueue` | `ThreadSafeQueue.hpp` | implements `FifoQueue` |
| `PacketWriter` | the sending half that `ClientSession.hpp` and `Client.hpp` share | |
| `PacketReader` | the receiving half they share | extends `PacketWriter` |
| `ClientSession` | what the server's session does with a packet, and its ownership | extends `PacketReader` |
| `Client` | connecting, and dispatching with `PacketDispatcher.hpp` | extends `PacketReader` |
| `Server` | the accept loop | |
| `Connections` | a server's session with its accept loop, or a client | composes the three above |
| `Crypto` | lengths of encrypted messages | functions |
| `EventProvider` | the synchronous provider and `EventConnection` | |
| `AsyncEventProvider` | the asynchronous provider | extends `EventProvider` with the queue and the workers |
| `EventProviders` | a program with one or the other | composes both |
| `StepTimer` | `StepTimer.hpp` | |
| `Time` | what `Utility/Time.hpp` computes | functions |
| `SubsystemManager` | `SubsystemManager.hpp` | |
| `DebugConsole` | `DebugConsole.h` | |
| `ClientProgram` | `wWinMain` from start to end | composes `SubsystemManager` and `DebugConsole` |
| `MainWindow` | the message loop: `WinMain.cpp`, `Application.cpp`, `Window.cpp`, the window messages of `Container.cpp` | |
| `InputQueues` | `Client/Input`, the input messages of `Container.cpp` | |
| `ThreadPoolProofs`, `ThreadSafeQueueProofs`, `ConnectionProofs`, `EventProofs`, `TimeProofs`, `SubsystemProofs`, `MainWindowProofs`, `InputQueuesProofs` | | theorems: `AsyncLogger`'s are in the first, those of `Crypto` in `ConnectionProofs`, those of `StepTimer` and `Time` in `TimeProofs` |
| `MC...` | | the instances for TLC |

State and actions follow the code: a variable has the name of the member it stands for, an action the
name of the function or of the step of it. A step ends where another thread can see or change
something: at an atomic access, a mutex, a condition variable, a handler's end. A critical section is
one step unless something happens inside that another thread can observe. Three cases of that kind
matter: a worker that has found its wait predicate false holds the mutex until it sleeps (pc
`"park"`; setting a flag without that mutex falls exactly there); a `Fire`, a `Tick` and the subsystem
manager call code of others with their lock held; and `StepTimer`'s setters take no lock, so that
they fall between any two reads of the target. A condition variable wakes any one sleeper, or a
sleeper nobody notified.

A thread that asks for a `std::mutex` it holds, or for a `std::shared_mutex` in the other mode, waits
for itself. The C++ standard leaves that undefined; blocking is what common implementations do, and
what the properties about re-entry (`OnlyHandlersBlock`, `OnlyReentryBlocks`, `TickReturns`) except.

What the modules leave to the environment: asio (operations complete with success, or with an error
once the socket is broken or closed, and their handlers run on the one io thread), the network, the
game loop, Windows (what it sends in which state) and the user. Their definitions are marked
external.

### ThreadPool and AsyncLogger

`pc` says where a worker is in the loop of `Start`; `owner` where the thread is that constructs and
destroys the pool. `Push` is the critical section of `Submit`, `NotifyOne` what follows it. `Stop` is
`StoreDone`, `NotifyAll` and `JoinAndDestroy`; tasks left in the queue are destroyed with it and
their promises broken. A thread whose construction throws ends the program (`StartThrows`).

`AsyncLogger` gives the pool's tasks a body of two critical sections, file and console. `Log` is
five steps: `Submit`, `emplace_back`, the only one with `m_futuresMutex`, `back()`, and the two of
`share()`, which reads the future's state and then empties the future. `ref` is the element a call
refers to (none once the vector has grown or was cleared), `got` what its `share()` has read: two
calls, or a call and `WaitAll`, may take the same state. `WaitAll` holds `m_futuresMutex` while it
waits; `valid()` and `get()` are two steps, as `share()` does not ask for the mutex. `raced` says that
somebody took the mutex while a call of `Log` was past it. What two owners of one state do to it
afterwards is not followed. The destructor is `WaitAll`, `close`, the members in reverse order, and
then the pool's `Stop`.

### ThreadSafeQueue

`pop` takes an item without waiting, `waitPop` sleeps. There is no way to end a `waitPop` other than
an item.

### Connections

A message is sent in `Chunks` pieces; `Window` bounds the packets accepted and not yet sent whole.
`sendPacket` is `ReadSize` and `PushPacket`, each with the queue's mutex, then `writeNext`:
`PopPacket`, `FillBuffer`, `StartWrite`. The one buffer that all writes share is `finalWriteBuffer_`:
a write in progress transmits what the buffer holds at that moment, and a buffer that two threads
filled at once, or that was moved under the write, may give anything (`Mixed`). Receiving is one
operation at a time, header then body; between the completion of an operation and its handler
another handler may close the socket. A message is a well-formed packet, `"flat"` or `"hard"` (the two
kinds, with one opcode each), or one of three others: `"short"`, which the code recognises as
malformed; `"oversize"`; and `"corrupt"`, which does not decrypt, or to no packet, as nobody checks
what OpenSSL returns. A corrupt body may be that of a hard packet with any opcode, short, or
`"garbage"`: its first two bytes are a number below 1000, which is all `isFlatbuffers` asks for, but it
is no FlatBuffers packet. `GetPacket()->opcode()` follows the offsets in such bytes unverified, so that
garbage shows any opcode or ends the program (`Crash`). `received` has each message as it arrived, not
as it decrypted, so that what is delivered is compared with what was sent.

In the server a packet becomes an event with the opcode it shows, and `Referenced` is whether a `shared_ptr` to
the session is left anywhere: in a pending operation, an event, or with a sender. The accept loop runs
on the io thread like the session it starts; the first session is followed, later ones are
not. In the client a packet is dispatched to the handler of the opcode it shows, if there is one,
with the next read not yet armed; its
handler may send a packet, register another handler, or throw, and any thread may send before there
is a connection.

`Client`'s constructor calls `shared_from_this` before a `shared_ptr` owns the object, which throws
`bad_weak_ptr`; the model takes the connect as it is meant. `writeNext` needs a default constructor of
`Packet` that the class lacks (line 145 of `ClientSession.hpp`); no translation unit includes the
header. The model takes that as meant, too.

`Crypto` has the lengths `encrypt` computes, against what OpenSSL writes, each with its width: the
packet's size is narrowed from `size_t` to the `int` of `EVP_EncryptUpdate`, the sum of the two lengths
is an `int` (as it wraps in the builds, where `resize` throws on a negative one), and `writeNext` casts
the length of the result to `uint32_t`; and the limit `readHeader` applies to that. A negative length
writes nothing, which is what versions of OpenSSL that check it do; others read beyond the packet.

### EventProviders

A thread's `Fire`s in progress are a stack of frames, each with the handlers still to call and those
called; a handler is user code and may call the provider again, or throw. The asynchronous provider's
`Fire` queues copies of the handlers, which the workers call with no lock. Disconnecting after the
provider is destroyed is outside the model. The overloads with an argument are not modelled: they
keep their handlers in one static map per event and argument type, shared by all providers, and
their `Subscribe` cannot be instantiated (it erases from a map that its lambda captures as a
constant).

### StepTimer and Time

`stage` is where the holder of `m_mutex` is in `Tick`. A fixed step reads `m_targetElapsed` four
times (the test, the elapsed time, the total, the subtraction), each a step of its own, between which
another thread's `SetTargetElapsed` may fall: `torn` remembers that it did. The callback may call the
setters, throw, or call `Tick` or `ResetElapsedTime`, which block. The setters take a signed duration
(or a double), so `Targets` has negative ones; the loop then adds to `m_leftOver` instead of taking
from it, and `MaxLeft` bounds what it piles up. Time is counted in whole ticks of
the clock; `lost`, `seen` and `spent` are the books the properties keep. `GetFrameCount` counts calls
of `Tick`, where its comment speaks of simulation frames.

`Time` holds the arithmetic of `Utility/Time.hpp` with C++'s rounding towards zero and `int`'s width:
durations, differences, and the offset from UTC, for which a time zone is any pair of broken-down
times of one instant.

### ClientProgram: SubsystemManager and DebugConsole

`call` is where each thread is in a call of the manager, with the codes it is about; `holds` is the
references `Get` returned. Constructors and destructors run with the lock held, and may throw
or call the manager. Destroying an instance (`Remove`, `Clear`, or the statics' end) invalidates the
references to it, as the code has no way to tell who holds one.

The listener alternates between `getline`, which returns when the user has typed a line or closed
the input, and the command the line names; the destructor clears `m_Running` and joins. In
`ClientProgram` the main thread goes through `wWinMain`: console, failed or successful start, message
loop, clearing the subsystems, the console's end, the statics' end; a failed registration of raw input
calls `exit`, which destroys the statics under a running listener. A command may run, and construct
subsystems, after `ClearAllSubsystems`. Registering a command while the listener reads the map is
undefined: the program may crash there or not (`crashed`). Only the debug build has the console.

### MainWindow and InputQueues

Both describe the main thread and take one message as one step. `MainWindow` has the calls of
`wWinMain`, the flags `s_in_sizemove`, `s_in_suspend`, `s_minimized`, and what Windows knows of the
window. Messages are posted (one per `PeekMessage`) or sent (any number), and while the window is
dragged the system's own loop takes them. `told` and `toldSize` record what the game was told.
`InputQueues` has the queues' members, and what the user really holds; a key's messages reach
`WindowProc`'s cases with the focus, without Alt, and unless the key is F10 (`SystemKeys`), whose
messages are `WM_SYSKEYDOWN` and `WM_SYSKEYUP`; `missed` records the changes
that Windows does not report to this window. In the repository nothing reads the buffers yet
(`ProcessInput` is empty): the readers are the queues' public operations, called at any time.

## Runs

| Run | Instance | Shows |
|---|---|---|
| `thread_pool` | 3 workers, 2 clients, 4 tasks | no wake-up and no task is lost, a worker starts at most one task after `m_done`, futures are settled, the pool is a `TaskExecutor`, queued tasks start, `Stop` returns unless a worker is parked |
| `thread_pool_stop` | 2 workers, 1 client, 1 task | violation: `Stop` can wait forever |
| `thread_safe_queue` | 2 producers of 2 items each, 2 consumers | the inductive invariant, FIFO order, waiters get items |
| `async_logger` | 2 workers, 2 clients, 2 lines | what a settled future means, no line twice, calls return their own futures unless they race; `WaitAll` and `Log` return |
| `async_logger_shutdown` | 1 worker, 1 client, 1 line | violation: a task runs after the members it uses are gone |
| `connections` | server or client; 1 sender and the handlers, 2 packets of 1 chunk, window 2, 2 arrivals, any number of peers, one waiting at a time, one opcode registered beforehand | the connection keeps reading and delivers every well-formed packet, once and in order, whatever arrives between them; every packet sent is accounted for; only overlapping writes damage the stream; what is queued leaves, the session is released, a waiting peer is accepted, whatever errors and sessions come before it |
| `packet_writer_overlap` | 1 sender, 2 packets of 2 chunks | violation: the second packet overwrites the first |
| `event_providers` | one provider or the other; 3 threads of which 2 are workers, 2 subscriptions, 3 `Fire`s (2 asynchronous), nesting 2 | whom a `Fire` calls; only a handler that asks for the lock again can block; the asynchronous destructor returns with every queued call made; what a `Disconnect` cuts off |
| `client_program` | main and listener, 2 subsystem types, 3 instances, 2 lines | one instance per type, who can block, at most one command after the flag was cleared, how the program ends |
| `step_timer` | clamp 3, second 4, targets -1 to 2, 5 units left over with a negative one, 6 units of time, 3 ticks, 2 changes | time is conserved, catching up is bounded, `Tick` returns |
| `main_window` | 2 sizes, every reachable state | suspension and size as told to the game; the program ends |
| `input_queues` | 1 key and F10, 2 buttons, 2 events buffered | events tell the state; it is wrong only about changes the window missed |

Bounds. `MaxTasks`, `MaxItems`, `MaxPackets`, `MaxArrivals`, `MaxPeers`, `MaxIds`, `MaxFires`,
`MaxAsyncFires`, `MaxDepth`, `MaxInstances`, `MaxLines`, `MaxTicks`, `MaxChanges`, `MaxNow`, `MaxLeft` and
`MaxBuffer` bound the work offered, each in the guard of the step that offers it. The instances are
the smallest in which the interesting cases meet: a worker that runs, one that is parked and one that
sleeps; two tasks queued at once, and one that a task submitted; an item taken by a `pop` while a
waiter was woken for it; a write in progress and a packet queued behind it; a packet that does not
decrypt, or to garbage, before or after one that does, and a handler that registers the one the next packet
needs; a handler that disconnects while another thread fires; a command that looks for a subsystem
while main clears them; a slow update between two ticks, and a target that changes within a step; a
press and a release of one key both waiting to be read. A message of two chunks, and so a write that
is half on the wire, is in `packet_writer_overlap`. Two threads that send at once are the
sender and a handler in the client; with a stale `size()` more than one would strand packets in the
server, where `QueuedPacketLeaves` is stated of one. `main_window` has no bound. For every safety
property of these runs the proofs remove the bounds.

Symmetry is used in `input_queues` only, over the two buttons: it checks no liveness, and no
definition tells the buttons apart.

Deadlock checking is off where the system may stop: everything bounded is used up, a destroyed
component does nothing more, an idle pool sleeps. It is on in `input_queues` and `step_timer`.

### Fairness

Each specification assumes what the scheduler and the libraries give, and nothing about callers:
nobody has to submit, log, send, subscribe, type or destroy.

- A thread that can take its next step takes it (weak fairness), and one that competes for a mutex
  gets it in the end (strong fairness, as others may hold it again and again). Standard mutexes do
  not promise the latter; every scheduler the program runs on gives it in practice.
- Tasks and handlers return or throw, which is their users' duty. In `client_program` a command that
  calls the manager again and again does return in the end (strong fairness of `CommandEnds`).
- asio runs the handlers of completed operations, and a transport takes data while its connection
  lasts. Weak fairness is enough, one for what sends, one for what reads and one for the accept's
  handler: the io thread runs one handler at a time, and asio takes them in turn. An accept that is
  tried again and again succeeds in the end (strong fairness, as it may fail in between). A connection
  need not break, and a peer need not connect or send.
- Spurious wake-ups may happen and never have to.
- `main_window`: the main thread goes on while it can; the user and Windows do anything.
- `step_timer`: the thread in `Tick` goes on. Nobody has to call it, and the clock may stand.
- `client_program`: main and listener go on where the code does. Leaving the message loop is the
  user's; a line, or the end of the input, has to come for `getline` to return, which
  `ConsoleEnds` takes as its premise: without it the program waits for the user after its window is
  gone.

### Findings

1. `thread_pool_stop`: `Stop` sets `m_done` and notifies without `m_mutex`; if a worker is between its
   false predicate and its sleep, it misses both, and `join` never returns. `StopReturnsUnlessParked`
   shows that this is the only way to block, and `AsyncEventProvider`, which sets its flag with the
   mutex held, shows the repair (`DestructorReturns`).
2. `async_logger_shutdown`: `share()` empties the stored futures, so the destructor's `WaitAll` waits
   for none of the lines; the mutex and the file are destroyed while tasks still use them, as the pool
   is the first member and is destroyed last.
3. `packet_writer_overlap`: a second `sendPacket` refills the buffer under the first write.

More that the properties had to except, each told in its comment or in the list of hazards:

- `Log` calls `back()` and `share()` after it released the mutex, against "Return last added future"
  (`AsyncLogger.hpp:83`): with another `Log` or a `WaitAll` in between it returns another line's
  future, the same as another call, or an empty one (`OnlyRacesMixFutures` shows that it takes such a
  race);
- with two senders, one's stale `size()` can leave its packet and all later ones in the queue
  with no write in progress (`QueuedPacketLeaves` is stated of a server with one sender);
- a handler of the client that throws leaves the connection open and deaf (`NeverDeaf`);
- a packet of exactly `maxPacketSize` bytes is sent, and makes its receiver close the connection,
  as the limit is compared with the padded length (`LimitIsPadded`); one of 2 GiB or more is cut off
  without an error, or makes `encrypt` throw (`WholeWithinInt`);
- `isFlatbuffers` returns true for any bytes whose first two are a number below 1000, against "True if
  data is Flatbuffers packet" (`ClientSession.hpp:174`), and both `readBody`s then follow the offsets in
  them with no verifier: bytes that did not decrypt, or to no packet, may become an event, reach a
  handler or end the program (`PacketsDelivered` says that they cost no other packet its delivery);
- a fixed step with a target of 0 or less, which the setters accept, never ends (`TickReturns`,
  `SpinsWithoutTarget`), and a target that changes within a step
  invents or loses time (`TimeConserved`);
- between the two new years, the local and UTC's, the offset from UTC is two days off
  (`OffsetAtNewYear`);
- a subsystem's constructor or destructor that uses the manager blocks (`OnlyReentryBlocks`);
- a window that is restored in another size does not tell the game (`SizeKnown`), and neither does a
  suspension that was refused (`SuspendedWhenDue`);
- a key let go without the focus or with Alt down stays down, and F10 is never seen
  (`WrongOnlyIfMissed`).

## Proofs

Assumptions, all in the modules that declare the constants: the sets of workers, clients, producers,
consumers, senders and event threads are finite, those that must be disjoint are, and the bounds are
natural numbers. No set has to be non-empty, so a pool without workers (`hardware_concurrency()` may
return 0) is covered. Type correctness is the first conjunct of each invariant below.

`ThreadPoolProofs` proves `PoolInv` inductive, and from it the theorems `PoolTypeCorrect`,
`WakeupsNotLost`, `TasksKept`, `LateTasksBounded`, `DestructorSettlesFutures` and
`PoolImplementsExecutor`. `OnlyParkedMissStop` is the action behind the finding on `Stop`: after
`m_done` the set of sleepers only shrinks, and `notify_all` leaves in it exactly the workers that were
parked. Each conjunct of `PoolInv` is there because another needs it:

- `NoLostWakeup` says that while a worker sleeps there is, for every queued task, a thread about to
  look at the queue or to notify. Going to sleep keeps it only on an empty queue:
  `ParkedOnEmptyQueue`, which holds as the mutex is held from the predicate to the sleep. Taking a
  task moves one task and one thread out of the count; a notification moves one sleeper into it for
  the thread that leaves it.
- `EveryTaskInOnePlace` needs `QueueInOrder` (the queue holds the last numbers in order, so that the
  head is no task that was taken before), `RunsATask` (a worker that finishes has a task) and
  `OwnerInv` (the queue is destroyed, and its promises broken, once and after all workers have left).
- `AtMostOneLateTask` needs `LateTaskIsLast`: a worker that is at the mutex has taken no late task,
  as the loop's test has seen `m_done` false.
- `NoTaskBeforeUp` keeps `RunsATask` when the constructor fails.

The refinement maps accepted to `submitted`, started to the tasks that left the queue, running to the
workers' tasks, abandoned to the broken promises; the head of the queue is number started + 1 by
`QueueInOrder`, so that tasks start in order of submission.

The logger's theorems stand on these. `LoggerStepsPool` shows that each of its steps is a step of the
pool or leaves it alone, so that `PoolInv` holds of the logger as it is, and the logger's pool is
still an executor (`LoggerImplementsExecutor`). `LinesInv` then relates the
lines to the tasks: what was written was written by a task that ended or is past that block
(`WrittenByTask`), which with a task in one place gives `NoLineTwice`, and such a task has written its
line (`TaskWrote`), which gives `ReadyMeansWritten`; `StageInv` says that no task precedes the opening
of the file. `FutureTypeOK` keeps the references and the cursor of `WaitAll` within `m_futures`. With
`AliveInv` (the pool is stopped only after every `WaitAll`) and `EveryTaskInOnePlace` it follows that
`WaitAll` waits for no line that cannot come (`AwaitedLineAlive`), the safety behind `WaitAllReturns`.
`SoloInv` is what holds, for any threads that log and wait, until somebody takes `m_futuresMutex` while
another is past it: at most one call is past it, and the last element is its future and the only
valid one. So every call returns the future of its own line (`FuturesReturned`), and `WaitAll`, the
destructor's too, never finds a future to wait for (`WaitAllWaitsForNothing`): the general form of the
finding on the shutdown. Where somebody does take the mutex in between, nothing is promised of the
futures: `back()` and `share()` then belong to whoever comes first.

`ThreadSafeQueueProofs` proves `QueueInv` (`QueueInvariant`), no lost wake-up with takers that do not
wait (`QueueWakeupsNotLost`), and the refinement of `FifoQueue` (`QueueImplementsFifo`). It needs
`ParkedOnEmptyQueue` for the same reason, and `NothingLostOrReordered`, pushed = popped followed by
queued, for the refinement.

`ConnectionProofs` takes reading and writing apart, as they share only the socket and the io thread:

- `ConnectionsListen` (`NeverDeaf`) needs nothing but that a step of the writers leaves the reader
  alone or closes the socket.
- `DeliversThePackets` (`PacketsDelivered`) has a half for each end, and both rest on `BodyShows`: a
  well-formed body shows its own opcode and no other, and a short one none, whatever garbage shows. In
  the client whether a packet was delivered is decided by what was registered when it arrived
  (`since`), which no later registration changes (`HandlersCalled`). In the server an increasing map
  takes events to packets (`Picks`) and reaches every well-formed one; a body that becomes an event
  extends it by one point, a body that does not was not well-formed.
- `PacketsNotLost` needs `AccountInv`: packets are numbered in the order of their push, the queue
  holds the last numbers and the packets in a `writeNext` are different ones before them
  (`PacketsInOrder`), so that popping moves one packet from the first to the second term of
  `PacketsCounted`.
- `StreamUndamaged` (`OnlyOverlapDamages`) needs `StreamInv`, which says what holds until a fill
  overlaps something: at most one thread has filled the buffer, and then no write is in flight
  (`OneFills`); at most one write is, of the packet in the buffer (`OneInFlight`); what is on the wire
  is of packets no thread holds any more (`FreshAhead`); and the wire ends where the write in flight
  has got to (`Aligned`). The last is arithmetic modulo the size of a message, any size, in the
  section on the place of a piece in its message.
- `OneSenderPops` (from `QueueInv`) is the safety behind `QueuedPacketLeaves`: with one sender a packet
  waits in the server's queue only while that sender is about to pop.
- `OpenSessionHeld` and `ReleasedForGood` (from `LifeInv`: who is inside `sendPacket` holds the session)
  are about shared ownership: a session is not destroyed before its socket is closed, and when it is
  nothing is left that could still use it. They are the safety behind `SessionReleased`.
- `BufferSuffices`, `WholeWithinInt` and `LimitIsPadded` are about every size of a packet, with what the
  conversions to `int` and `uint32_t` make of it. `encrypt` never writes beyond its buffer, as a narrowed
  size is never larger than the size; from 2^31 - 16 on it may throw, and `Returns` says that it did not.

`EventProofs` proves `EventInv` for both providers: every frame is a partition of the handlers that
are subscribed (`FramesFor`), which an unsubscription cannot spoil as it finds no frame, and
identifiers stay below the bound because each caller that waits to subscribe has one to come. For the
asynchronous one `AsyncInv` adds that every number is queued, running or returned (`NumbersKept`) and
that no worker leaves a queue with calls in it, nor uses the provider without one (`Drained`); with at
least one worker this gives `AllTasksRun` (`CallsNotLost`). Without workers the calls do stay behind.
Three theorems are the safety behind `OnlyHandlersBlock` and `DestructorReturns`: a handler of the
synchronous provider that subscribes or disconnects freezes its thread and the list for good
(`ReentryFreezes`); no thread of the asynchronous one asks for the lock while it has it, as `Fire`
calls nobody (`AsyncNeverAsksAgain`, from `OnlyQueues`); and after its destructor's `notify_all` no
worker sleeps (`StopReachesWorkers`, from `StopInv`: with `m_Stop` set under the mutex none is parked).

`TimeProofs` proves `TimerInv`: `Balance` says what a fixed step has taken from `m_leftOver` and not
yet given, or the reverse, at each stage; `TestHolds` that the loop's test is still true where its
value is used, which is what a target changed under it destroys; and `LeftOverBounded` that a `Tick`
leaves at most the largest target behind, from which the next one's bound follows (a negative target
leaves that sum alone: what it adds to the rest it takes from what was simulated). `SpinsWithoutTarget`
is why `TickReturns` excepts a target of 0 or less: no pass of the loop is then the last. About `Time`:
`DurationShown`, `DaysAreWholeDays` (rounding twice is rounding once), `OffsetWithinAYear` and
`OffsetAtNewYear`, for all arguments.

`SubsystemProofs` proves `SubsystemInv`, for any threads and types and then in the program
(`ProgramSharesSubsystems`): what `Get` did not find is still missing when it stores its own
(`StillMissing`), as the lock is held while it constructs (`LockHeld`). `LockGivenBack` and
`ReentryFreezesManager` are the two sides of `OnlyReentryBlocks`: the lock is held only from inside a
constructor or a destructor, and one that uses the manager stops it for good. `LateInv` gives
`OneLateCommand`: after the late command comes the loop's test. `EndInv` gives `AloneAtTheEnd`: whoever
holds the lock is in a call (`HolderInside`), the listener is in one only from a command, and the
console is down only when the listener was joined (`Joined`).

`MainWindowProofs` proves `SuspensionCorrect`, for any set of sizes: the flags of `WindowProc` follow
the window (`FlagsFollow`: `s_minimized` is what Windows says of an existing window, and a minimized
window is suspended), which is what `Restore` and the resumption need to undo each suspension once.
`SizeIsKnown` adds that `s_in_sizemove` follows the drag (`DragFollows`), as a size is told when the
drag ends or at once. `NothingLeftBehind` (from `Leaving`) is the safety behind `EndsAfterDestruction`:
the loop is left by one branch only, which has seen the window gone and unregisters its class.

`InputQueuesProofs` proves `InputKnown` and `EventsTell`, for any keys, buttons and buffers.
`WrongOnlyIfMissed` is inductive once keys and buttons are known to be disjoint (`InputAssumption`) and
the two states to hold one kind each. `EventsTellTheState` says of each key what the last of its events
that wait is, so that appending an event, taking the first and clearing each have a lemma about
`DownAfter`.

Every safety property of the runs that pass is a theorem. Only model-checked are the liveness
properties, as fairness and ENABLED are beyond the proof system; where one has a safety statement
behind it that says why nobody waits in vain, that statement is a theorem. `QueuedTaskStarts` is
checked with workers; without any it is false.

## Not modelled

- Data races as such. Where two threads touch the write buffer the model makes its content arbitrary,
  and where they touch the console's commands it lets the program crash; calls on one asio socket
  from two threads are taken as one step each.
- Cryptography: a packet that does not decrypt gives arbitrary bytes, of which the receiver notices
  only the size and the first two bytes. The ciphers are OpenSSL's. What a read beyond the bytes of a
  packet does, other than end the program or show an arbitrary opcode, is not followed. `Packet.hpp` and the opcodes are plain data,
  which the kinds of packets stand for.
- An `EventConnection` that outlives its provider, the overloads with an argument, and an asynchronous
  handler that throws, which ends the program.
- The destruction of a `Server` with an accept pending, and of a handler by the registration it makes
  for the opcode it is running for.
- Collisions of two subsystem types' hash codes.
- Positions of the mouse, `KeyboardQueue::Clear` (private, and run on empty buffers only), and the
  growth of what nobody reads: the input buffers and the logger's futures grow without a bound.
- Formatting and parsing of times, and the rest of the calendar: the standard library's, as is
  `tm_isdst`.
- The program's exit while the pool of a static logger still runs. The game's `Logger` is a formatter
  around `AsyncLogger`.
- `File.hpp` is pure input and output, `EnumFlags.hpp` and `FunctionBinder.hpp` are stateless
  templates, `Graphics` is empty, `src/Server` prints one line, `Obfuscator.h` is a third party's.

## Plan

Done: the pool and what is built on it, the queue, both ends of a connection with the accept loop, the
event providers, the timer, the client program with its subsystems and console, the window and the
input queues; and a proof of every safety property that a run checks.

Left for when the code grows:

1. `EventProvider` with arguments, once its `Subscribe` compiles: the static map that providers share.
2. `Server` and game loop, once the server's program exists: who reads the event queue and how many
   sessions there are.
3. The readers of the input queues, once `ProcessInput` has a body: what a frame may find in them.
