---------------------------- MODULE AsyncLogger -----------------------------
(***************************************************************************)
(* Core/Utility/AsyncLogger.hpp on top of the ThreadPool it owns: Log      *)
(* submits a task that writes one line to the file and to the console,     *)
(* stores the task's future and returns what back().share() gives; WaitAll *)
(* waits for the stored futures that are still valid; the destructor calls *)
(* WaitAll, closes the file, and destroys the members in reverse order of  *)
(* declaration, the pool last.                                             *)
(*                                                                         *)
(* A log line is named by the number of the pool task that writes it.      *)
(* back() and share() are called with no lock, and share() first reads the *)
(* shared state and then empties the stored future: each is a step.  A     *)
(* state that two futures own is not followed beyond that.                 *)
(***************************************************************************)
EXTENDS ThreadPool

CONSTANT Destructor     \* the thread that destroys the logger

ASSUME DestructorAssumption == Destructor \notin Threads

VARIABLES
    stage,      \* life of the logger
    logPc,      \* client -> where its call of Log is
    line,       \* client -> the line its call of Log is about
    ref,        \* client -> index of the element its back() refers to, 0 if
                \*   there is none or it has been destroyed since
    got,        \* client -> the line whose state its share() has read
    m_futures,  \* stored futures: [line, valid], in the order stored
    waiter,     \* the thread inside WaitAll, holding m_futuresMutex, or NoOne
    cursor,     \* index of the future WaitAll looks at, 1 when nobody is in it
    waitPc,     \* where WaitAll is with it: "look", "take" or "get"
    body,       \* worker -> where the task it runs is
    file,       \* lines in the log file
    console,    \* lines on the console
    returned,   \* history: the line of each call that returned, with the line
                \*   of the future it returned, or NoFuture
    raced,      \* history: m_futuresMutex was taken while a call of Log was
                \*   past it
    dangling    \* history: an object was used after its destruction

callVars == <<logPc, line, ref, got>>
waitVars == <<waiter, cursor, waitPc>>
futuresVars == <<callVars, m_futures, waitVars, returned, raced>>
outputVars == <<body, file, console>>
loggerVars == <<stage, futuresVars, outputVars, dangling>>
lvars == <<vars, loggerVars>>

(* building: the pool is built, the file not opened; waiting, waited: the  *)
(* destructor is in WaitAll, past it; gone: m_futuresMutex, m_futures,     *)
(* m_mutex and m_file are destroyed and ~ThreadPool is next.               *)
FileOpen == stage \in {"open", "waiting", "waited"}

NoOne == "nobody"
NoFuture == 0           \* what share() returns for a future already shared

FuturesMutexFree == waiter = NoOne

(* Calls of Log that use m_futures after they released m_futuresMutex.     *)
PastLock(c) == logPc[c] \in {"back", "share", "empty"}
TakesLock == raced' = (raced \/ \E c \in Clients : PastLock(c))

LoggerInit ==
    /\ Init
    /\ stage = "building"
    /\ logPc = [c \in Clients |-> "idle"]
    /\ line = [c \in Clients |-> 0]
    /\ ref = [c \in Clients |-> 0]
    /\ got = [c \in Clients |-> NoFuture]
    /\ m_futures = << >>
    /\ waiter = NoOne /\ cursor = 1 /\ waitPc = "look"
    /\ body = [w \in Workers |-> "none"]
    /\ file = << >> /\ console = << >>
    /\ returned = {} /\ raced = FALSE
    /\ dangling = FALSE

-----------------------------------------------------------------------------
(* Constructor: m_pool is built first, then m_file is opened; if that      *)
(* fails the throw destroys m_file and then m_pool, with its Stop.         *)
OpenFile ==
    /\ owner = "up"
    /\ stage = "building"
    /\ stage' \in {"open", "gone"}
    /\ UNCHANGED <<vars, futuresVars, outputVars, dangling>>

(* Log: m_pool.Submit, ...                                                 *)
LogSubmit(c) ==
    /\ stage = "open"
    /\ logPc[c] = "idle" /\ waiter # c
    /\ Submit(c)
    /\ logPc' = [logPc EXCEPT ![c] = "store"]
    /\ line' = [line EXCEPT ![c] = submitted + 1]
    /\ UNCHANGED <<stage, ref, got, m_futures, waitVars, returned, raced, outputVars,
                   dangling>>

(* ... emplace_back of the future, which may move all the elements to a    *)
(* larger array, ...                                                       *)
StoreFuture(c) ==
    /\ logPc[c] = "store"
    /\ pc[c] = "idle"
    /\ m_futures' = Append(m_futures, [line |-> line[c], valid |-> TRUE])
    /\ logPc' = [logPc EXCEPT ![c] = "back"]
    /\ ref' \in {ref, [d \in Clients |-> 0]}
    /\ TakesLock
    /\ UNCHANGED <<vars, stage, line, got, waitVars, returned, outputVars, dangling>>

(* Fault: emplace_back without a lock. *)
LogStoreUnlocked(c) == StoreFuture(c)

(* ... under m_futuresMutex, ...                                           *)
LogStore(c) == FuturesMutexFree /\ StoreFuture(c)

(* ... back(), with no lock, ...                                           *)
LogBack(c) ==
    /\ logPc[c] = "back"
    /\ ref' = [ref EXCEPT ![c] = Len(m_futures)]
    /\ logPc' = [logPc EXCEPT ![c] = "share"]
    /\ UNCHANGED <<vars, stage, line, got, m_futures, waitVars, returned, raced,
                   outputVars, dangling>>

(* ... share() on the element it refers to, which reads its shared state,  *)
(* and finds none if it was shared before; with no element the access is   *)
(* undefined, and whatever it reads is no future of a line, ...            *)
ShareRead(c) ==
    /\ logPc[c] = "share"
    /\ logPc' = [logPc EXCEPT ![c] = "empty"]
    /\ got' = [got EXCEPT ![c] = IF ref[c] # 0 /\ m_futures[ref[c]].valid
                                 THEN m_futures[ref[c]].line ELSE NoFuture]
    /\ dangling' = (dangling \/ ref[c] = 0)
    /\ UNCHANGED <<vars, stage, line, ref, m_futures, waitVars, returned, raced, outputVars>>

(* ... and then empties the stored future.                                 *)
ShareEmpty(c) ==
    /\ logPc[c] = "empty"
    /\ m_futures' = IF ref[c] = 0 THEN m_futures
                    ELSE [m_futures EXCEPT ![ref[c]].valid = FALSE]
    /\ dangling' = (dangling \/ ref[c] = 0)
    /\ returned' = returned \cup {[line |-> line[c], future |-> got[c]]}
    /\ logPc' = [logPc EXCEPT ![c] = "idle"]
    /\ line' = [line EXCEPT ![c] = 0]
    /\ ref' = [ref EXCEPT ![c] = 0]
    /\ got' = [got EXCEPT ![c] = NoFuture]
    /\ UNCHANGED <<vars, stage, waitVars, raced, outputVars>>

-----------------------------------------------------------------------------
(* WaitAll holds m_futuresMutex from its first to its last step.           *)
WaitBegin(t) ==
    /\ FuturesMutexFree
    /\ \/ t \in Clients /\ stage = "open" /\ logPc[t] = "idle"
       \/ t = Destructor /\ stage = "waiting"
    /\ waiter' = t
    /\ TakesLock
    /\ UNCHANGED <<vars, stage, callVars, cursor, waitPc, m_futures, returned, outputVars, dangling>>

(* One turn of its loop: if(fut.valid()), ...                              *)
WaitLook ==
    /\ waiter # NoOne /\ waitPc = "look"
    /\ cursor <= Len(m_futures)
    /\ IF m_futures[cursor].valid
       THEN waitPc' = "take" /\ UNCHANGED cursor
       ELSE cursor' = cursor + 1 /\ UNCHANGED waitPc
    /\ UNCHANGED <<vars, stage, callVars, m_futures, waiter, returned, raced,
                   outputVars, dangling>>

(* ... fut.get(), which moves the state out of the stored future, or       *)
(* throws, out of WaitAll, when a share() has emptied it in between, ...   *)
WaitTake ==
    /\ waiter # NoOne /\ waitPc = "take"
    /\ m_futures' = [m_futures EXCEPT ![cursor].valid = FALSE]
    /\ IF m_futures[cursor].valid
       THEN waitPc' = "get" /\ UNCHANGED <<waiter, cursor>>
       ELSE waitPc' = "look" /\ waiter' = NoOne /\ cursor' = 1
    /\ UNCHANGED <<vars, stage, callVars, returned, raced, outputVars, dangling>>

(* ... and returns once the line's task has run.                           *)
WaitGet ==
    /\ waiter # NoOne /\ waitPc = "get"
    /\ m_futures[cursor].line \in ready
    /\ waitPc' = "look"
    /\ cursor' = cursor + 1
    /\ UNCHANGED <<vars, stage, callVars, m_futures, waiter, returned, raced,
                   outputVars, dangling>>

(* m_futures.clear(), which destroys the elements, ...                     *)
ClearFutures ==
    /\ waiter # NoOne /\ waitPc = "look"
    /\ cursor > Len(m_futures)
    /\ m_futures' = << >>
    /\ ref' = [c \in Clients |-> 0]
    /\ cursor' = 1
    /\ stage' = IF waiter = Destructor THEN "waited" ELSE stage
    /\ UNCHANGED <<vars, logPc, line, got, waitPc, returned, raced, outputVars,
                   dangling>>

(* Fault: a plain lock whose unlock is forgotten. *)
WaitEndLocked == ClearFutures /\ UNCHANGED waiter

(* ... and the unlock.                                                     *)
WaitEnd == ClearFutures /\ waiter' = NoOne

WaitStep == WaitLook \/ WaitTake \/ WaitGet \/ WaitEnd

(* The destructor starts when no thread is inside Log or WaitAll, ...      *)
Destroy ==
    /\ stage = "open"
    /\ waiter = NoOne
    /\ \A c \in Clients : logPc[c] = "idle"
    /\ stage' = "waiting"
    /\ UNCHANGED <<vars, futuresVars, outputVars, dangling>>

(* ... closes m_file, without m_mutex, when its WaitAll has returned, ...  *)
CloseFile ==
    /\ stage = "waited"
    /\ stage' = "closed"
    /\ UNCHANGED <<vars, futuresVars, outputVars, dangling>>

(* ... and when its body is over all members but m_pool are destroyed.     *)
DestroyMembers ==
    /\ stage = "closed"
    /\ stage' = "gone"
    /\ UNCHANGED <<vars, futuresVars, outputVars, dangling>>

-----------------------------------------------------------------------------
(* The task Log submits, run by a worker of the pool.                      *)
StartBody(w) ==
    /\ TakeTask(w)
    /\ body' = [body EXCEPT ![w] = "file"]
    /\ UNCHANGED <<stage, futuresVars, file, console, dangling>>

(* m_file << ...; a line written to a closed stream is dropped without a   *)
(* word.                                                                   *)
AppendToFile(w) ==
    /\ body[w] = "file"
    /\ file' = IF FileOpen THEN Append(file, task[w]) ELSE file
    /\ dangling' = (dangling \/ stage = "gone")
    /\ UNCHANGED <<vars, stage, futuresVars, console>>

(* Fault: the block is run again, as after an error of the stream. *)
WriteFileAgain(w) ==
    /\ Len(file) < 2 * MaxTasks
    /\ AppendToFile(w)
    /\ body' \in {body, [body EXCEPT ![w] = "console"]}

(* Fault: the task locks m_futuresMutex in place of m_mutex. *)
WriteFileWrongMutex(w) ==
    FuturesMutexFree /\ AppendToFile(w) /\ body' = [body EXCEPT ![w] = "console"]

(* The first block, under m_mutex.                                         *)
WriteFile(w) == AppendToFile(w) /\ body' = [body EXCEPT ![w] = "console"]

(* The second block, under m_mutex again.                                  *)
WriteConsole(w) ==
    /\ body[w] = "console"
    /\ body' = [body EXCEPT ![w] = "done"]
    /\ console' = Append(console, task[w])
    /\ dangling' = (dangling \/ stage = "gone")
    /\ UNCHANGED <<vars, stage, futuresVars, file>>

EndFrom(w, where) ==
    /\ body[w] = where
    /\ FinishTask(w)
    /\ body' = [body EXCEPT ![w] = "none"]
    /\ UNCHANGED <<stage, futuresVars, file, console, dangling>>

(* Fault: the second block is skipped. *)
EndWithoutConsole(w) == EndFrom(w, "console")

EndBody(w) == EndFrom(w, "done")

-----------------------------------------------------------------------------
(* Steps of the pool that the logger does not see; ~ThreadPool runs once   *)
(* the other members are gone.                                             *)
Acquire(w) ==
    \/ StartBody(w)
    \/ (ReturnEmpty(w) \/ PredicateFalse(w)) /\ UNCHANGED loggerVars

PoolWorker(w) ==
    /\ StartThread(w) \/ LoopTest(w) \/ Park(w) \/ SpuriousWake(w)
    /\ UNCHANGED loggerVars

PoolOwner ==
    /\ \/ StartThrows
       \/ StartDone
       \/ StoreDone /\ stage = "gone"
       \/ NotifyAll
       \/ JoinAndDestroy
    /\ UNCHANGED loggerVars

Notify(c) == NotifyOne(c) /\ UNCHANGED loggerVars

LoggerNext ==
    \/ OpenFile \/ Destroy \/ CloseFile \/ DestroyMembers \/ PoolOwner
    \/ \E c \in Clients : LogSubmit(c) \/ Notify(c)
    \/ \E c \in Clients : LogStore(c) \/ LogBack(c) \/ ShareRead(c) \/ ShareEmpty(c)
    \/ \E t \in Clients \cup {Destructor} : WaitBegin(t)
    \/ WaitStep
    \/ \E w \in Workers : Acquire(w) \/ PoolWorker(w)
    \/ \E w \in Workers : WriteFile(w) \/ WriteConsole(w) \/ EndBody(w)

LoggerSpec == LoggerInit /\ [][LoggerNext]_lvars

(* The scheduling ThreadPool assumes, with the same for the threads inside *)
(* Log and WaitAll.  Nobody has to call Log or WaitAll, or to destroy.     *)
WorkerGoesOn(w) ==
    \/ (LoopTest(w) \/ Park(w)) /\ UNCHANGED loggerVars
    \/ Acquire(w) \/ WriteFile(w) \/ WriteConsole(w) \/ EndBody(w)
ClientGoesOn(c) ==
    LogStore(c) \/ Notify(c) \/ LogBack(c) \/ ShareRead(c) \/ ShareEmpty(c)

LoggerFairness ==
    /\ \A w \in Workers : SF_lvars(WorkerGoesOn(w))
    /\ \A c \in Clients : SF_lvars(ClientGoesOn(c))
    /\ WF_lvars(WaitStep)

LoggerFairSpec == LoggerSpec /\ LoggerFairness

-----------------------------------------------------------------------------
(* Properties.                                                             *)

(* As long as the file is open, a settled future means its line is in the  *)
(* file and on the console, once each, whichever worker wrote it and       *)
(* whatever the others were writing.                                       *)
ReadyMeansWritten ==
    FileOpen =>
        \A i \in ready :
            /\ \E k \in 1 .. Len(file) : file[k] = i
            /\ \E k \in 1 .. Len(console) : console[k] = i

NoLineTwice ==
    /\ \A j, k \in 1 .. Len(file) : file[j] = file[k] => j = k
    /\ \A j, k \in 1 .. Len(console) : console[j] = console[k] => j = k

(* Line 83, "Return last added future", and line 52, "@return              *)
(* std::future<void> for the log task.": a call of Log returns the future  *)
(* of its own line.                                                        *)
ReturnsItsFuture == \A r \in returned : r.future = r.line

(* It does as long as no thread takes m_futuresMutex, in Log or in         *)
(* WaitAll, while another one is past it in Log, whatever they log and     *)
(* clear before and after.                                                 *)
OnlyRacesMixFutures == ~raced => ReturnsItsFuture

(* A call of WaitAll returns although it holds m_futuresMutex while it     *)
(* waits for tasks: no task needs that mutex.                              *)
WaitAllReturns == waiter # NoOne ~> waiter = NoOne

(* A call of Log returns, even when WaitAll is at work.                    *)
LogReturns == \A c \in Clients : logPc[c] # "idle" ~> logPc[c] = "idle"

(* Line 16, "Async logger with safe shutdown.", line 19, "Guarantees all   *)
(* logs complete before destruction.", and line 38, "Destructor: waits for *)
(* all pending log tasks.": no task of Log is still at work, with m_mutex  *)
(* and m_file, when these have been destroyed.                             *)
SafeShutdown == ~dangling
=============================================================================
