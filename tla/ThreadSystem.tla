---------------------------- MODULE ThreadSystem ----------------------------
(***************************************************************************)
(* cpp-utils/thread/ThreadSystem.cpp and LoopThread.cpp: loop threads that *)
(* are stopped before every fork() of the process and started again after  *)
(* it, together with the two kinds of loops cryfs runs: the generator that *)
(* refills the pool of pseudo random bytes (cpp-utils/random) and periodic *)
(* tasks (blockstore caching/cache/PeriodicTask.cpp), which use the pool,  *)
(* lock the stores they write to, end themselves, or fork (unmounting).    *)
(*                                                                         *)
(* A fork is followed by exec() in the child, or is the daemonizing of a   *)
(* process whose only other threads are loop threads: in both cases one    *)
(* process goes on, with the state this module has after the fork.         *)
(***************************************************************************)
EXTENDS Integers, Sequences, FiniteSets

CONSTANTS
    Clients,            \* threads that ask for random bytes
    Main,               \* a thread that owns the task and forks
    Task, Generator,    \* the loop threads
    Requests,           \* numbers of bytes asked for
    MinSize, MaxSize,   \* MIN_BUFFER_SIZE, MAX_BUFFER_SIZE
    NoThread

VARIABLES
    _runningThreads,    \* the loop threads ThreadSystem knows of
    _mutex,             \* the thread that holds ThreadSystem::_mutex
    loop,               \* where each loop thread is; "none" when there is no joinable thread
    interrupted,        \* loop threads with a pending interruption request
    forking,            \* where Main and Task are in fork()
    handle,             \* the task's LoopThread, as its owner sees it
    pool,               \* Random::PseudoRandom(): "none", the thread constructing it, or "ready"
    _data, _usedUntil,  \* RandomDataBuffer: each byte "fresh" or already "handed" out
    needed,             \* neededRandomDataSize of the generator's iteration
    get,                \* per getter: where it is in get(), bytes asked for, alreadyGotten
    storeMutex,         \* Main holds a mutex of the stores the task writes to
    reused              \* ghost: a byte was handed out twice

LoopThreads == {Task, Generator}
Forkers == {Main, Task}
Getters == Clients \cup {Task}

tvars == <<_runningThreads, _mutex, loop, interrupted, forking, handle>>
rvars == <<pool, _data, _usedUntil, needed, get, reused>>
threadVars == <<tvars, rvars, storeMutex>>

NoGet == [pc |-> "idle", want |-> 0, got |-> 0]

ThreadsInit ==
    /\ _runningThreads = {}
    /\ _mutex = NoThread
    /\ loop = [t \in LoopThreads |-> "none"]
    /\ interrupted = {}
    /\ forking = [f \in Forkers |-> "idle"]
    /\ handle = "none"
    /\ pool = NoThread
    /\ _data = <<>> /\ _usedUntil = 0
    /\ needed = 0
    /\ get = [g \in Getters |-> NoGet]
    /\ storeMutex = FALSE
    /\ reused = FALSE

(***************************************************************************)
(* _runThread(): an interruption point, then loopIteration().              *)
(***************************************************************************)
FirstPc(t) == IF t = Task THEN "sleep" ELSE "wait"

InterruptionPoint(t) ==
    /\ loop[t] = "top"
    /\ loop' = [loop EXCEPT ![t] = IF t \in interrupted THEN "ended" ELSE FirstPc(t)]
    /\ interrupted' = interrupted \ {t}
    /\ UNCHANGED <<_runningThreads, _mutex, forking, handle, rvars, storeMutex>>

\* start(), without the lock around it
StartThread(t) ==
    /\ loop' = [loop EXCEPT ![t] = "top"]
    /\ interrupted' = interrupted \ {t}
    /\ _runningThreads' = _runningThreads \cup {t}

(***************************************************************************)
(* The buffer of random bytes.                                             *)
(***************************************************************************)
Size == Len(_data) - _usedUntil

\* RandomDataBuffer::get
Take(n) ==
    /\ reused' = (reused \/ \E i \in (_usedUntil + 1) .. (_usedUntil + n) : _data[i] = "handed")
    /\ _data' = [i \in DOMAIN _data |-> IF i \in (_usedUntil + 1) .. (_usedUntil + n) THEN "handed" ELSE _data[i]]
    /\ _usedUntil' = _usedUntil + n

\* mutant: the bytes that were used stay in the buffer
KeepsUsedBytes(n) ==
    /\ _data' = _data \o [i \in 1 .. n |-> "fresh"]
    /\ _usedUntil' = 0

\* RandomDataBuffer::add
Add(n) ==
    /\ _data' = SubSeq(_data, _usedUntil + 1, Len(_data)) \o [i \in 1 .. n |-> "fresh"]
    /\ _usedUntil' = 0

AskFor(g, n) ==
    /\ get[g].pc = "idle"
    /\ get' = [get EXCEPT ![g] = [pc |-> "pool", want |-> n, got |-> 0]]
    /\ UNCHANGED <<pool, _data, _usedUntil, needed, reused>>

\* PseudoRandom(): the first caller constructs the pool under Random::_mutex, which others wait for
PseudoRandom(g) ==
    /\ get[g].pc = "pool"
    /\ pool \in {NoThread, "ready"}
    /\ get' = [get EXCEPT ![g].pc = IF pool = NoThread THEN "start" ELSE "get"]
    /\ pool' = IF pool = NoThread THEN g ELSE pool
    /\ UNCHANGED <<tvars, _data, _usedUntil, needed, reused, storeMutex>>

\* PseudoRandomPool's constructor starts the refill thread
StartRefillThread(g) ==
    /\ get[g].pc = "start"
    /\ _mutex = NoThread
    /\ StartThread(Generator)
    /\ pool' = "ready"
    /\ get' = [get EXCEPT ![g].pc = "get"]
    /\ UNCHANGED <<_mutex, forking, handle, _data, _usedUntil, needed, reused, storeMutex>>

\* one round of the loop in ThreadsafeRandomDataBuffer::get, which asks _get for numBytes each time
GetSome(g) ==
    /\ get[g].pc = "get"
    /\ Size > 0
    /\ LET gettableBytes == IF Size < get[g].want THEN Size ELSE get[g].want
           alreadyGotten == get[g].got + gettableBytes
       IN  /\ Take(gettableBytes)
           /\ get' = [get EXCEPT ![g] =
                CASE alreadyGotten < get[g].want -> [@ EXCEPT !.got = alreadyGotten]
                  [] alreadyGotten = get[g].want -> NoGet
                  [] OTHER -> [@ EXCEPT !.pc = "too many"]]
           /\ loop' = IF g # Task THEN loop
                      ELSE [loop EXCEPT ![Task] = CASE alreadyGotten < get[g].want -> "get"
                                                    [] alreadyGotten = get[g].want -> "top"
                                                    [] OTHER -> "ended"]
    /\ UNCHANGED <<_runningThreads, _mutex, interrupted, forking, handle, pool, needed, storeMutex>>

\* the failed ASSERT left get(); a client goes on with its next request
GetThrew(g) ==
    /\ get[g].pc = "too many"
    /\ get' = [get EXCEPT ![g] = NoGet]
    /\ UNCHANGED <<tvars, pool, _data, _usedUntil, needed, reused, storeMutex>>

Request(c, n) ==
    /\ AskFor(c, n)
    /\ UNCHANGED <<tvars, storeMutex>>

(***************************************************************************)
(* RandomGeneratorThread::_loopIteration                                   *)
(***************************************************************************)
LoopGoes(t, pc) == loop' = [loop EXCEPT ![t] = pc]

\* a thread that waits on a boost condition or sleeps can be interrupted there
IsInterrupted(t) ==
    /\ t \in interrupted
    /\ interrupted' = interrupted \ {t}
    /\ LoopGoes(t, "ended")
    /\ UNCHANGED <<_runningThreads, _mutex, forking, handle>>

WaitUntilSizeIsLessThan ==
    /\ loop[Generator] = "wait"
    /\ \/ /\ Size < MinSize
          /\ LoopGoes(Generator, "size")
          /\ UNCHANGED <<_runningThreads, _mutex, interrupted, forking, handle>>
       \/ Size >= MinSize /\ IsInterrupted(Generator)
    /\ UNCHANGED <<rvars, storeMutex>>

NeededSize ==
    /\ loop[Generator] = "size"
    /\ needed' = MaxSize - Size
    /\ LoopGoes(Generator, "assert")
    /\ UNCHANGED <<_runningThreads, _mutex, interrupted, forking, handle, pool, _data, _usedUntil, get, reused, storeMutex>>

\* the ASSERT looks at the size a second time
CheckSize ==
    /\ loop[Generator] = "assert"
    /\ LoopGoes(Generator, IF MaxSize > Size THEN "add" ELSE "ended")
    /\ UNCHANGED <<_runningThreads, _mutex, interrupted, forking, handle, rvars, storeMutex>>

AddRandomData ==
    /\ loop[Generator] = "add"
    /\ Add(needed)
    /\ needed' = 0
    /\ LoopGoes(Generator, "top")
    /\ UNCHANGED <<_runningThreads, _mutex, interrupted, forking, handle, pool, get, reused, storeMutex>>

(***************************************************************************)
(* PeriodicTask::_loopIteration: sleep, then the task.                     *)
(***************************************************************************)
Sleep ==
    /\ loop[Task] = "sleep"
    /\ \/ LoopGoes(Task, "task") /\ UNCHANGED <<_runningThreads, _mutex, interrupted, forking, handle>>
       \/ IsInterrupted(Task)
    /\ UNCHANGED <<rvars, storeMutex>>

TaskUsesPool(n) ==
    /\ loop[Task] = "task"
    /\ AskFor(Task, n)
    /\ LoopGoes(Task, "get")
    /\ UNCHANGED <<_runningThreads, _mutex, interrupted, forking, handle, storeMutex>>

TaskUsesStore ==
    /\ loop[Task] = "task"
    /\ LoopGoes(Task, "store")
    /\ UNCHANGED <<_runningThreads, _mutex, interrupted, forking, handle, rvars, storeMutex>>

StoreDone ==
    /\ loop[Task] = "store"
    /\ ~storeMutex
    /\ LoopGoes(Task, "top")
    /\ UNCHANGED <<_runningThreads, _mutex, interrupted, forking, handle, rvars, storeMutex>>

\* waiting for random bytes is an interruption point as well: it cuts the task off
TaskInterrupted ==
    /\ loop[Task] = "get" /\ get[Task].pc = "get"
    /\ Size = 0
    /\ IsInterrupted(Task)
    /\ get' = [get EXCEPT ![Task] = NoGet]
    /\ UNCHANGED <<pool, _data, _usedUntil, needed, reused, storeMutex>>

\* the iteration returns false, or throws
TaskEnds ==
    /\ loop[Task] = "task"
    /\ LoopGoes(Task, "ended")
    /\ UNCHANGED <<_runningThreads, _mutex, interrupted, forking, handle, rvars, storeMutex>>

(***************************************************************************)
(* fork(), with the handlers given to pthread_atfork.                      *)
(***************************************************************************)
Fork(f) ==
    /\ forking[f] = "idle"
    /\ f = Task => loop[Task] = "task"
    /\ f = Main => handle # "stopping"
    /\ forking' = [forking EXCEPT ![f] = "wants mutex"]
    /\ loop' = IF f = Task THEN [loop EXCEPT ![Task] = "fork"] ELSE loop
    /\ \/ UNCHANGED storeMutex
       \/ f = Main /\ storeMutex' = TRUE
    /\ UNCHANGED <<_runningThreads, _mutex, interrupted, handle, rvars>>

\* _stopAllThreadsForRestart: lock, interrupt all but the calling thread
InterruptAll(f) ==
    /\ forking[f] = "wants mutex"
    /\ _mutex = NoThread
    /\ _mutex' = f
    /\ interrupted' = interrupted \cup (_runningThreads \ {f})
    /\ forking' = [forking EXCEPT ![f] = "joining"]
    /\ UNCHANGED <<_runningThreads, loop, handle, rvars, storeMutex>>

\* mutant: the threads that were joined are not started again
RestartsNothing(f) ==
    /\ forking[f] = "joining"
    /\ \A t \in _runningThreads \ {f} : loop[t] = "ended"
    /\ loop' = [t \in LoopThreads |-> IF t = f THEN "task" ELSE loop[t]]
    /\ interrupted' = interrupted \ (_runningThreads \ {f})
    /\ _mutex' = NoThread
    /\ forking' = [forking EXCEPT ![f] = "idle"]
    /\ storeMutex' = (storeMutex /\ f # Main)
    /\ UNCHANGED <<_runningThreads, handle, rvars>>

\* ... and join them; fork(); _restartAllThreads starts what is not running and unlocks
RestartAll(f) ==
    /\ forking[f] = "joining"
    /\ \A t \in _runningThreads \ {f} : loop[t] = "ended"
    /\ loop' = [t \in LoopThreads |->
                  IF t \in _runningThreads \ {f} THEN "top"
                  ELSE IF t = f THEN "task" ELSE loop[t]]
    /\ interrupted' = interrupted \ (_runningThreads \ {f})
    /\ _mutex' = NoThread
    /\ forking' = [forking EXCEPT ![f] = "idle"]
    /\ storeMutex' = (storeMutex /\ f # Main)
    /\ UNCHANGED <<_runningThreads, handle, rvars>>

(***************************************************************************)
(* The task's LoopThread: its owner starts and stops it.                   *)
(***************************************************************************)
Start ==
    /\ handle = "none"
    /\ forking[Main] = "idle"
    /\ _mutex = NoThread
    /\ StartThread(Task)
    /\ handle' = "running"
    /\ UNCHANGED <<_mutex, forking, rvars, storeMutex>>

\* interrupt and erase under the mutex, join without it
Stop ==
    /\ handle = "running"
    /\ forking[Main] = "idle"
    /\ _mutex = NoThread
    /\ interrupted' = interrupted \cup {Task}
    /\ _runningThreads' = _runningThreads \ {Task}
    /\ handle' = "stopping"
    /\ UNCHANGED <<_mutex, loop, forking, rvars, storeMutex>>

Joined ==
    /\ handle = "stopping"
    /\ loop[Task] = "ended"
    /\ LoopGoes(Task, "none")
    /\ interrupted' = interrupted \ {Task}
    /\ handle' = "none"
    /\ UNCHANGED <<_runningThreads, _mutex, forking, rvars, storeMutex>>

ThreadStep(t) ==
    \/ InterruptionPoint(t)
    \/ t = Generator /\ (WaitUntilSizeIsLessThan \/ NeededSize \/ CheckSize \/ AddRandomData)
    \/ t = Task /\ (\/ Sleep \/ StoreDone \/ TaskInterrupted \/ TaskUsesStore \/ TaskEnds
                    \/ \E n \in Requests : TaskUsesPool(n))

GetStep(g) == PseudoRandom(g) \/ StartRefillThread(g) \/ GetSome(g) \/ GetThrew(g)

ForkStep(f) == InterruptAll(f) \/ RestartAll(f)

ThreadsNext ==
    \/ \E t \in LoopThreads : ThreadStep(t)
    \/ \E g \in Getters : GetStep(g)
    \/ \E c \in Clients, n \in Requests : Request(c, n)
    \/ \E f \in Forkers : Fork(f) \/ ForkStep(f)
    \/ Start \/ Stop \/ Joined

\* threads run; a getter that waits while others take every refill is left to the scheduler's fairness
ThreadsFairness ==
    /\ \A t \in LoopThreads : WF_threadVars(ThreadStep(t))
    /\ \A g \in Getters : SF_threadVars(GetStep(g))
    /\ \A f \in Forkers : SF_threadVars(ForkStep(f))
    /\ WF_threadVars(Joined)

ThreadsSpec == ThreadsInit /\ [][ThreadsNext]_threadVars
ThreadsFairSpec == ThreadsSpec /\ ThreadsFairness

(***************************************************************************)
(* Properties                                                              *)
(***************************************************************************)
\* No random byte (of an encryption IV, a block id) is handed out twice, and the pool
\* stays within MAX_BUFFER_SIZE although its size is read before other threads take from
\* it and the refill comes later.
RandomBytesAreUsedOnce == ~reused /\ Size \in 0 .. MaxSize

\* a thread that can only go on when the forking thread f has gone on
WaitsForFork(t, f) ==
    \/ _mutex = f /\ loop[t] = "fork" /\ forking[t] = "wants mutex"
    \/ _mutex = f /\ loop[t] = "get" /\ get[t].pc \in {"pool", "start"} /\ pool # "ready"
    \/ f = Main /\ storeMutex /\ loop[t] = "store"

\* the forking thread f waits for a loop thread that waits for it
Deadlocked(f) == forking[f] = "joining" /\ \E t \in _runningThreads \ {f} : WaitsForFork(t, f)

\* forks do not follow each other so fast that the generator never gets to run
ForksCease == <>[](\A f \in Forkers : forking[f] = "idle" \/ Deadlocked(f))

\* fork() returns, because the loop threads it joins are interrupted in every wait, and
\* a client that waits for random bytes gets them, because a fork restarts the generator.
\* The exceptions are the forks that join a thread waiting for a mutex, which cannot be
\* interrupted: a thread that forks itself, one that is first to use the random pool (or
\* waits for whoever is), since that calls ThreadSystem::start(), and one that waits for
\* a mutex of the stores held by the forking thread.
ForksAndGetsEnd ==
    /\ \A f \in Forkers : forking[f] = "joining" ~> forking[f] = "idle" \/ Deadlocked(f)
    /\ ForksCease => \A c \in Clients : get[c].pc = "get" ~> get[c].pc # "get" \/ \E f \in Forkers : Deadlocked(f)
=============================================================================
