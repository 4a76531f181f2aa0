-------------------------- MODULE CallAfterTimeout --------------------------
(***************************************************************************)
(* cryfs-cli/CallAfterTimeout.h as Cli::_runFilesystem uses it: a thread   *)
(* that unmounts the file system when no call has come in for Timeout.     *)
(* Every file system call resets the timer first (CryDevice::              *)
(* callFsActionCallbacks).  _mutex is held while _callback runs, and the   *)
(* callback runs fusermount, which the model lets take any time and fail.  *)
(* The clock is a bounded counter.                                         *)
(***************************************************************************)
EXTENDS Integers

CONSTANTS
    Callers,        \* threads of the fuse session
    Timeout,        \* --unmount-idle, in ticks
    MaxTime         \* bound of the clock

VARIABLES
    now,            \* boost::chrono::steady_clock::now()
    _start,
    _timerMutex,    \* CallAfterTimeout::_mutex: "timer" while the callback runs, else "free"
    thread,         \* where _checkTimeoutThread is
    target,         \* what _targetTime() returned
    caller,         \* "idle", "reset" (a call has come in) or "working"
    came,           \* when the latest call of each caller reset the timer
    mounted,        \* the mount directory is attached
    session         \* Cli::_runFilesystem: "mounted", "fuse destroyed" or "stopped"

catvars == <<now, _start, _timerMutex, thread, target, caller, came, mounted, session>>

\* the constructor resets the timer and starts the thread, while the file system is mounted;
\* without --unmount-idle there is no timer
_createIdleCallback ==
    /\ _start = 0
    /\ thread \in {"iteration", "ended"}

CATInit ==
    /\ now = 0
    /\ _createIdleCallback
    /\ _timerMutex = "free"
    /\ target = 0
    /\ caller = [c \in Callers |-> "idle"]
    /\ came = [c \in Callers |-> 0]
    /\ mounted = TRUE
    /\ session = "mounted"

Tick ==
    /\ now < MaxTime
    /\ now' = now + 1
    /\ UNCHANGED <<_start, _timerMutex, thread, target, caller, came, mounted, session>>

(***************************************************************************)
(* A file system call                                                      *)
(***************************************************************************)
BeginCall(c) ==
    /\ mounted /\ caller[c] = "idle"
    /\ caller' = [caller EXCEPT ![c] = "reset"]
    /\ UNCHANGED <<now, _start, _timerMutex, thread, target, came, mounted, session>>

resetTimer(c) ==
    /\ caller[c] = "reset"
    /\ _timerMutex = "free"
    /\ _start' = now
    /\ caller' = [caller EXCEPT ![c] = "working"]
    /\ came' = [came EXCEPT ![c] = now]
    /\ UNCHANGED <<now, _timerMutex, thread, target, mounted, session>>

EndCall(c) ==
    /\ caller[c] = "working"
    /\ caller' = [caller EXCEPT ![c] = "idle"]
    /\ UNCHANGED <<now, _start, _timerMutex, thread, target, came, mounted, session>>

(***************************************************************************)
(* The thread: _checkTimeoutThreadIteration() until it returns false       *)
(***************************************************************************)
_targetTime ==
    /\ thread = "iteration"
    /\ _timerMutex = "free"
    /\ target' = _start + Timeout
    /\ thread' = "sleep"
    /\ UNCHANGED <<now, _start, _timerMutex, caller, came, mounted, session>>

WakesUp ==
    /\ thread = "sleep"
    /\ now >= target
    /\ thread' = "check"
    /\ UNCHANGED <<now, _start, _timerMutex, target, caller, came, mounted, session>>

\* mutant: the callback is called without looking at the timer again
CallsWhenItWakes ==
    /\ thread = "check"
    /\ _timerMutex = "free"
    /\ thread' = "callback" /\ _timerMutex' = "timer"
    /\ UNCHANGED <<now, _start, target, caller, came, mounted, session>>

\* calls that came in during the sleep have moved _start: sleep again
_callCallbackIfTimeout ==
    /\ thread = "check"
    /\ _timerMutex = "free"
    /\ IF now >= _start + Timeout
       THEN thread' = "callback" /\ _timerMutex' = "timer"
       ELSE thread' = "iteration" /\ UNCHANGED _timerMutex
    /\ UNCHANGED <<now, _start, target, caller, came, mounted, session>>

\* Fuse::stop() -> Fuse::unmount(mountdir, false): fusermount -u -z detaches the directory at
\* once, also with calls still running; when it fails, unmount() throws and the thread ends for good
unmount ==
    /\ thread = "callback"
    /\ \/ mounted' = FALSE
       \/ UNCHANGED mounted
    /\ _timerMutex' = "free"
    /\ thread' = "ended"
    /\ UNCHANGED <<now, _start, target, caller, came, session>>

(***************************************************************************)
(* The end of the session                                                  *)
(***************************************************************************)
\* cryfs-unmount, or fusermount called by somebody else
UnmountedByUser ==
    /\ mounted
    /\ mounted' = FALSE
    /\ UNCHANGED <<now, _start, _timerMutex, thread, target, caller, came, session>>

\* fuse_main returns when the running calls have ended, and _runFilesystem destroys fuse
FuseReturns ==
    /\ session = "mounted" /\ ~mounted
    /\ \A c \in Callers : caller[c] = "idle"
    /\ session' = "fuse destroyed"
    /\ UNCHANGED <<now, _start, _timerMutex, thread, target, caller, came, mounted>>

\* ~Cli destroys _idleUnmounter: the thread is interrupted in its sleep, or joined after its callback
StopTimer ==
    /\ session = "fuse destroyed"
    /\ thread \in {"sleep", "iteration", "ended"}
    /\ thread' = "ended"
    /\ session' = "stopped"
    /\ UNCHANGED <<now, _start, _timerMutex, target, caller, came, mounted>>

CATNext ==
    \/ Tick
    \/ \E c \in Callers : BeginCall(c) \/ resetTimer(c) \/ EndCall(c)
    \/ _targetTime \/ WakesUp \/ _callCallbackIfTimeout \/ unmount
    \/ UnmountedByUser \/ FuseReturns \/ StopTimer

CATSpec == CATInit /\ [][CATNext]_catvars

(***************************************************************************)
(* Properties                                                              *)
(***************************************************************************)
\* The file system is unmounted for idleness only when no call has reset the timer for
\* Timeout: a call that comes in while the thread sleeps puts the callback off.
UnmountedOnlyWhenIdle ==
    [][thread' = "callback" /\ thread # "callback" => \A c \in Callers : now >= came[c] + Timeout]_catvars
=============================================================================
