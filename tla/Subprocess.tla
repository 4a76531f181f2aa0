----------------------------- MODULE Subprocess -----------------------------
(***************************************************************************)
(* cpp-utils/process/subprocess.cpp: running a program (fusermount) with   *)
(* an input and collecting what it prints.  The three pipes hold a bounded *)
(* number of bytes, so each side can block on the other.  The child runs a *)
(* fixed program: a sequence of "out" and "err" (write one byte), "in"     *)
(* (read one byte, or see the end of the input); then it exits.            *)
(***************************************************************************)
EXTENDS Integers, Sequences

CONSTANTS
    Invocations,    \* records [found, exists, checked, input, program, exitcode]
    PipeSize,       \* bytes a pipe holds
    BufferSize      \* bytes of vOut_, 128 KB in the code

VARIABLES
    invocation,     \* what the caller asked for
    parent,         \* where call() is
    child,          \* "none", "running", "exited" or "reaped"
    at,             \* the next operation of the child's program
    pipe,           \* bytes in each pipe
    stdin,          \* bytes of the input not yet written, and whether the pipe was closed
    got,            \* bytes of each output in vOut_
    finished        \* the asynchronous operations whose last handler has run

subvars == <<invocation, parent, child, at, pipe, stdin, got, finished>>

Outputs == {"out", "err"}

SubInit ==
    /\ invocation \in Invocations
    /\ parent = "start"
    /\ child = "none"
    /\ at = 1
    /\ pipe = [p \in Outputs \cup {"in"} |-> 0]
    /\ stdin = [left |-> invocation.input, closed |-> FALSE]
    /\ got = [o \in Outputs |-> 0]
    /\ finished = {}

(***************************************************************************)
(* call()                                                                  *)
(***************************************************************************)
\* search_path() gives "" for a command that is not in the PATH
_find_executable ==
    /\ parent = "start"
    /\ parent' = IF invocation.found THEN "found" ELSE "thrown"
    /\ UNCHANGED <<invocation, child, at, pipe, stdin, got, finished>>

\* the child is started with its three pipes and the three operations are posted
call ==
    /\ parent = "found"
    /\ IF invocation.exists
       THEN parent' = "run" /\ child' = "running"
       ELSE parent' = "thrown" /\ UNCHANGED child
    /\ UNCHANGED <<invocation, at, pipe, stdin, got, finished>>

\* InputPipeHandler::async_write: write what fits; close the pipe at the end; a reader
\* that has gone away is an error, which leaves ctx.run() and ends the child
async_write ==
    /\ parent = "run" /\ "in" \notin finished
    /\ \/ /\ stdin.left > 0 /\ child = "running" /\ pipe["in"] < PipeSize
          /\ pipe' = [pipe EXCEPT !["in"] = @ + 1]
          /\ stdin' = [stdin EXCEPT !.left = @ - 1]
          /\ UNCHANGED <<parent, child, finished>>
       \/ /\ stdin.left > 0 /\ child = "exited"
          /\ parent' = "thrown" /\ child' = "reaped"
          /\ UNCHANGED <<pipe, stdin, finished>>
       \/ /\ stdin.left = 0
          /\ stdin' = [stdin EXCEPT !.closed = TRUE]
          /\ finished' = finished \cup {"in"}
          /\ UNCHANGED <<parent, child, pipe>>
    /\ UNCHANGED <<invocation, at, got>>

\* mutant: the error output is read when the output has ended
ReadsOneAfterTheOther(o) ==
    /\ parent = "run" /\ o \notin finished
    /\ o = "err" => "out" \in finished
    /\ \/ /\ pipe[o] > 0
          /\ pipe' = [pipe EXCEPT ![o] = @ - 1]
          /\ got' = [got EXCEPT ![o] = @ + 1]
          /\ parent' = IF got'[o] = BufferSize THEN "undefined" ELSE parent
          /\ UNCHANGED finished
       \/ /\ pipe[o] = 0 /\ child = "exited"
          /\ finished' = finished \cup {o}
          /\ UNCHANGED <<parent, pipe, got>>
    /\ UNCHANGED <<invocation, child, at, stdin>>

\* OutputPipeHandler::async_read: read until the pipe is closed.  When vOut_ is full
\* before that, the handler posts the next read through the reference to onOutput, which
\* was a local variable of async_read() and is gone: the behaviour is undefined.
async_read(o) ==
    /\ parent = "run" /\ o \notin finished
    /\ \/ /\ pipe[o] > 0
          /\ pipe' = [pipe EXCEPT ![o] = @ - 1]
          /\ got' = [got EXCEPT ![o] = @ + 1]
          /\ parent' = IF got'[o] = BufferSize THEN "undefined" ELSE parent
          /\ UNCHANGED finished
       \/ /\ pipe[o] = 0 /\ child = "exited"
          /\ finished' = finished \cup {o}
          /\ UNCHANGED <<parent, pipe, got>>
    /\ UNCHANGED <<invocation, child, at, stdin>>

\* ctx.run() has nothing left to do; child.wait() reaps the child; check_call() looks at the exit code
wait ==
    /\ parent = "run"
    /\ finished = Outputs \cup {"in"}
    /\ child = "exited"
    /\ child' = "reaped"
    /\ parent' = IF invocation.checked /\ invocation.exitcode # 0 THEN "thrown" ELSE "returned"
    /\ UNCHANGED <<invocation, at, pipe, stdin, got, finished>>

(***************************************************************************)
(* The child and the kernel's pipes                                        *)
(***************************************************************************)
Child ==
    /\ child = "running"
    /\ \/ /\ at > Len(invocation.program)
          /\ child' = "exited"
          /\ UNCHANGED <<at, pipe>>
       \/ /\ at <= Len(invocation.program)
          /\ LET op == invocation.program[at] IN
                \/ /\ op \in Outputs /\ pipe[op] < PipeSize
                   /\ pipe' = [pipe EXCEPT ![op] = @ + 1]
                \/ /\ op = "in" /\ pipe["in"] > 0
                   /\ pipe' = [pipe EXCEPT !["in"] = @ - 1]
                \/ /\ op = "in" /\ pipe["in"] = 0 /\ stdin.closed
                   /\ UNCHANGED pipe
          /\ at' = at + 1
          /\ UNCHANGED child
    /\ UNCHANGED <<invocation, parent, stdin, got, finished>>

SubNext == _find_executable \/ call \/ async_write \/ (\E o \in Outputs : async_read(o)) \/ wait \/ Child

\* ctx.run() serves every operation that is ready, and the child is a running process
SubSpec ==
    /\ SubInit /\ [][SubNext]_subvars
    /\ WF_subvars(_find_executable \/ call \/ wait) /\ WF_subvars(async_write)
    /\ \A o \in Outputs : WF_subvars(async_read(o))
    /\ WF_subvars(Child)

(***************************************************************************)
(* Properties                                                              *)
(***************************************************************************)
Printed(o) == Len(SelectSeq(invocation.program, LAMBDA op : op = o))

Ended ==
    \/ parent \in {"thrown", "undefined"}
    \/ parent = "returned" /\ \A o \in Outputs : got[o] = Printed(o)

\* "Process I/O needs to use the async API to avoid deadlocks" (subprocess.cpp:134): whatever
\* the child writes and reads in whatever order, and however little the pipes hold, call()
\* ends, and the result it returns has everything that was printed.
CallEndsWithAllOutput == <>Ended
=============================================================================
