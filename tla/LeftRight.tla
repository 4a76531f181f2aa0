----------------------------- MODULE LeftRight -----------------------------
(***************************************************************************)
(* cpp-utils/thread/LeftRight.h: two copies of a value, so that readers    *)
(* never wait.  A reader registers in a counter and reads the foreground   *)
(* copy; a writer changes the background copy, swaps the copies, waits for *)
(* the readers that may still be on the old foreground and then repeats    *)
(* the change there.  Every load and store of an atomic is a step.         *)
(*                                                                         *)
(* A counter is modelled by the set of readers that have incremented it    *)
(* and not yet decremented it; the code's number is its cardinality.       *)
(***************************************************************************)
EXTENDS Integers

CONSTANTS
    Readers,        \* threads that call read()
    Writers,        \* threads that call write()
    Apply(_, _),    \* Apply(op, value): what writeFunc makes of one copy
    Empty,          \* the value of a copy after construction
    None

VARIABLES
    _foregroundCounterIndex,
    _foregroundDataIndex,
    _counters,          \* [{0, 1} -> SUBSET Readers]
    _data,              \* the two copies
    _inDestruction,
    writer,             \* the holder of _writeMutex, where it is in _write(), and its operation
    reader,             \* where each reader is in read(), with the indexes it loaded
    destructor          \* where ~LeftRight() is

lrvars == <<_foregroundCounterIndex, _foregroundDataIndex, _counters, _data,
            _inDestruction, writer, reader, destructor>>

Idle == [pc |-> "idle", counter |-> 0, data |-> 0]
NoWriter == [who |-> None, pc |-> "none", op |-> None]

LRInit ==
    /\ _foregroundCounterIndex = 0
    /\ _foregroundDataIndex = 0
    /\ _counters = [i \in {0, 1} |-> {}]
    /\ _data = [i \in {0, 1} |-> Empty]
    /\ _inDestruction = FALSE
    /\ writer = NoWriter
    /\ reader = [r \in Readers |-> Idle]
    /\ destructor = "alive"

At(r, pc) == reader[r].pc = pc

(***************************************************************************)
(* read(): load the counter's index, increment that counter, check for     *)
(* destruction, load the index of the foreground copy and run readFunc on  *)
(* it; IncrementRAII's destructor decrements the counter on every exit.    *)
(***************************************************************************)
LoadCounterIndex(r) ==
    /\ At(r, "idle")
    /\ reader' = [reader EXCEPT ![r] = [pc |-> "loaded", counter |-> _foregroundCounterIndex, data |-> 0]]
    /\ UNCHANGED <<_foregroundCounterIndex, _foregroundDataIndex, _counters, _data, _inDestruction, writer, destructor>>

IncrementCounter(r) ==
    /\ At(r, "loaded")
    /\ _counters' = [_counters EXCEPT ![reader[r].counter] = @ \cup {r}]
    /\ reader' = [reader EXCEPT ![r].pc = "counted"]
    /\ UNCHANGED <<_foregroundCounterIndex, _foregroundDataIndex, _data, _inDestruction, writer, destructor>>

CheckDestruction(r) ==
    /\ At(r, "counted")
    /\ reader' = [reader EXCEPT ![r].pc = IF _inDestruction THEN "throwing" ELSE "entering"]
    /\ UNCHANGED <<_foregroundCounterIndex, _foregroundDataIndex, _counters, _data, _inDestruction, writer, destructor>>

LoadDataIndex(r) ==
    /\ At(r, "entering")
    /\ reader' = [reader EXCEPT ![r].pc = "reading", ![r].data = _foregroundDataIndex]
    /\ UNCHANGED <<_foregroundCounterIndex, _foregroundDataIndex, _counters, _data, _inDestruction, writer, destructor>>

\* readFunc has returned (from "reading") or read() throws (from "throwing")
EndRead(r) ==
    /\ reader[r].pc \in {"reading", "throwing"}
    /\ _counters' = [_counters EXCEPT ![reader[r].counter] = @ \ {r}]
    /\ reader' = [reader EXCEPT ![r] = Idle]
    /\ UNCHANGED <<_foregroundCounterIndex, _foregroundDataIndex, _data, _inDestruction, writer, destructor>>

(***************************************************************************)
(* write() and _write().  One writer at a time holds _writeMutex.          *)
(***************************************************************************)
WritePc(w, pc) == writer.who = w /\ writer.pc = pc

Background == 1 - _foregroundDataIndex

\* take the mutex; a write that comes after the destructor has started throws at once
BeginWrite(w, op) ==
    /\ writer = NoWriter
    /\ ~_inDestruction
    /\ writer' = [who |-> w, pc |-> "first", op |-> op]
    /\ UNCHANGED <<_foregroundCounterIndex, _foregroundDataIndex, _counters, _data, _inDestruction, reader, destructor>>

\* 1. and 2.: the background copy is written, then the copies are swapped
FirstWrite(w) ==
    /\ WritePc(w, "first")
    /\ _data' = [_data EXCEPT ![Background] = Apply(writer.op, @)]
    /\ writer' = [writer EXCEPT !.pc = "swap data"]
    /\ UNCHANGED <<_foregroundCounterIndex, _foregroundDataIndex, _counters, _inDestruction, reader, destructor>>

SwapData(w) ==
    /\ WritePc(w, "swap data")
    /\ _foregroundDataIndex' = 1 - _foregroundDataIndex
    /\ writer' = [writer EXCEPT !.pc = "wait 1"]
    /\ UNCHANGED <<_foregroundCounterIndex, _counters, _data, _inDestruction, reader, destructor>>

\* _waitForBackgroundCounterToBeZero() returns
BackgroundCounterIsZero == _counters[1 - _foregroundCounterIndex] = {}

\* 3. the readers that registered late in the previous write are gone
Waited(w) ==
    /\ WritePc(w, "wait 1")
    /\ BackgroundCounterIsZero
    /\ writer' = [writer EXCEPT !.pc = "swap counters"]
    /\ UNCHANGED <<_foregroundCounterIndex, _foregroundDataIndex, _counters, _data, _inDestruction, reader, destructor>>

\* 4.
SwapCounters(w) ==
    /\ WritePc(w, "swap counters")
    /\ _foregroundCounterIndex' = 1 - _foregroundCounterIndex
    /\ writer' = [writer EXCEPT !.pc = "wait 2"]
    /\ UNCHANGED <<_foregroundDataIndex, _counters, _data, _inDestruction, reader, destructor>>

\* mutant: the second write does not wait
WaitsOnce(w) ==
    /\ WritePc(w, "wait 2")
    /\ writer' = [writer EXCEPT !.pc = "second"]
    /\ UNCHANGED <<_foregroundCounterIndex, _foregroundDataIndex, _counters, _data, _inDestruction, reader, destructor>>

\* 5. the readers of the old foreground are gone
WaitedAgain(w) ==
    /\ WritePc(w, "wait 2")
    /\ BackgroundCounterIsZero
    /\ writer' = [writer EXCEPT !.pc = "second"]
    /\ UNCHANGED <<_foregroundCounterIndex, _foregroundDataIndex, _counters, _data, _inDestruction, reader, destructor>>

\* 6. the other copy is written and write() returns
SecondWrite(w) ==
    /\ WritePc(w, "second")
    /\ _data' = [_data EXCEPT ![Background] = Apply(writer.op, @)]
    /\ writer' = NoWriter
    /\ UNCHANGED <<_foregroundCounterIndex, _foregroundDataIndex, _counters, _inDestruction, reader, destructor>>

\* writeFunc throws in its first or in its second call: the background copy is taken from the foreground
WriteThrows(w) ==
    /\ writer.who = w
    /\ writer.pc \in {"first", "second"}
    /\ _data' = [_data EXCEPT ![Background] = _data[_foregroundDataIndex]]
    /\ writer' = NoWriter
    /\ UNCHANGED <<_foregroundCounterIndex, _foregroundDataIndex, _counters, _inDestruction, reader, destructor>>

(***************************************************************************)
(* ~LeftRight(): refuse new readers and writers, wait for the ones inside. *)
(***************************************************************************)
BeginDestruction ==
    /\ destructor = "alive"
    /\ _inDestruction' = TRUE
    /\ destructor' = "wait for writers"
    /\ UNCHANGED <<_foregroundCounterIndex, _foregroundDataIndex, _counters, _data, writer, reader>>

WritersGone ==
    /\ destructor = "wait for writers"
    /\ writer = NoWriter
    /\ destructor' = "wait for readers"
    /\ UNCHANGED <<_foregroundCounterIndex, _foregroundDataIndex, _counters, _data, _inDestruction, writer, reader>>

\* the loop loads one counter after the other
ReadersGone ==
    /\ \/ destructor = "wait for readers" /\ _counters[0] = {} /\ destructor' = "first counter was zero"
       \/ destructor = "first counter was zero" /\ _counters[1] # {} /\ destructor' = "wait for readers"
       \/ destructor = "first counter was zero" /\ _counters[1] = {} /\ destructor' = "destroyed"
    /\ UNCHANGED <<_foregroundCounterIndex, _foregroundDataIndex, _counters, _data, _inDestruction, writer, reader>>

(***************************************************************************)
(* Properties                                                              *)
(***************************************************************************)
Reading(r, i) == At(r, "reading") /\ reader[r].data = i

\* A copy is never written while a reader is on it: the two waits in _write()
\* cover every reader that may still see the old foreground, also the ones that
\* loaded the counter's index before the previous swap.
ReadersAndWritersApart ==
    writer.pc \in {"first", "second"} => \A r \in Readers : ~Reading(r, Background)

\* When the destructor has finished, nobody is inside read() past its check, and no writer is active.
NobodyInsideWhenDestroyed ==
    destructor = "destroyed" =>
        writer = NoWriter /\ \A r \in Readers : reader[r].pc \notin {"entering", "reading"}

\* Between two writes the copies are equal, also when writeFunc threw: what a reader
\* sees does not depend on which copy is in front.
CopiesAgree == writer = NoWriter => _data[0] = _data[1]
=============================================================================
