--------------------------- MODULE LeftRightProofs ---------------------------
(***************************************************************************)
(* LeftRight by itself, with any number of readers and writers and any     *)
(* operations: readers and writers never meet on a copy, the copies agree  *)
(* between two writes, and nobody is inside when the destructor is done.   *)
(***************************************************************************)
EXTENDS LeftRight, TLAPS

CONSTANT Operations

ReadStep(r) ==
    LoadCounterIndex(r) \/ IncrementCounter(r) \/ CheckDestruction(r) \/ LoadDataIndex(r) \/ EndRead(r)

WriteStep(w) ==
    \/ \E op \in Operations : BeginWrite(w, op)
    \/ FirstWrite(w) \/ SwapData(w) \/ Waited(w) \/ SwapCounters(w) \/ WaitedAgain(w)
    \/ SecondWrite(w) \/ WriteThrows(w)

DestructorStep == BeginDestruction \/ WritersGone \/ ReadersGone

LRNext == (\E r \in Readers : ReadStep(r)) \/ (\E w \in Writers : WriteStep(w)) \/ DestructorStep

LRSpec == LRInit /\ [][LRNext]_lrvars

Inside == {"counted", "throwing", "entering", "reading"}

ReaderStates == [pc : {"idle", "loaded"} \cup Inside, counter : {0, 1}, data : {0, 1}]

LRTypeOK ==
    /\ _foregroundCounterIndex \in {0, 1}
    /\ _foregroundDataIndex \in {0, 1}
    /\ _counters \in [{0, 1} -> SUBSET Readers]
    /\ _data = [i \in {0, 1} |-> _data[i]]
    /\ _inDestruction \in BOOLEAN
    /\ writer \in [who : Writers \cup {None}, op : Operations \cup {None},
                   pc : {"none", "first", "swap data", "wait 1", "swap counters", "wait 2", "second"}]
    /\ reader \in [Readers -> ReaderStates]
    /\ destructor \in {"alive", "wait for writers", "wait for readers", "first counter was zero", "destroyed"}

\* who is past the increment is in the counter it loaded
Counted == \A r \in Readers : reader[r].pc \in Inside => r \in _counters[reader[r].counter]

\* the readers that may still be on the background copy, by what the writer has done so far
OldReaders ==
    \A r \in Readers : Reading(r, Background) =>
        \/ writer.pc = "wait 1"
        \/ writer.pc = "swap counters" /\ reader[r].counter = _foregroundCounterIndex
        \/ writer.pc = "wait 2" /\ reader[r].counter = 1 - _foregroundCounterIndex

\* how the copies differ, by what the writer has done so far
Copies ==
    /\ writer.pc \in {"none", "first"} => _data[0] = _data[1]
    /\ writer.pc = "swap data" => _data[Background] = Apply(writer.op, _data[_foregroundDataIndex])
    /\ writer.pc \in {"wait 1", "swap counters", "wait 2", "second"} =>
           _data[_foregroundDataIndex] = Apply(writer.op, _data[Background])

\* whom the destructor has waited for
Destroying ==
    /\ destructor # "alive" => _inDestruction
    /\ destructor \in {"wait for readers", "first counter was zero", "destroyed"} => writer = NoWriter
    /\ destructor = "first counter was zero" =>
           \A r \in Readers : reader[r].pc \in {"entering", "reading"} => reader[r].counter = 1
    /\ destructor = "destroyed" => \A r \in Readers : reader[r].pc \notin {"entering", "reading"}

LRInv == LRTypeOK /\ Counted /\ OldReaders /\ Copies /\ Destroying

\* XOR with 1, the way the code writes it, swaps two indexes.
LEMMA Other ==
    \A i \in {0, 1} : 1 - i \in {0, 1} /\ 1 - i # i /\ 1 - (1 - i) = i /\ \A j \in {0, 1} : j # 1 - i => j = i
  OBVIOUS

\* The background copy is the one that is not in front.
LEMMA Indexes ==
    LRTypeOK => \/ _foregroundDataIndex = 0 /\ Background = 1
                \/ _foregroundDataIndex = 1 /\ Background = 0
<1> SUFFICES ASSUME _foregroundDataIndex \in {0, 1}
             PROVE  \/ _foregroundDataIndex = 0 /\ Background = 1
                    \/ _foregroundDataIndex = 1 /\ Background = 0
  BY Zenon DEF LRTypeOK
<1> QED
  BY DEF Background

\* Without a writer nobody is inside _write().
LEMMA NoWriterIsAtNone == NoWriter.pc = "none"
  BY Zenon DEF NoWriter

\* LeftRight's constructor establishes the invariant.
LEMMA InitLR == LRInit => LRInv
<1> SUFFICES ASSUME LRInit PROVE LRInv
  BY Zenon
<1>1. LRTypeOK
  <2>1. _counters \in [{0, 1} -> SUBSET Readers] /\ _data = [i \in {0, 1} |-> _data[i]]
    BY Zenon DEF LRInit
  <2>2. writer \in [who : Writers \cup {None}, op : Operations \cup {None},
                    pc : {"none", "first", "swap data", "wait 1", "swap counters", "wait 2", "second"}]
    BY Zenon DEF LRInit, NoWriter
  <2>3. reader \in [Readers -> ReaderStates]
    BY Zenon DEF LRInit, Idle, ReaderStates
  <2> QED
    BY <2>1, <2>2, <2>3, Zenon DEF LRInit, LRTypeOK
<1>2. Counted
  BY Zenon DEF LRInit, Counted, Idle, Inside
<1>3. OldReaders
  BY Zenon DEF LRInit, OldReaders, Reading, At, Idle, NoWriter
<1>4. Copies
  BY Zenon DEF LRInit, Copies, NoWriter
<1>5. Destroying
  BY Zenon DEF LRInit, Destroying
<1> QED
  BY <1>1, <1>2, <1>3, <1>4, <1>5, Zenon DEF LRInv

\* Every step of read() keeps it, also that of a reader that is interrupted for long between two loads.
LEMMA ReadKeepsLR == ASSUME LRInv, NEW r \in Readers, ReadStep(r) PROVE LRInv'
<1>1. CASE LoadCounterIndex(r)
  <2>1. LRTypeOK'
    <3>1. reader' \in [Readers -> ReaderStates]
      BY <1>1, Zenon DEF LRInv, LRTypeOK, LoadCounterIndex, ReaderStates, Inside, At
    <3> QED
      BY <1>1, <3>1, Zenon DEF LRInv, LRTypeOK, LoadCounterIndex
  <2>2. Counted'
    BY <1>1, Zenon DEF LRInv, LoadCounterIndex, LRTypeOK, ReaderStates, Counted, Inside, At
  <2>3. OldReaders'
    BY <1>1, Zenon DEF LRInv, LoadCounterIndex, LRTypeOK, ReaderStates, Counted, OldReaders, Reading, Background, Inside, At
  <2>4. Copies'
    BY <1>1, Zenon DEF LRInv, LoadCounterIndex, LRTypeOK, Copies, Background, At
  <2>5. Destroying'
    BY <1>1, Zenon DEF LRInv, LoadCounterIndex, LRTypeOK, ReaderStates, Counted, Destroying, Inside, At
  <2> QED
    BY <2>1, <2>2, <2>3, <2>4, <2>5, Zenon DEF LRInv
<1>2. CASE IncrementCounter(r)
  <2>1. LRTypeOK'
    <3> DEFINE new == [reader[r] EXCEPT !.pc = "counted"]
    <3>0. reader[r] \in ReaderStates /\ _foregroundDataIndex \in {0, 1}
      BY Zenon DEF LRInv, LRTypeOK
    <3>2. new \in ReaderStates
      BY <3>0, Zenon DEF ReaderStates, Inside
    <3>3. reader' = [reader EXCEPT ![r] = new]
      BY <1>2, Zenon DEF LRInv, LRTypeOK, IncrementCounter
    <3> HIDE DEF new
    <3>1. reader' \in [Readers -> ReaderStates]
      BY <3>2, <3>3, Zenon DEF LRInv, LRTypeOK
    <3> QED
      BY <1>2, <3>1, Zenon DEF LRInv, LRTypeOK, IncrementCounter
  <2>2. Counted'
    BY <1>2, Zenon DEF LRInv, IncrementCounter, LRTypeOK, ReaderStates, Counted, Inside, At
  <2>3. OldReaders'
    BY <1>2 DEF LRInv, IncrementCounter, LRTypeOK, ReaderStates, Counted, OldReaders, Reading, Background, Inside, At
  <2>4. Copies'
    BY <1>2, Zenon DEF LRInv, IncrementCounter, LRTypeOK, Copies, Background, At
  <2>5. Destroying'
    BY <1>2 DEF LRInv, IncrementCounter, LRTypeOK, ReaderStates, Counted, Destroying, Inside, At
  <2> QED
    BY <2>1, <2>2, <2>3, <2>4, <2>5, Zenon DEF LRInv
<1>3. CASE CheckDestruction(r)
  <2>1. LRTypeOK'
    <3> DEFINE new == [reader[r] EXCEPT !.pc = IF _inDestruction THEN "throwing" ELSE "entering"]
    <3>0. reader[r] \in ReaderStates /\ _foregroundDataIndex \in {0, 1}
      BY Zenon DEF LRInv, LRTypeOK
    <3>2. new \in ReaderStates
      BY <3>0, Zenon DEF ReaderStates, Inside
    <3>3. reader' = [reader EXCEPT ![r] = new]
      BY <1>3, Zenon DEF LRInv, LRTypeOK, CheckDestruction
    <3> HIDE DEF new
    <3>1. reader' \in [Readers -> ReaderStates]
      BY <3>2, <3>3, Zenon DEF LRInv, LRTypeOK
    <3> QED
      BY <1>3, <3>1, Zenon DEF LRInv, LRTypeOK, CheckDestruction
  <2>2. Counted'
    BY <1>3 DEF LRInv, CheckDestruction, LRTypeOK, ReaderStates, Counted, Inside, At
  <2>3. OldReaders'
    BY <1>3 DEF LRInv, CheckDestruction, LRTypeOK, ReaderStates, Counted, OldReaders, Reading, Background, Inside, At
  <2>4. Copies'
    BY <1>3, Zenon DEF LRInv, CheckDestruction, LRTypeOK, Copies, Background, At
  <2>5. Destroying'
    BY <1>3 DEF LRInv, CheckDestruction, LRTypeOK, ReaderStates, Counted, Destroying, Inside, At
  <2> QED
    BY <2>1, <2>2, <2>3, <2>4, <2>5, Zenon DEF LRInv
<1>4. CASE LoadDataIndex(r)
  <2>1. LRTypeOK'
    <3> DEFINE new == [reader[r] EXCEPT !.pc = "reading", !.data = _foregroundDataIndex]
    <3>0. reader[r] \in ReaderStates /\ _foregroundDataIndex \in {0, 1}
      BY Zenon DEF LRInv, LRTypeOK
    <3>2. new \in ReaderStates
      BY Zenon, <3>0 DEF ReaderStates, Inside
    <3>3. reader' = [reader EXCEPT ![r] = new]
      BY <1>4, Zenon DEF LRInv, LRTypeOK, LoadDataIndex
    <3> HIDE DEF new
    <3>1. reader' \in [Readers -> ReaderStates]
      BY <3>2, <3>3, Zenon DEF LRInv, LRTypeOK
    <3> QED
      BY <1>4, <3>1, Zenon DEF LRInv, LRTypeOK, LoadDataIndex
  <2>2. Counted'
    BY <1>4 DEF LRInv, LoadDataIndex, LRTypeOK, ReaderStates, Counted, Inside, At
  <2>3. OldReaders'
    <3>1. ~Reading(r, Background)'
      BY <1>4, Other DEF LRInv, LoadDataIndex, LRTypeOK, ReaderStates, Reading, Background
    <3> QED
      BY <1>4, <3>1, Zenon DEF LRInv, LoadDataIndex, LRTypeOK, ReaderStates, OldReaders, Reading, Background, At
  <2>4. Copies'
    BY <1>4, Zenon DEF LRInv, LoadDataIndex, LRTypeOK, Copies, Background, At
  <2>5. Destroying'
    BY <1>4, Zenon DEF LRInv, LoadDataIndex, LRTypeOK, ReaderStates, Counted, Destroying, Inside, At
  <2> QED
    BY <2>1, <2>2, <2>3, <2>4, <2>5, Zenon DEF LRInv
<1>5. CASE EndRead(r)
  <2>1. LRTypeOK'
    BY <1>5 DEF LRInv, EndRead, LRTypeOK, ReaderStates, Inside, At, Idle
  <2>2. Counted'
    BY <1>5, Zenon DEF LRInv, EndRead, LRTypeOK, ReaderStates, Counted, Inside, At, Idle
  <2>3. OldReaders'
    BY <1>5, Zenon DEF LRInv, EndRead, LRTypeOK, ReaderStates, Counted, OldReaders, Reading, Background, Inside, At, Idle
  <2>4. Copies'
    BY <1>5, Zenon DEF LRInv, EndRead, LRTypeOK, Copies, Background, At, Idle
  <2>5. Destroying'
    BY <1>5, Zenon DEF LRInv, EndRead, LRTypeOK, ReaderStates, Counted, Destroying, Inside, At, Idle
  <2> QED
    BY <2>1, <2>2, <2>3, <2>4, <2>5, Zenon DEF LRInv
<1> QED
  BY <1>1, <1>2, <1>3, <1>4, <1>5, Zenon DEF ReadStep

\* So does every step of write(), in whatever places the readers are meanwhile.
LEMMA WriteKeepsLR == ASSUME LRInv, NEW w \in Writers, WriteStep(w) PROVE LRInv'
<1>1. ASSUME NEW op \in Operations, BeginWrite(w, op) PROVE LRInv'
  <2>1. LRTypeOK'
    BY <1>1, Zenon DEF LRInv, BeginWrite, LRTypeOK, ReaderStates, Inside, At, WritePc, NoWriter
  <2>2. Counted'
    BY <1>1, Zenon DEF LRInv, BeginWrite, LRTypeOK, ReaderStates, Counted, Inside, At, WritePc, NoWriter
  <2>3. OldReaders'
    BY <1>1, Zenon DEF LRInv, BeginWrite, LRTypeOK, ReaderStates, Counted, OldReaders, Reading, Background, Inside, At, WritePc, NoWriter
  <2>4. Copies'
    BY <1>1, Zenon DEF LRInv, BeginWrite, LRTypeOK, Copies, Background, At, WritePc, NoWriter
  <2>5. Destroying'
    BY <1>1, Zenon DEF LRInv, BeginWrite, LRTypeOK, ReaderStates, Counted, Destroying, Inside, At, WritePc, NoWriter
  <2> QED
    BY <2>1, <2>2, <2>3, <2>4, <2>5, Zenon DEF LRInv
<1>2. CASE FirstWrite(w)
  <2>0. writer # NoWriter
    BY <1>2, NoWriterIsAtNone, Zenon DEF FirstWrite, WritePc
  <2>1. LRTypeOK'
    BY <1>2, Zenon DEF LRInv, FirstWrite, LRTypeOK, ReaderStates, Inside, At, WritePc, NoWriter
  <2>2. Counted'
    BY <1>2, Zenon DEF LRInv, FirstWrite, LRTypeOK, ReaderStates, Counted, Inside, At, WritePc, NoWriter
  <2>3. OldReaders'
    BY <1>2, Zenon DEF LRInv, FirstWrite, LRTypeOK, ReaderStates, Counted, OldReaders, Reading, Background, Inside, At, WritePc, NoWriter
  <2>4. Copies'
    <3>1. _data[Background] = _data[_foregroundDataIndex]
      BY <1>2, Indexes, Zenon DEF LRInv, FirstWrite, Copies, WritePc
    <3>2. _data'[Background] = Apply(writer.op, _data[Background])
      BY <1>2, Indexes, Zenon DEF LRInv, FirstWrite, LRTypeOK
    <3>3. _data'[_foregroundDataIndex] = _data[_foregroundDataIndex]
      <4>1. _foregroundDataIndex # Background /\ _foregroundDataIndex \in {0, 1}
        BY Indexes DEF LRInv
      <4> QED
        BY <1>2, <4>1, Zenon DEF LRInv, FirstWrite, LRTypeOK
    <3>4. writer'.pc = "swap data" /\ writer'.op = writer.op
      BY <1>2, Zenon DEF LRInv, FirstWrite, LRTypeOK
    <3> QED
      BY <1>2, <3>1, <3>2, <3>3, <3>4, Zenon DEF FirstWrite, Copies, Background
  <2>5. Destroying'
    BY <1>2, <2>0, Zenon DEF LRInv, FirstWrite, Destroying
  <2> QED
    BY <2>1, <2>2, <2>3, <2>4, <2>5, Zenon DEF LRInv
<1>3. CASE SwapData(w)
  <2>0. writer # NoWriter
    BY <1>3, NoWriterIsAtNone, Zenon DEF SwapData, WritePc
  <2>1. LRTypeOK'
    <3>1. _foregroundDataIndex' \in {0, 1}
      BY <1>3, Other, Zenon DEF LRInv, SwapData, LRTypeOK
    <3> QED
      BY <1>3, <3>1, Zenon DEF LRInv, SwapData, LRTypeOK
  <2>2. Counted'
    BY <1>3, Zenon DEF LRInv, SwapData, LRTypeOK, ReaderStates, Counted, Inside, At, WritePc, NoWriter
  <2>3. OldReaders'
    BY <1>3, Zenon DEF LRInv, SwapData, LRTypeOK, ReaderStates, Counted, OldReaders, Reading, Background, Inside, At, WritePc, NoWriter
  <2>4. Copies'
    <3>1. Background' = _foregroundDataIndex /\ _foregroundDataIndex' = Background
      BY <1>3, Other, Zenon DEF LRInv, SwapData, LRTypeOK, Background
    <3>2. writer'.pc = "wait 1" /\ writer'.op = writer.op
      BY <1>3, Zenon DEF LRInv, SwapData, LRTypeOK
    <3> QED
      BY <1>3, <3>1, <3>2, Zenon DEF LRInv, SwapData, Copies, WritePc
  <2>5. Destroying'
    BY <1>3, <2>0, Zenon DEF LRInv, SwapData, Destroying
  <2> QED
    BY <2>1, <2>2, <2>3, <2>4, <2>5, Zenon DEF LRInv
<1>4. CASE Waited(w)
  <2>0. writer # NoWriter
    BY <1>4, NoWriterIsAtNone, Zenon DEF Waited, WritePc
  <2>1. LRTypeOK'
    BY <1>4, Zenon DEF LRInv, Waited, LRTypeOK, ReaderStates, Inside, At, WritePc, NoWriter, BackgroundCounterIsZero
  <2>2. Counted'
    BY <1>4, Zenon DEF LRInv, Waited, LRTypeOK, ReaderStates, Counted, Inside, At, WritePc, NoWriter, BackgroundCounterIsZero
  <2>3. OldReaders'
    <3> SUFFICES ASSUME NEW q \in Readers, Reading(q, Background)
                 PROVE  reader[q].counter = _foregroundCounterIndex
      BY <1>4, Zenon DEF LRInv, Waited, LRTypeOK, ReaderStates, OldReaders, Reading, Background, At
    <3>1. q \in _counters[reader[q].counter] /\ reader[q].counter \in {0, 1}
      BY Zenon DEF LRInv, LRTypeOK, ReaderStates, Counted, Inside, Reading, At
    <3>2. reader[q].counter # 1 - _foregroundCounterIndex
      BY <1>4, <3>1, Zenon DEF Waited, BackgroundCounterIsZero
    <3> QED
      BY <3>1, <3>2, Other, Zenon DEF LRInv, LRTypeOK
  <2>4. Copies'
    BY <1>4, Zenon DEF LRInv, Waited, LRTypeOK, Copies, Background, At, WritePc, NoWriter, BackgroundCounterIsZero
  <2>5. Destroying'
    BY <1>4, <2>0, Zenon DEF LRInv, Waited, Destroying
  <2> QED
    BY <2>1, <2>2, <2>3, <2>4, <2>5, Zenon DEF LRInv
<1>5. CASE SwapCounters(w)
  <2>0. writer # NoWriter
    BY <1>5, NoWriterIsAtNone, Zenon DEF SwapCounters, WritePc
  <2>1. LRTypeOK'
    <3>1. _foregroundCounterIndex' \in {0, 1}
      BY <1>5, Other, Zenon DEF LRInv, SwapCounters, LRTypeOK
    <3> QED
      BY <1>5, <3>1, Zenon DEF LRInv, SwapCounters, LRTypeOK
  <2>2. Counted'
    BY <1>5, Zenon DEF LRInv, SwapCounters, LRTypeOK, ReaderStates, Counted, Inside, At, WritePc, NoWriter
  <2>3. OldReaders'
    <3>1. 1 - _foregroundCounterIndex' = _foregroundCounterIndex
      BY <1>5, Other, Zenon DEF LRInv, SwapCounters, LRTypeOK
    <3>2. writer'.pc = "wait 2" /\ writer.pc = "swap counters"
      BY <1>5, Zenon DEF LRInv, SwapCounters, LRTypeOK, WritePc
    <3> QED
      BY <1>5, <3>1, <3>2, Zenon DEF LRInv, SwapCounters, OldReaders, Reading, Background, At
  <2>4. Copies'
    BY <1>5, Zenon DEF LRInv, SwapCounters, LRTypeOK, Copies, Background, At, WritePc, NoWriter
  <2>5. Destroying'
    BY <1>5, <2>0, Zenon DEF LRInv, SwapCounters, Destroying
  <2> QED
    BY <2>1, <2>2, <2>3, <2>4, <2>5, Zenon DEF LRInv
<1>6. CASE WaitedAgain(w)
  <2>0. writer # NoWriter
    BY <1>6, NoWriterIsAtNone, Zenon DEF WaitedAgain, WritePc
  <2>1. LRTypeOK'
    BY <1>6, Zenon DEF LRInv, WaitedAgain, LRTypeOK, ReaderStates, Inside, At, WritePc, NoWriter, BackgroundCounterIsZero
  <2>2. Counted'
    BY <1>6, Zenon DEF LRInv, WaitedAgain, LRTypeOK, ReaderStates, Counted, Inside, At, WritePc, NoWriter, BackgroundCounterIsZero
  <2>3. OldReaders'
    BY <1>6, Zenon DEF LRInv, WaitedAgain, LRTypeOK, ReaderStates, Counted, OldReaders, Reading, Background, Inside, At, WritePc, NoWriter, BackgroundCounterIsZero
  <2>4. Copies'
    BY <1>6, Zenon DEF LRInv, WaitedAgain, LRTypeOK, Copies, Background, At, WritePc, NoWriter, BackgroundCounterIsZero
  <2>5. Destroying'
    BY <1>6, <2>0, Zenon DEF LRInv, WaitedAgain, Destroying
  <2> QED
    BY <2>1, <2>2, <2>3, <2>4, <2>5, Zenon DEF LRInv
<1>7. CASE SecondWrite(w)
  <2>0. writer # NoWriter
    BY <1>7, NoWriterIsAtNone, Zenon DEF SecondWrite, WritePc
  <2>1. LRTypeOK'
    BY <1>7, Zenon DEF LRInv, SecondWrite, LRTypeOK, ReaderStates, Inside, At, WritePc, NoWriter
  <2>2. Counted'
    BY <1>7, Zenon DEF LRInv, SecondWrite, LRTypeOK, ReaderStates, Counted, Inside, At, WritePc, NoWriter
  <2>3. OldReaders'
    BY <1>7, Zenon DEF LRInv, SecondWrite, LRTypeOK, ReaderStates, Counted, OldReaders, Reading, Background, Inside, At, WritePc, NoWriter
  <2>4. Copies'
    <3>1. _data[_foregroundDataIndex] = Apply(writer.op, _data[Background])
      BY <1>7, Zenon DEF LRInv, SecondWrite, Copies, WritePc
    <3>2. _data'[Background] = Apply(writer.op, _data[Background])
      BY <1>7, Indexes, Zenon DEF LRInv, SecondWrite, LRTypeOK
    <3>3. _data'[_foregroundDataIndex] = _data[_foregroundDataIndex]
      <4>1. _foregroundDataIndex # Background /\ _foregroundDataIndex \in {0, 1}
        BY Indexes DEF LRInv
      <4> QED
        BY <1>7, <4>1, Zenon DEF LRInv, SecondWrite, LRTypeOK
    <3>4. _data'[0] = _data'[1]
      BY <3>1, <3>2, <3>3, Indexes, Zenon DEF LRInv
    <3> QED
      BY <1>7, <3>4, Zenon DEF SecondWrite, Copies, NoWriter
  <2>5. Destroying'
    BY <1>7, <2>0, Zenon DEF LRInv, SecondWrite, Destroying
  <2> QED
    BY <2>1, <2>2, <2>3, <2>4, <2>5, Zenon DEF LRInv
<1>8. CASE WriteThrows(w)
  <2>0. writer # NoWriter
    BY <1>8, NoWriterIsAtNone, Zenon DEF WriteThrows, WritePc
  <2>1. LRTypeOK'
    BY <1>8, Zenon DEF LRInv, WriteThrows, LRTypeOK, ReaderStates, Inside, At, WritePc, NoWriter
  <2>2. Counted'
    BY <1>8, Zenon DEF LRInv, WriteThrows, LRTypeOK, ReaderStates, Counted, Inside, At, WritePc, NoWriter
  <2>3. OldReaders'
    BY <1>8, Zenon DEF LRInv, WriteThrows, LRTypeOK, ReaderStates, Counted, OldReaders, Reading, Background, Inside, At, WritePc, NoWriter
  <2>4. Copies'
    <3>1. _data'[Background] = _data[_foregroundDataIndex]
      BY <1>8, Indexes, Zenon DEF LRInv, WriteThrows, LRTypeOK
    <3>2. _data'[_foregroundDataIndex] = _data[_foregroundDataIndex]
      BY <1>8, Indexes, Zenon DEF LRInv, WriteThrows, LRTypeOK
    <3>3. _data'[0] = _data'[1]
      BY <3>1, <3>2, Indexes, Zenon DEF LRInv
    <3> QED
      BY <1>8, <3>3, Zenon DEF WriteThrows, Copies, NoWriter
  <2>5. Destroying'
    BY <1>8, <2>0, Zenon DEF LRInv, WriteThrows, Destroying
  <2> QED
    BY <2>1, <2>2, <2>3, <2>4, <2>5, Zenon DEF LRInv
<1> QED
  BY <1>1, <1>2, <1>3, <1>4, <1>5, <1>6, <1>7, <1>8, Zenon DEF WriteStep

\* And so does the destructor.
LEMMA DestructorKeepsLR == ASSUME LRInv, DestructorStep PROVE LRInv'
<1>1. CASE BeginDestruction
  <2>1. LRTypeOK'
    BY <1>1, Zenon DEF LRInv, BeginDestruction, LRTypeOK, ReaderStates, Inside, At, NoWriter
  <2>2. Counted'
    BY <1>1, Zenon DEF LRInv, BeginDestruction, LRTypeOK, ReaderStates, Counted, Inside, At, NoWriter
  <2>3. OldReaders'
    BY <1>1, Zenon DEF LRInv, BeginDestruction, LRTypeOK, ReaderStates, Counted, OldReaders, Reading, Background, Inside, At, NoWriter
  <2>4. Copies'
    BY <1>1, Zenon DEF LRInv, BeginDestruction, LRTypeOK, Copies, Background, At, NoWriter
  <2>5. Destroying'
    BY <1>1, Zenon DEF LRInv, BeginDestruction, LRTypeOK, ReaderStates, Counted, Destroying, Inside, At, NoWriter
  <2> QED
    BY <2>1, <2>2, <2>3, <2>4, <2>5, Zenon DEF LRInv
<1>2. CASE WritersGone
  <2>1. LRTypeOK'
    BY <1>2, Zenon DEF LRInv, WritersGone, LRTypeOK, ReaderStates, Inside, At, NoWriter
  <2>2. Counted'
    BY <1>2, Zenon DEF LRInv, WritersGone, LRTypeOK, ReaderStates, Counted, Inside, At, NoWriter
  <2>3. OldReaders'
    BY <1>2, Zenon DEF LRInv, WritersGone, LRTypeOK, ReaderStates, Counted, OldReaders, Reading, Background, Inside, At, NoWriter
  <2>4. Copies'
    BY <1>2, Zenon DEF LRInv, WritersGone, LRTypeOK, Copies, Background, At, NoWriter
  <2>5. Destroying'
    BY <1>2, Zenon DEF LRInv, WritersGone, LRTypeOK, ReaderStates, Counted, Destroying, Inside, At, NoWriter
  <2> QED
    BY <2>1, <2>2, <2>3, <2>4, <2>5, Zenon DEF LRInv
<1>3. CASE ReadersGone
  <2>1. LRTypeOK'
    BY <1>3, Zenon DEF LRInv, ReadersGone, LRTypeOK, ReaderStates, Inside, At, NoWriter
  <2>2. Counted'
    BY <1>3, Zenon DEF LRInv, ReadersGone, LRTypeOK, ReaderStates, Counted, Inside, At, NoWriter
  <2>3. OldReaders'
    BY <1>3, Zenon DEF LRInv, ReadersGone, LRTypeOK, ReaderStates, Counted, OldReaders, Reading, Background, Inside, At, NoWriter
  <2>4. Copies'
    BY <1>3, Zenon DEF LRInv, ReadersGone, LRTypeOK, Copies, Background, At, NoWriter
  <2>5. Destroying'
    BY <1>3, Zenon DEF LRInv, ReadersGone, LRTypeOK, ReaderStates, Counted, Destroying, Inside, At, NoWriter
  <2> QED
    BY <2>1, <2>2, <2>3, <2>4, <2>5, Zenon DEF LRInv
<1> QED
  BY <1>1, <1>2, <1>3, Zenon DEF DestructorStep

\* LeftRight's promise, for any number of threads: a copy is never written while somebody reads it,
\* the copies agree between two writes also after an exception, and when the destructor has returned
\* nobody is inside read() past its check or inside write().
THEOREM LeftRightIsSafe == LRSpec => [](ReadersAndWritersApart /\ NobodyInsideWhenDestroyed /\ CopiesAgree)
<1>1. LRInv /\ [LRNext]_lrvars => LRInv'
  <2> SUFFICES ASSUME LRInv, [LRNext]_lrvars PROVE LRInv'
    BY Zenon
  <2>1. CASE LRNext
    BY <2>1, ReadKeepsLR, WriteKeepsLR, DestructorKeepsLR, Zenon DEF LRNext
  <2>2. CASE UNCHANGED lrvars
    <3>1. LRTypeOK'
      BY <2>2, Zenon DEF lrvars, LRInv, LRTypeOK
    <3>2. Counted' /\ OldReaders'
      BY <2>2, Zenon DEF lrvars, LRInv, Counted, OldReaders, Reading, At, Background
    <3>3. Copies' /\ Destroying'
      BY <2>2, Zenon DEF lrvars, LRInv, Copies, Destroying, Background
    <3> QED
      BY <3>1, <3>2, <3>3, Zenon DEF LRInv
  <2> QED
    BY <2>1, <2>2, Zenon
<1>2. LRInv => ReadersAndWritersApart /\ NobodyInsideWhenDestroyed /\ CopiesAgree
  <2> SUFFICES ASSUME LRInv PROVE ReadersAndWritersApart /\ NobodyInsideWhenDestroyed /\ CopiesAgree
    BY Zenon
  <2>1. ReadersAndWritersApart
    BY Zenon DEF LRInv, OldReaders, ReadersAndWritersApart
  <2>2. NobodyInsideWhenDestroyed
    BY Zenon DEF LRInv, Destroying, NobodyInsideWhenDestroyed
  <2>3. CopiesAgree
    BY DEF LRInv, Copies, CopiesAgree, NoWriter
  <2> QED
    BY <2>1, <2>2, <2>3, Zenon
<1> QED
  BY InitLR, <1>1, <1>2, PTL DEF LRSpec
=============================================================================
