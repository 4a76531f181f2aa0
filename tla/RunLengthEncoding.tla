------------------------- MODULE RunLengthEncoding -------------------------
(***************************************************************************)
(* compressors/RunLengthEncoding.cpp: runs of arbitrary bytes and runs of  *)
(* one byte alternate; a length is a uint16_t, here one element of the     *)
(* sequence that is at most MaxRun.  start and end are positions in data,  *)
(* end excluded.                                                           *)
(***************************************************************************)
EXTENDS Integers, Sequences, SequencesExt, FiniteSetsExt

CONSTANT MaxRun     \* the largest run length a uint16_t holds

RealEnd(start, end) == Min({end, start + MaxRun})

_arbitraryRunLength(data, start, end) ==
    LET stops == {c \in (start + 5)..(RealEnd(start, end) - 1) : \A j \in (c - 5)..c : data[j] = data[c]}
    IN  IF stops = {} THEN RealEnd(start, end) - start ELSE Min(stops) - start - 5

_countIdenticalBytes(data, start, end) ==
    LET others == {c \in (start + 1)..(RealEnd(start, end) - 1) : data[c] # data[start]}
    IN  IF others = {} THEN RealEnd(start, end) - start ELSE Min(others) - start

RECURSIVE CompressFrom(_, _)
encodeIdenticalWords(data, start, n) == <<n, data[start]>> \o CompressFrom(data, start + n)
encodeArbitraryWords(data, start, n) ==
    <<n>> \o SubSeq(data, start, start + n - 1)
      \o IF start + n > Len(data) THEN <<>>
         ELSE encodeIdenticalWords(data, start + n, _countIdenticalBytes(data, start + n, Len(data) + 1))
CompressFrom(data, start) ==
    IF start > Len(data) THEN <<>>
    ELSE encodeArbitraryWords(data, start, _arbitraryRunLength(data, start, Len(data) + 1))
Compress(data) == CompressFrom(data, 1)

\* an arbitrary run, then an identical run, until the stream is empty; a cut stream fails an assertion
RECURSIVE decodeArbitraryWords(_, _)
decodeIdenticalWords(bytes, out) ==
    IF bytes = <<>> THEN [err |-> FALSE, val |-> out]
    ELSE IF Len(bytes) < 2 THEN [err |-> TRUE, val |-> out]
    ELSE decodeArbitraryWords(SubSeq(bytes, 3, Len(bytes)), out \o [i \in 1..bytes[1] |-> bytes[2]])
decodeArbitraryWords(bytes, out) ==
    IF bytes = <<>> THEN [err |-> FALSE, val |-> out]
    ELSE IF Len(bytes) < 1 + bytes[1] THEN [err |-> TRUE, val |-> out]
    ELSE decodeIdenticalWords(SubSeq(bytes, 2 + bytes[1], Len(bytes)), out \o SubSeq(bytes, 2, 1 + bytes[1]))
Decompress(bytes) == decodeArbitraryWords(bytes, <<>>)
=============================================================================
