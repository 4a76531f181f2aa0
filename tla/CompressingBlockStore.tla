----------------------- MODULE CompressingBlockStore -----------------------
(***************************************************************************)
(* CompressingBlockStore<RunLengthEncoding> over FakeBlockStore.  A block  *)
(* object (CompressedBlock) holds the decompressed data and owns the       *)
(* object of the base store (FakeBlock), which holds the compressed data;  *)
(* both write back when they are flushed or destructed.  There is at most  *)
(* one object of a block at a time, as under ParallelAccessBlockStore.     *)
(***************************************************************************)
EXTENDS RunLengthEncoding

CONSTANTS
    Blocks, Bytes,
    MaxSize         \* bound on the size of a block

VARIABLES
    _blocks,    \* FakeBlockStore: the compressed data of each block, or Missing
    object,     \* the block object of each block, or NoObject
    content     \* history: the data each block has, as its users see it, or Missing

cvars == <<_blocks, object, content>>

\* no compressed or decompressed data contains this element
Missing == <<MaxRun + 1>>
NoObject == [data |-> Missing, dataChanged |-> FALSE, base |-> Missing, baseChanged |-> FALSE]
Object(data, base) == [data |-> data, dataChanged |-> FALSE, base |-> base, baseChanged |-> FALSE]
Open(b) == object[b] # NoObject
Data == UNION {[1..n -> Bytes] : n \in 0..MaxSize}

CompressingInit ==
    /\ _blocks = [b \in Blocks |-> Missing]
    /\ object = [b \in Blocks |-> NoObject]
    /\ content = [b \in Blocks |-> Missing]

\* CompressedBlock::TryCreateNew; FakeBlockStore::tryCreate does not replace a block
tryCreate(b, data) ==
    /\ ~Open(b)
    /\ _blocks[b] = Missing
    /\ _blocks' = [_blocks EXCEPT ![b] = Compress(data)]
    /\ object' = [object EXCEPT ![b] = Object(data, Compress(data))]
    /\ content' = [content EXCEPT ![b] = data]

\* CompressedBlock::Overwrite
overwrite(b, data) ==
    /\ ~Open(b)
    /\ _blocks' = [_blocks EXCEPT ![b] = Compress(data)]
    /\ object' = [object EXCEPT ![b] = Object(data, Compress(data))]
    /\ content' = [content EXCEPT ![b] = data]

\* CompressedBlock::Decompress of the base store's block
load(b) ==
    /\ ~Open(b)
    /\ _blocks[b] # Missing
    /\ object' = [object EXCEPT ![b] = Object(Decompress(_blocks[b]).val, _blocks[b])]
    /\ UNCHANGED <<_blocks, content>>

write(b, i, byte) ==
    /\ Open(b)
    /\ i \in DOMAIN object[b].data
    /\ object' = [object EXCEPT ![b].data[i] = byte, ![b].dataChanged = TRUE]
    /\ content' = [content EXCEPT ![b][i] = byte]
    /\ UNCHANGED _blocks

\* DataUtils::resize: the rest is filled with zeroes
Resized(data, n) == [i \in 1..n |-> IF i <= Len(data) THEN data[i] ELSE 0]
resize(b, n) ==
    /\ Open(b)
    /\ object' = [object EXCEPT ![b].data = Resized(@, n), ![b].dataChanged = TRUE]
    /\ content' = [content EXCEPT ![b] = Resized(@, n)]
    /\ UNCHANGED _blocks

\* a mutant: the base block keeps its size
CompressesInPlace(o) ==
    IF ~o.dataChanged THEN o
    ELSE [o EXCEPT !.base = Compress(o.data) \o SubSeq(@, Len(Compress(o.data)) + 1, Len(@)),
                   !.baseChanged = TRUE, !.dataChanged = FALSE]

\* resize of the base block to the compressed size, then a write over all of it
_compressToBaseBlock(o) ==
    IF ~o.dataChanged THEN o ELSE [o EXCEPT !.base = Compress(o.data), !.baseChanged = TRUE, !.dataChanged = FALSE]

\* FakeBlockStore::updateData inserts the block if it is not there; FakeBlock::flush calls it for changed data
updateData(b, data) == _blocks' = [_blocks EXCEPT ![b] = data]
FlushBase(b, o) == IF o.baseChanged THEN updateData(b, o.base) ELSE UNCHANGED _blocks

flush(b) ==
    /\ Open(b)
    /\ LET o == _compressToBaseBlock(object[b])
       IN  FlushBase(b, o) /\ object' = [object EXCEPT ![b] = [o EXCEPT !.baseChanged = FALSE]]
    /\ UNCHANGED content

\* ~CompressedBlock, then ~FakeBlock
destruct(b) ==
    /\ Open(b)
    /\ FlushBase(b, _compressToBaseBlock(object[b]))
    /\ object' = [object EXCEPT ![b] = NoObject]
    /\ UNCHANGED content

\* BlockStore::remove(unique_ref<Block>): the object is destructed and the block removed
remove(b) ==
    /\ Open(b)
    /\ _blocks' = [_blocks EXCEPT ![b] = Missing]
    /\ object' = [object EXCEPT ![b] = NoObject]
    /\ content' = [content EXCEPT ![b] = Missing]

CompressingNext ==
    \E b \in Blocks :
        \/ \E d \in Data : tryCreate(b, d) \/ overwrite(b, d)
        \/ load(b)
        \/ \E i \in 1..MaxSize, byte \in Bytes : write(b, i, byte)
        \/ \E n \in 0..MaxSize : resize(b, n)
        \/ flush(b) \/ destruct(b) \/ remove(b)

CompressingSpec == CompressingInit /\ [][CompressingNext]_cvars

\* A block has the data its users gave it, in the object and, once no object holds changes, in the
\* store: whatever the sizes before and after compression, nothing of an older content remains.
CompressedDataIsTheData ==
    \A b \in Blocks :
        /\ Open(b) => object[b].data = content[b]
        /\ ~Open(b) => IF content[b] = Missing THEN _blocks[b] = Missing
                       ELSE _blocks[b] # Missing /\ Decompress(_blocks[b]) = [err |-> FALSE, val |-> content[b]]
=============================================================================
