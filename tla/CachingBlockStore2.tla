------------------------- MODULE CachingBlockStore2 -------------------------
(***************************************************************************)
(* CachingBlockStore2 and its Cache: a write-back cache in front of a base *)
(* block store.  An operation takes the block out of the cache (pop), works*)
(* on it and puts it back (push).  push makes space by destructing the     *)
(* oldest entry, and a periodic task destructs old ones; the destructor    *)
(* writes a dirty block back.  A block being destructed is locked in the   *)
(* LockPool _currentlyFlushingEntries, and pop waits for it.               *)
(*                                                                         *)
(* A critical section of Cache::_mutex is one action.  The layers above    *)
(* run at most one operation on a block at a time, op[id]; operations on   *)
(* different blocks, the periodic task and flush run in parallel.          *)
(***************************************************************************)
EXTENDS Naturals, FiniteSets, Sequences, Functions

CONSTANTS
    BlockIds,
    Values,       \* block contents
    MaxEntries,   \* MAX_ENTRIES of the Cache
    Purgers,      \* the threads of the periodic task and of flush
    PromptInsert, \* whether a new entry is never purged before it is noted
    NoBlock,
    Thrown        \* the answer of an operation that throws

VARIABLES
    base,        \* base[id]: the content in the base store
    queue,       \* _cachedBlocks, oldest entry first
    notInBase,   \* _cachedBlocksNotInBaseStore
    op,          \* op[id]: the operation running on id and the block in its hands
    victim,      \* victim[w]: the entry that worker w is destructing
    answer       \* answer[id]: what the last operation on id returned

vars == <<base, queue, notInBase, op, victim, answer>>

CachedBlock == [id: BlockIds, value: Values, dirty: BOOLEAN]

Kinds == {"tryCreate", "remove", "load", "store"}

Operation == [step: {"popped", "pushing", "inserting"}, kind: Kinds,
              value: Values \cup {NoBlock}, block: CachedBlock \cup {NoBlock}]

ASSUME CachingAssumption ==
    /\ MaxEntries \in Nat \ {0} /\ PromptInsert \in BOOLEAN
    /\ NoBlock \notin Values \cup CachedBlock \cup Operation
    /\ IsFiniteSet(BlockIds) /\ BlockIds \cap Purgers = {}

Requests == ({"tryCreate", "store"} \X Values) \cup ({"remove", "load"} \X {NoBlock})

Workers == BlockIds \cup Purgers

TypeOK ==
    /\ base \in [BlockIds -> Values \cup {NoBlock}]
    /\ queue \in Seq(CachedBlock) /\ Len(queue) <= MaxEntries
    /\ notInBase \subseteq BlockIds
    /\ op \in [BlockIds -> Operation \cup {NoBlock}]
    /\ victim \in [Workers -> CachedBlock \cup {NoBlock}]
    /\ answer \in [BlockIds -> Values \cup BOOLEAN \cup {NoBlock, Thrown}]

Init ==
    /\ base \in [BlockIds -> Values \cup {NoBlock}]
    /\ queue = <<>> /\ notInBase = {}
    /\ op = [id \in BlockIds |-> NoBlock]
    /\ victim = [w \in Workers |-> NoBlock]
    /\ answer = [id \in BlockIds |-> NoBlock]

----------------------------------------------------------------------------
Cached(id) == {b \in Range(queue) : b.id = id}

Flushing == {victim[w].id : w \in {w \in Workers : victim[w] # NoBlock}}

Answers(id, a) == answer' = [answer EXCEPT ![id] = a]

At(id, step, kinds) ==
    op[id] # NoBlock /\ op[id].step = step /\ op[id].kind \in kinds

Begin(id, kind, v, b) ==
    op' = [op EXCEPT ![id] = [step |-> "popped", kind |-> kind, value |-> v, block |-> b]]

Return(id) == op' = [op EXCEPT ![id] = NoBlock]

Keep(id, b) == op' = [op EXCEPT ![id].step = "pushing", ![id].block = b]

Block(id, v, dirty) == [id |-> id, value |-> v, dirty |-> dirty]

\* QueueMap::pop(key): the entry at i is unlinked from the queue
PopAt(s, i) == [j \in 1..Len(s) - 1 |-> IF j < i THEN s[j] ELSE s[j + 1]]

(***************************************************************************)
(* Cache::pop, the first step of every operation.  tryCreate does not look *)
(* into the base store: ids are random, so a created block is new there.   *)
(***************************************************************************)
\* mutant: pop does not wait for an entry that is being written back
PopDoesNotWait(id, kind, v) ==
    /\ op[id] = NoBlock
    /\ kind = "tryCreate" => base[id] = NoBlock \/ Cached(id) # {}
    /\ \/ Cached(id) = {} /\ UNCHANGED queue /\ Begin(id, kind, v, NoBlock)
       \/ \E i \in DOMAIN queue :
              queue[i].id = id /\ queue' = PopAt(queue, i) /\ Begin(id, kind, v, queue[i])
    /\ UNCHANGED <<base, notInBase, victim, answer>>

Pop(id, kind, v) ==
    /\ op[id] = NoBlock /\ id \notin Flushing
    /\ kind = "tryCreate" => base[id] = NoBlock \/ Cached(id) # {}
    /\ \/ Cached(id) = {} /\ UNCHANGED queue /\ Begin(id, kind, v, NoBlock)
       \/ \E i \in DOMAIN queue :
              queue[i].id = id /\ queue' = PopAt(queue, i) /\ Begin(id, kind, v, queue[i])
    /\ UNCHANGED <<base, notInBase, victim, answer>>

TryCreate(id) ==
    /\ At(id, "popped", {"tryCreate"})
    /\ Answers(id, op[id].block = NoBlock)
    /\ Keep(id, IF op[id].block = NoBlock THEN Block(id, op[id].value, TRUE)
                                         ELSE op[id].block)
    /\ UNCHANGED <<base, queue, notInBase, victim>>

\* A popped block is destructed without being written back, unless the base
\* store lacks a block that it should have: then remove throws before that.
Remove(id) ==
    /\ At(id, "popped", {"remove"})
    /\ LET b == op[id].block
           throws == b # NoBlock /\ id \notin notInBase /\ base[id] = NoBlock
       IN  /\ base' = [base EXCEPT ![id] =
                  IF throws /\ b.dirty THEN b.value
                  ELSE IF b # NoBlock /\ id \in notInBase THEN @ ELSE NoBlock]
           /\ Answers(id, IF throws THEN Thrown ELSE b # NoBlock \/ base[id] # NoBlock)
    /\ notInBase' = notInBase \ (IF op[id].block = NoBlock THEN {} ELSE {id})
    /\ Return(id)
    /\ UNCHANGED <<queue, victim>>

Load(id) ==
    /\ At(id, "popped", {"load"})
    /\ LET b == IF op[id].block = NoBlock /\ base[id] # NoBlock
                THEN Block(id, base[id], FALSE) ELSE op[id].block
       IN  IF b = NoBlock THEN Answers(id, NoBlock) /\ Return(id)
                          ELSE Answers(id, b.value) /\ Keep(id, b)
    /\ UNCHANGED <<base, queue, notInBase, victim>>

Store(id) ==
    /\ At(id, "popped", {"store"})
    /\ IF op[id].block # NoBlock
       THEN Keep(id, Block(id, op[id].value, TRUE)) /\ UNCHANGED base
       ELSE /\ Keep(id, Block(id, op[id].value, FALSE))
            /\ base' = [base EXCEPT ![id] = op[id].value]
    /\ UNCHANGED <<queue, notInBase, victim, answer>>

----------------------------------------------------------------------------
(***************************************************************************)
(* Cache::push; after it tryCreate notes that the base store does not have *)
(* the block yet.                                                          *)
(***************************************************************************)
Push(id) ==
    /\ At(id, "pushing", Kinds) /\ victim[id] = NoBlock /\ Len(queue) < MaxEntries
    /\ queue' = Append(queue, op[id].block)
    /\ op' = [op EXCEPT ![id] =
                IF op[id].kind = "tryCreate" /\ answer[id]
                THEN [@ EXCEPT !.step = "inserting", !.block = NoBlock] ELSE NoBlock]
    /\ UNCHANGED <<base, notInBase, victim, answer>>

InsertNotInBaseStore(id) ==
    /\ At(id, "inserting", {"tryCreate"})
    /\ notInBase' = notInBase \cup {id}
    /\ Return(id)
    /\ UNCHANGED <<base, queue, victim, answer>>

(***************************************************************************)
(* Cache::_deleteEntry, by a push into a full cache or by the periodic     *)
(* task (_deleteMatchingEntryAtBeginning; the age of an entry is left      *)
(* open).  The destructor of CachedBlock runs without the lock.            *)
(***************************************************************************)
\* mutant: the periodic task leaves dirty entries in the cache
DeletesCleanOnly(w) ==
    /\ queue # <<>> /\ victim[w] = NoBlock /\ Head(queue).id \notin Flushing
    /\ w \in BlockIds => At(w, "pushing", Kinds) /\ Len(queue) = MaxEntries
    /\ w \in Purgers => ~Head(queue).dirty
    /\ PromptInsert => ~At(Head(queue).id, "inserting", Kinds)
    /\ victim' = [victim EXCEPT ![w] = Head(queue)]
    /\ queue' = Tail(queue)
    /\ UNCHANGED <<base, notInBase, op, answer>>

DeleteEntry(w) ==
    /\ queue # <<>> /\ victim[w] = NoBlock /\ Head(queue).id \notin Flushing
    /\ w \in BlockIds => At(w, "pushing", Kinds) /\ Len(queue) = MaxEntries
    /\ PromptInsert => ~At(Head(queue).id, "inserting", Kinds)
    /\ victim' = [victim EXCEPT ![w] = Head(queue)]
    /\ queue' = Tail(queue)
    /\ UNCHANGED <<base, notInBase, op, answer>>

WriteBack(w) ==
    /\ victim[w] # NoBlock /\ victim[w].dirty
    /\ base' = [base EXCEPT ![victim[w].id] = victim[w].value]
    /\ victim' = [victim EXCEPT ![w].dirty = FALSE]
    /\ UNCHANGED <<queue, notInBase, op, answer>>

\* mutant: a block written back still counts as not in the base store
KeepsNotInBaseStore(w) ==
    /\ victim[w] # NoBlock /\ ~victim[w].dirty
    /\ victim' = [victim EXCEPT ![w] = NoBlock]
    /\ UNCHANGED <<base, queue, notInBase, op, answer>>

EraseNotInBaseStore(w) ==
    /\ victim[w] # NoBlock /\ ~victim[w].dirty
    /\ notInBase' = notInBase \ {victim[w].id}
    /\ victim' = [victim EXCEPT ![w] = NoBlock]
    /\ UNCHANGED <<base, queue, op, answer>>

OperationStep(id) ==
    \/ \E r \in Requests : Pop(id, r[1], r[2])
    \/ TryCreate(id) \/ Remove(id) \/ Load(id) \/ Store(id)
    \/ Push(id) \/ InsertNotInBaseStore(id)

Next ==
    \/ \E id \in BlockIds : OperationStep(id)
    \/ \E w \in Workers : DeleteEntry(w) \/ WriteBack(w) \/ EraseNotInBaseStore(w)

Spec == Init /\ [][Next]_vars

\* the periodic task runs every PURGE_INTERVAL and sees every entry grow old,
\* and a thread that took an entry out goes on to destroy it
Fairness ==
    /\ \A p \in Purgers : WF_vars(DeleteEntry(p))
    /\ \A w \in Workers :
           WF_vars(WriteBack(w)) /\ WF_vars(EraseNotInBaseStore(w))

FairSpec == Spec /\ Fairness

----------------------------------------------------------------------------
\* every CachedBlock object of id: in the cache, in an operation, in a destructor
ObjectsOf(id) ==
    Cached(id)
    \cup (IF op[id] = NoBlock THEN {} ELSE {op[id].block} \ {NoBlock})
    \cup {victim[w] : w \in {w \in Workers : victim[w] # NoBlock /\ victim[w].id = id}}

Content == [id \in BlockIds |->
    IF ObjectsOf(id) = {} THEN base[id] ELSE (CHOOSE b \in ObjectsOf(id) : TRUE).value]

Store2 == INSTANCE BlockStore2 WITH content <- Content

(***************************************************************************)
(* The cache is invisible: clients see a plain block store, whatever is    *)
(* evicted, written back or loaded again meanwhile.  In particular a pop   *)
(* never reads from the base store what is still being written back.       *)
(***************************************************************************)
ImplementsBlockStore == Store2!Spec

(***************************************************************************)
(* There is one CachedBlock object per block, so no push finds its key in  *)
(* the QueueMap and no two objects disagree about the content.             *)
(***************************************************************************)
OneObjectPerBlock ==
    \A id \in BlockIds : /\ Cardinality(ObjectsOf(id)) <= 1
                         /\ At(id, "pushing", Kinds) => Cached(id) = {}

(***************************************************************************)
(* numBlocks, and how often forEachBlock calls back for id: both go over   *)
(* the blocks noted as only cached and over those in the base store.       *)
(***************************************************************************)
InBase == {id \in BlockIds : base[id] # NoBlock}
numBlocks == Cardinality(notInBase) + Cardinality(InBase)
forEachBlock(id) == Cardinality({id} \cap notInBase) + Cardinality({id} \cap InBase)

(***************************************************************************)
(* With nothing running, numBlocks is the number of blocks that exist, and *)
(* forEachBlock reports each of them once.                                 *)
(***************************************************************************)
NumBlocksIsExact ==
    (\A id \in BlockIds : op[id] = NoBlock) /\ Flushing = {} =>
        /\ numBlocks = Cardinality({id \in BlockIds : Content[id] # NoBlock})
        /\ \A id \in BlockIds : forEachBlock(id) = IF Content[id] # NoBlock THEN 1 ELSE 0

(***************************************************************************)
(* The cache accounts for every block: one object each, at most MaxEntries *)
(* of them cached, and exact answers about which blocks exist.             *)
(***************************************************************************)
CacheIsExact == TypeOK /\ OneObjectPerBlock /\ NumBlocksIsExact

(***************************************************************************)
(* A block that clients leave alone reaches the base store: the periodic   *)
(* task writes it back (_deleteOldEntriesParallel).                        *)
(***************************************************************************)
LeftAloneIsWrittenBack ==
    \A id \in BlockIds :
        <>[](op[id] = NoBlock) => <>[](base[id] = Content[id])

(***************************************************************************)
(* remove leaves no copy of the block behind, in the cache or in the base  *)
(* store, so that a later load finds nothing.                              *)
(***************************************************************************)
RemovedBlockIsGone ==
    [][\A id \in BlockIds : Remove(id) => Content'[id] = NoBlock]_vars
=============================================================================
