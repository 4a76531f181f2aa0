------------------------ MODULE LowToHighLevelBlock ------------------------
(***************************************************************************)
(* Block objects (LowToHighLevelBlock) on top of CachingBlockStore2.  A    *)
(* block object holds a copy of the data of its block; writes go to the    *)
(* copy, flush and the destructor store a changed copy into the cache.     *)
(* The calls into CachingBlockStore2 are the steps of its module, so that  *)
(* evictions happen at any time.  ParallelAccessBlockStore keeps at most   *)
(* one object per block.                                                   *)
(***************************************************************************)
EXTENDS Naturals

CONSTANTS BlockIds, Values, MaxEntries, Purgers, PromptInsert, NoBlock, Thrown

VARIABLES
    base, queue, notInBase, op, victim, answer,  \* CachingBlockStore2
    block,   \* block[id]: the Block object of id, its _data and _dataChanged
    calling, \* calling[id]: the method of the block layer that waits for the store
    flushed  \* flushed[id]: the data that the last flush stored, until it changes

cacheVars == <<base, queue, notInBase, op, victim, answer>>

vars == <<cacheVars, block, calling, flushed>>

Cache == INSTANCE CachingBlockStore2

Methods == {"TryCreateNew", "Overwrite", "Load", "flush", "destruct",
            "destructToRemove", "remove"}

TypeOK ==
    /\ Cache!TypeOK
    /\ block \in [BlockIds -> [data: Values, changed: BOOLEAN] \cup {NoBlock}]
    /\ calling \in [BlockIds ->
           [method: Methods, data: Values \cup {NoBlock}] \cup {NoBlock}]
    /\ flushed \in [BlockIds -> Values \cup {NoBlock}]

Init ==
    /\ Cache!Init
    /\ block = [id \in BlockIds |-> NoBlock]
    /\ calling = [id \in BlockIds |-> NoBlock]
    /\ flushed = [id \in BlockIds |-> NoBlock]

----------------------------------------------------------------------------
Call(id, method, data) ==
    calling' = [calling EXCEPT ![id] = [method |-> method, data |-> data]]

Returns(id, method) ==
    /\ calling[id] # NoBlock /\ calling[id].method = method /\ op[id] = NoBlock
    /\ UNCHANGED cacheVars

HasObject(id) == calling[id] = NoBlock /\ block[id] # NoBlock

NoObject(id) == calling[id] = NoBlock /\ block[id] = NoBlock

SetBlock(id, b) == block' = [block EXCEPT ![id] = b]

ClearFlushed(id) == flushed' = [flushed EXCEPT ![id] = NoBlock]

----------------------------------------------------------------------------
TryCreateNew(id, v) ==
    /\ NoObject(id)
    /\ Cache!Pop(id, "tryCreate", v)
    /\ Call(id, "TryCreateNew", v)
    /\ UNCHANGED <<block, flushed>>

Overwrite(id, v) ==
    /\ NoObject(id)
    /\ Cache!Pop(id, "store", v)
    /\ Call(id, "Overwrite", v)
    /\ ClearFlushed(id)
    /\ UNCHANGED block

LoadObject(id) ==
    /\ NoObject(id)
    /\ Cache!Pop(id, "load", NoBlock)
    /\ Call(id, "Load", NoBlock)
    /\ UNCHANGED <<block, flushed>>

\* the object that the factory methods return, if they return one
EndFactory(id) ==
    /\ calling' = [calling EXCEPT ![id] = NoBlock]
    /\ \/ /\ Returns(id, "TryCreateNew")
          /\ SetBlock(id, IF answer[id] THEN [data |-> calling[id].data, changed |-> FALSE]
                                        ELSE NoBlock)
       \/ /\ Returns(id, "Overwrite")
          /\ SetBlock(id, [data |-> calling[id].data, changed |-> FALSE])
       \/ /\ Returns(id, "Load")
          /\ SetBlock(id, IF answer[id] = NoBlock THEN NoBlock
                          ELSE [data |-> answer[id], changed |-> FALSE])
    /\ UNCHANGED flushed

\* mutant: resize forgets _dataChanged
ForgetsDataChanged(id, v) ==
    /\ HasObject(id)
    /\ SetBlock(id, [block[id] EXCEPT !.data = v])
    /\ ClearFlushed(id)
    /\ UNCHANGED <<cacheVars, calling>>

\* write and resize
WriteOrResize(id, v) ==
    /\ HasObject(id)
    /\ SetBlock(id, [data |-> v, changed |-> TRUE])
    /\ ClearFlushed(id)
    /\ UNCHANGED <<cacheVars, calling>>

\* _storeToBaseBlock of changed data, called by flush and by the destructor
StoreToBaseBlock(id, method) ==
    /\ HasObject(id) /\ block[id].changed
    /\ Cache!Pop(id, "store", block[id].data)
    /\ Call(id, method, NoBlock)
    /\ UNCHANGED <<block, flushed>>

EndFlush(id) ==
    /\ Returns(id, "flush")
    /\ SetBlock(id, [data |-> block[id].data, changed |-> FALSE])
    /\ flushed' = [flushed EXCEPT ![id] = block[id].data]
    /\ calling' = [calling EXCEPT ![id] = NoBlock]

\* the destructor, after the store of changed data or without one
Destruct(id) ==
    /\ \/ Returns(id, "destruct")
       \/ HasObject(id) /\ ~block[id].changed /\ UNCHANGED cacheVars
    /\ SetBlock(id, NoBlock)
    /\ calling' = [calling EXCEPT ![id] = NoBlock]
    /\ UNCHANGED flushed

(***************************************************************************)
(* BlockStore::remove(block) destructs the object, which stores changed    *)
(* data, and removes the block by its id.                                  *)
(***************************************************************************)
Remove(id) ==
    /\ \/ calling[id] # NoBlock /\ calling[id].method = "destructToRemove"
       \/ HasObject(id) /\ ~block[id].changed
    /\ Cache!Pop(id, "remove", NoBlock)
    /\ Call(id, "remove", NoBlock)
    /\ SetBlock(id, NoBlock)
    /\ ClearFlushed(id)

EndRemove(id) ==
    /\ Returns(id, "remove")
    /\ calling' = [calling EXCEPT ![id] = NoBlock]
    /\ UNCHANGED <<block, flushed>>

CacheStep ==
    /\ \/ \E id \in BlockIds :
              \/ Cache!TryCreate(id) \/ Cache!Remove(id) \/ Cache!Load(id)
              \/ Cache!Store(id) \/ Cache!Push(id) \/ Cache!InsertNotInBaseStore(id)
       \/ \E w \in Cache!Workers :
              Cache!DeleteEntry(w) \/ Cache!WriteBack(w) \/ Cache!EraseNotInBaseStore(w)
    /\ UNCHANGED <<block, calling, flushed>>

Next ==
    \/ \E id \in BlockIds, v \in Values :
          TryCreateNew(id, v) \/ Overwrite(id, v) \/ WriteOrResize(id, v)
    \/ \E id \in BlockIds, m \in {"flush", "destruct", "destructToRemove"} :
          StoreToBaseBlock(id, m)
    \/ \E id \in BlockIds :
          \/ LoadObject(id) \/ EndFactory(id) \/ EndFlush(id)
          \/ Destruct(id) \/ Remove(id) \/ EndRemove(id)
    \/ CacheStep

Spec == Init /\ [][Next]_vars

----------------------------------------------------------------------------
(***************************************************************************)
(* An unchanged block object holds what a load would return now: neither   *)
(* evictions nor write-backs make the object or the cached copy stale.     *)
(***************************************************************************)
UnchangedObjectIsCurrent ==
    \A id \in BlockIds :
        HasObject(id) /\ ~block[id].changed => block[id].data = Cache!Content[id]

(***************************************************************************)
(* Removing a block through its object finds the block:                    *)
(* LowToHighLevelBlockStore::remove never throws "Couldn't delete block".  *)
(***************************************************************************)
RemoveFindsTheBlock ==
    \A id \in BlockIds :
        calling[id] # NoBlock /\ calling[id].method = "remove" /\ op[id] = NoBlock =>
            answer[id] = TRUE

(***************************************************************************)
(* What flush wrote is what a load returns until the block is written,     *)
(* overwritten or removed, however the cache evicts and writes back in the *)
(* meantime and whether or not the object still exists.  (It need not be   *)
(* in the base store: flush only reaches CachingBlockStore2.)              *)
(***************************************************************************)
FlushedDataIsKept ==
    \A id \in BlockIds :
        calling[id] = NoBlock /\ flushed[id] # NoBlock => Cache!Content[id] = flushed[id]

(***************************************************************************)
(* The three together: what users of block objects see, while they exist,  *)
(* when they are removed and after they are gone, is the last data.        *)
(***************************************************************************)
BlockObjectsAreCurrent ==
    TypeOK /\ UnchangedObjectIsCurrent /\ RemoveFindsTheBlock /\ FlushedDataIsKept
=============================================================================
