--------------------- MODULE ParallelAccessFsBlobStore ---------------------
(***************************************************************************)
(* The stores above the blocks, composed: ParallelAccessFsBlobStore shares *)
(* one FsBlob per id among the threads of the file system, its base store  *)
(* CachingFsBlobStore keeps released FsBlobs for a while, and each FsBlob  *)
(* holds a reference to its data tree in ParallelAccessDataTreeStore.      *)
(*                                                                         *)
(* Both parallel access stores are ParallelAccessStores.  A remove of the  *)
(* upper one holds its _mutex while the lower one waits for the last       *)
(* reference to the tree, which is why the composition needs a look of its *)
(* own.  The lower one is represented by its reference counts.             *)
(***************************************************************************)
EXTENDS Sharing

CONSTANT NoThread

FsBlobAssumption ==
    /\ IsFiniteSet(Threads) /\ NoThread \notin Threads
    /\ Keys \subseteq Nat /\ NoKey \notin Keys /\ LateLoads \in BOOLEAN

VARIABLES
    blobs, openBlobs, blobsToRemove, blobRefs, blobPc, blobFailure, \* the upper ParallelAccessStore
    mutex,     \* the thread that waits for a tree with the _mutex held
    cached,    \* the keys of the FsBlobs in the cache of CachingFsBlobStore
    evicting,  \* the keys of the FsBlobs whose destructor the cache is running
    trees      \* trees[k]: the references to the data tree of k

storeVars == <<blobs, openBlobs, blobsToRemove, blobRefs, blobPc, blobFailure>>

fsBlobVars == <<storeVars, mutex, cached, evicting, trees>>

Store == INSTANCE ParallelAccessStore WITH
    base <- blobs, openResources <- openBlobs, resourcesToRemove <- blobsToRemove,
    refs <- blobRefs, pc <- blobPc, failure <- blobFailure

FsBlobTypeOK ==
    /\ Store!TypeOK
    /\ mutex \in Threads \cup {NoThread}
    /\ cached \subseteq Keys /\ evicting \subseteq Keys
    /\ trees \in [Keys -> 0 .. Cardinality(Threads) + 1]

FsBlobInit ==
    /\ Store!Init
    /\ mutex = NoThread /\ cached = {} /\ evicting = {}
    /\ trees = [k \in Keys |-> 0]

Locking(action) == mutex = NoThread /\ action /\ UNCHANGED mutex

----------------------------------------------------------------------------
\* mutant: load does not look into the cache
LoadsPastCache(t, k) ==
    /\ Locking(Store!Load(t, k))
    /\ trees' = IF Store!IsOpened(k) THEN trees ELSE [trees EXCEPT ![k] = @ + 1]
    /\ UNCHANGED <<cached, evicting>>

\* an FsBlob is taken out of the cache or loaded together with its tree
LoadBlob(t, k) ==
    /\ Locking(Store!Load(t, k)) /\ k \notin evicting
    /\ cached' = cached \ {k}
    /\ trees' = IF Store!IsOpened(k) \/ k \in cached THEN trees
                ELSE [trees EXCEPT ![k] = @ + 1]
    /\ UNCHANGED evicting

\* createFileBlob, createDirBlob, createSymlinkBlob: the base store, then add
CreateBlob(t, k) ==
    /\ Store!TryCreate(t, k) /\ k \notin cached \cup evicting
    /\ trees' = [trees EXCEPT ![k] = @ + 1]
    /\ UNCHANGED <<mutex, cached, evicting>>

AddBlob(t) == Locking(Store!Add(t)) /\ UNCHANGED <<cached, evicting, trees>>

\* releaseForCache, in the destructor of the FsBlobRef that release destroys
ReleaseForCache(k) ==
    cached' = IF openBlobs[k] = 1 /\ blobsToRemove[k] = "none"
              THEN cached \cup {k} ELSE cached

DropBlobRef(t, k) ==
    /\ Locking(Store!DropRef(t, k))
    /\ ReleaseForCache(k)
    /\ UNCHANGED <<evicting, trees>>

\* the cache drops an FsBlob: it runs out of space, or the FsBlob is old
Evict(k) ==
    /\ k \in cached
    /\ cached' = cached \ {k} /\ evicting' = evicting \cup {k}
    /\ UNCHANGED <<storeVars, mutex, trees>>

EvictEnd(k) ==
    /\ k \in evicting
    /\ evicting' = evicting \ {k}
    /\ trees' = [trees EXCEPT ![k] = @ - 1]
    /\ UNCHANGED <<storeVars, mutex, cached>>

----------------------------------------------------------------------------
(***************************************************************************)
(* remove.  With the _mutex held the promise is erased and the tree is     *)
(* removed, for which ParallelAccessDataTreeStore waits until the last     *)
(* reference to it is gone.                                                *)
(***************************************************************************)
RemoveBlob(t, k) == Locking(Store!Remove(t, k)) /\ UNCHANGED <<cached, evicting, trees>>

RemoveBlobRelease(t) ==
    /\ Locking(Store!RemoveRelease(t))
    /\ UNCHANGED <<cached, evicting, trees>>

\* mutant: the remover does not wait for the other users
LocksEarly(t) ==
    LET k == blobPc[t].key IN
    /\ blobFailure = "none" /\ blobPc[t].step = "waiting"
    /\ mutex = NoThread /\ mutex' = t
    /\ blobsToRemove' = [blobsToRemove EXCEPT ![k] = "none"]
    /\ blobPc' = [blobPc EXCEPT ![t].step = "removing"]
    /\ UNCHANGED <<blobs, openBlobs, blobRefs, blobFailure, cached, evicting, trees>>

\* mutant: the remover keeps its own reference to the tree
KeepsTree(t) ==
    LET k == blobPc[t].key IN
    /\ blobFailure = "none" /\ blobPc[t].step = "waiting" /\ blobsToRemove[k] = "ready"
    /\ mutex = NoThread /\ mutex' = t
    /\ blobsToRemove' = [blobsToRemove EXCEPT ![k] = "none"]
    /\ blobPc' = [blobPc EXCEPT ![t].step = "removing"]
    /\ UNCHANGED <<blobs, openBlobs, blobRefs, blobFailure, cached, evicting, trees>>

RemoveLock(t) ==
    LET k == blobPc[t].key IN
    /\ blobFailure = "none" /\ blobPc[t].step = "waiting" /\ blobsToRemove[k] = "ready"
    /\ mutex = NoThread /\ mutex' = t
    /\ blobsToRemove' = [blobsToRemove EXCEPT ![k] = "none"]
    /\ trees' = [trees EXCEPT ![k] = @ - 1]
    /\ blobPc' = [blobPc EXCEPT ![t].step = "removing"]
    /\ UNCHANGED <<blobs, openBlobs, blobRefs, blobFailure, cached, evicting>>

RemoveTree(t) ==
    LET k == blobPc[t].key IN
    /\ mutex = t /\ trees[k] = 0
    /\ blobs' = blobs \ {k}
    /\ blobPc' = [blobPc EXCEPT ![t] = Store!IdlePc]
    /\ mutex' = NoThread
    /\ UNCHANGED <<openBlobs, blobsToRemove, blobRefs, blobFailure, cached, evicting, trees>>

----------------------------------------------------------------------------
ContinueBlob(t) == AddBlob(t) \/ RemoveBlobRelease(t) \/ RemoveLock(t) \/ RemoveTree(t)

FsBlobNext ==
    \/ \E t \in Threads : ContinueBlob(t)
    \/ \E t \in Threads, k \in Keys :
          LoadBlob(t, k) \/ CreateBlob(t, k) \/ DropBlobRef(t, k) \/ RemoveBlob(t, k)
    \/ \E k \in Keys : Evict(k) \/ EvictEnd(k)

FsBlobSpec == FsBlobInit /\ [][FsBlobNext]_fsBlobVars

\* threads get the mutex eventually and drop their references; the cache evicts
FsBlobFairness ==
    /\ \A t \in Threads :
          SF_fsBlobVars(ContinueBlob(t)) /\ \A k \in Keys : SF_fsBlobVars(DropBlobRef(t, k))
    /\ \A k \in Keys : WF_fsBlobVars(EvictEnd(k))

FsBlobFairSpec == FsBlobSpec /\ FsBlobFairness

----------------------------------------------------------------------------
(***************************************************************************)
(* There is one FsBlob object per blob, in use, handed to a remover, in    *)
(* the cache or being evicted; two DirBlobs of a directory would overwrite *)
(* each other's entries.                                                   *)
(***************************************************************************)
OneFsBlobPerKey ==
    FsBlobTypeOK /\ \A k \in Keys :
        LET places == {Store!IsOpened(k), blobsToRemove[k] = "ready",
                       k \in cached, k \in evicting}
        IN  /\ trees[k] <= 1
            /\ trees[k] = 0 => TRUE \notin places

(***************************************************************************)
(* remove waits for the last user: when it goes on to the base store, with *)
(* the _mutex held, nobody holds a reference that needs the _mutex to go.  *)
(***************************************************************************)
RemoverIsLastUser ==
    \A t \in Threads : blobPc[t].step = "removing" => Store!Users(blobPc[t].key) = {}

(***************************************************************************)
(* Removing a blob returns, although it waits in both stores.              *)
(***************************************************************************)
BlobRemovesTerminate ==
    \A t \in Threads : blobPc[t].step = "releasing" ~> blobPc[t].step = "idle"
=============================================================================
