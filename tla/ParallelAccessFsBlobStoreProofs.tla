------------------- MODULE ParallelAccessFsBlobStoreProofs -------------------
(***************************************************************************)
(* Proofs about ParallelAccessFsBlobStore, for any number of threads and   *)
(* blobs: if the callers leave a blob alone that is being removed, there   *)
(* is one FsBlob object per blob, and a remover that holds the _mutex is   *)
(* the last user.  What ParallelAccessStore keeps is taken from its proofs.*)
(***************************************************************************)
EXTENDS ParallelAccessFsBlobStore, FiniteSetTheorems, TLAPS

Adding(k) == \E t \in Threads : blobPc[t].key = k /\ blobPc[t].step = "adding"

\* where the FsBlob of k may be: with its users, with its creator, with a remover, in the cache or on its way out of it
InUse(k) == Store!IsOpened(k) \/ Adding(k)
Handed(k) == blobsToRemove[k] = "ready"

\* The FsBlob is in at most one of these places, and then its tree has one reference.
BlobFacts(k) ==
    /\ trees[k] = IF InUse(k) \/ Handed(k) \/ k \in cached \/ k \in evicting THEN 1 ELSE 0
    /\ k \in cached => ~InUse(k) /\ ~Handed(k) /\ k \notin evicting
    /\ k \in evicting => ~InUse(k) /\ ~Handed(k)
    /\ Handed(k) => ~InUse(k)

\* The _mutex is held across steps only by a remover that has been handed the FsBlob.
MutexFacts == \A t \in Threads : mutex = t => blobPc[t].step = "removing"

\* A remover that has not yet released its own reference has registered its promise.
Registered == \A t \in Threads : blobPc[t].step = "releasing" => blobsToRemove[blobPc[t].key] # "none"

BlobTypes ==
    /\ mutex \in Threads \cup {NoThread}
    /\ cached \subseteq Keys /\ evicting \subseteq Keys
    /\ trees \in [Keys -> {0, 1}]

FsBlobInv ==
    /\ Store!PInv /\ BlobTypes /\ MutexFacts /\ Registered
    /\ \A k \in Keys : BlobFacts(k)

\* A reference count tells whether anybody uses the key: shown where the proofs of ParallelAccessStore come in.
Counted == \A k \in Keys : Store!IsOpened(k) <=> ~Store!Unused(k)

----------------------------------------------------------------------------
\* What a step of thread t on key k leaves alone.
StepOn(t, k) ==
    /\ \A j \in Keys \ {k} :
          /\ openBlobs'[j] = openBlobs[j] /\ blobsToRemove'[j] = blobsToRemove[j]
          /\ trees'[j] = trees[j] /\ (j \in cached' <=> j \in cached) /\ (j \in evicting' <=> j \in evicting)
    /\ \A u \in Threads \ {t} : blobPc'[u] = blobPc[u]
    /\ blobPc[t].key \in Keys => blobPc[t].key = k
    /\ blobPc'[t].key \in Keys => blobPc'[t].key = k

LEMMA OtherKeysKeep ==
    ASSUME FsBlobInv, NEW t \in Threads, NEW k \in Keys, StepOn(t, k), NEW j \in Keys, j # k
    PROVE  BlobFacts(j)'
<1>1. Adding(j)' <=> Adding(j)
  BY Zenon DEF StepOn, Adding
<1>2. InUse(j)' <=> InUse(j)
  BY <1>1, Zenon DEF StepOn, InUse, Store!IsOpened
<1>3. Handed(j)' <=> Handed(j)
  BY Zenon DEF StepOn, Handed
<1>4. BlobFacts(j)
  BY Zenon DEF FsBlobInv
<1>5. trees'[j] = trees[j] /\ (j \in cached' <=> j \in cached) /\ (j \in evicting' <=> j \in evicting)
  BY Zenon DEF StepOn
<1> QED
  BY <1>2, <1>3, <1>4, <1>5, Zenon DEF BlobFacts

\* The other threads' facts, and the types.
LEMMA StepKeeps ==
    ASSUME FsBlobInv, NEW t \in Threads, NEW k \in Keys, StepOn(t, k), Store!PInv', BlobFacts(k)',
           trees' = [trees EXCEPT ![k] = trees'[k]], cached' \subseteq cached \cup {k}, evicting' \subseteq evicting \cup {k},
           mutex' \in {mutex, t, NoThread}, mutex' = t => blobPc'[t].step = "removing", NoThread \notin Threads,
           blobPc'[t].step = "releasing" => blobsToRemove'[blobPc'[t].key] # "none",
           \A u \in Threads \ {t} : blobPc[u].step = "releasing" => blobsToRemove'[blobPc[u].key] # "none"
    PROVE  FsBlobInv'
<1>1. \A j \in Keys : BlobFacts(j)'
  BY OtherKeysKeep, Zenon
<1>2. \A u \in Threads \ {t} : blobPc'[u] = blobPc[u]
  BY Zenon DEF StepOn
<1>3. Registered'
  BY <1>2, Zenon DEF Registered
<1>4. MutexFacts'
  BY <1>2, Zenon DEF MutexFacts, FsBlobInv
<1>5. BlobTypes'
  <2>1. trees'[k] \in {0, 1}
    BY Zenon DEF BlobFacts
  <2> QED
    BY <2>1, Zenon DEF BlobTypes, FsBlobInv
<1> QED
  BY <1>1, <1>3, <1>4, <1>5, Zenon DEF FsBlobInv

----------------------------------------------------------------------------
\* What the counts, promises and steps of the threads say of a key.
LEMMA KeyFacts ==
    ASSUME FsBlobAssumption, Counted, FsBlobInv, NEW k \in Keys
    PROVE  /\ Store!IsOpened(k) <=> \E t \in Threads : k \in blobRefs[t]
           /\ Handed(k) => ~Store!IsOpened(k)
           /\ (\A t \in Threads : blobPc[t].key # k) => blobsToRemove[k] = "none" /\ ~Adding(k)
           /\ \A t \in Threads : blobPc[t].key = k /\ blobPc[t].step # "adding" => ~Adding(k)
           /\ openBlobs[k] \in Nat
<1>2. Store!TypeOK /\ Store!PromiseFacts /\ Store!OneBusyThread
  BY Zenon DEF FsBlobInv, Store!PInv
<1>4. Store!IsOpened(k) <=> \E t \in Threads : k \in blobRefs[t]
  BY Zenon DEF Counted, Store!Unused
<1>5. Handed(k) => ~Store!IsOpened(k)
  BY <1>2, <1>4, Zenon DEF Handed, Store!PromiseFacts, Store!Unused
<1>6. (\A t \in Threads : blobPc[t].key # k) => blobsToRemove[k] = "none" /\ ~Adding(k)
  BY <1>2, Zenon DEF Store!PromiseFacts, Adding
<1>7. \A t \in Threads : blobPc[t].key = k /\ blobPc[t].step # "adding" => ~Adding(k)
  BY <1>2, Zenon DEF Store!OneBusyThread, Adding
<1>8. openBlobs[k] \in Nat
  BY <1>2, Zenon DEF Store!TypeOK
<1> QED
  BY <1>4, <1>5, <1>6, <1>7, <1>8, Zenon

LEMMA ReadyHasNoKey ==
    ASSUME FsBlobAssumption
    PROVE  Store!IdlePc.key \notin Keys /\ Store!IdlePc.step = "idle"
BY Zenon DEF FsBlobAssumption, Store!IdlePc

LEMMA LoadKeeps ==
    ASSUME FsBlobAssumption, ~LateLoads, Counted, FsBlobInv, NEW t \in Threads, NEW k \in Keys, LoadBlob(t, k), Store!PInv'
    PROVE  FsBlobInv'
<1>2. /\ k \notin evicting /\ evicting' = evicting /\ cached' = cached \ {k} /\ mutex' = mutex
      /\ trees' = IF Store!IsOpened(k) \/ k \in cached THEN trees ELSE [trees EXCEPT ![k] = @ + 1]
  BY Zenon DEF LoadBlob, Locking
<1>3. /\ blobPc' = blobPc /\ blobPc[t] = Store!IdlePc /\ blobsToRemove' = blobsToRemove /\ \A u \in Threads : blobPc[u].key # k
      /\ openBlobs' = [openBlobs EXCEPT ![k] = @ + 1]
  BY Zenon DEF LoadBlob, Locking, Store!Load, Store!Ready, Store!Busy, Store!GetReference
<1>4. openBlobs'[k] = openBlobs[k] + 1 /\ \A j \in Keys \ {k} : openBlobs'[j] = openBlobs[j]
  BY <1>3, Zenon DEF FsBlobInv, Store!PInv, Store!TypeOK
<1>5. Store!IsOpened(k)' /\ blobsToRemove[k] = "none" /\ ~Adding(k)
  <2>1. openBlobs[k] \in Nat /\ blobsToRemove[k] = "none" /\ ~Adding(k)
    BY <1>3, KeyFacts, Zenon
  <2> QED
    BY <1>4, <2>1 DEF Store!IsOpened
<1>6. trees'[k] = 1 /\ trees' = [trees EXCEPT ![k] = trees'[k]]
  <2>1. BlobFacts(k) /\ trees \in [Keys -> {0, 1}]
    BY Zenon DEF FsBlobInv, BlobTypes
  <2>2. CASE Store!IsOpened(k) \/ k \in cached
    BY <1>2, <2>1, <2>2, Zenon DEF BlobFacts, InUse
  <2>3. CASE ~(Store!IsOpened(k) \/ k \in cached)
    <3>1. trees[k] = 0
      BY <1>2, <1>5, <2>1, <2>3, Zenon DEF BlobFacts, InUse, Handed
    <3> QED
      BY <1>2, <2>1, <2>3, <3>1
  <2> QED
    BY <2>2, <2>3, Zenon
<1>7. BlobFacts(k)'
  BY <1>2, <1>3, <1>5, <1>6, Zenon DEF BlobFacts, InUse, Handed
<1>8. StepOn(t, k)
  <2>1. \A j \in Keys \ {k} : trees'[j] = trees[j]
    BY <1>2, Zenon DEF FsBlobInv, BlobTypes
  <2> QED
    BY <1>2, <1>3, <1>4, <2>1, ReadyHasNoKey, Zenon DEF StepOn
<1>9. \A u \in Threads : blobPc[u].step = "releasing" => blobsToRemove'[blobPc[u].key] # "none"
  BY <1>3, Zenon DEF FsBlobInv, Registered
<1>10. mutex' \in {mutex, t, NoThread} /\ (mutex' = t => blobPc'[t].step = "removing") /\ NoThread \notin Threads
  BY <1>2, <1>3, Zenon DEF FsBlobInv, MutexFacts, FsBlobAssumption
<1> QED
  BY <1>2, <1>3, <1>6, <1>7, <1>8, <1>9, <1>10, StepKeeps, Zenon

\* The key in a thread's hand, and what an operation that is under way knows of it.
LEMMA BusyFacts ==
    ASSUME FsBlobAssumption, Counted, FsBlobInv, NEW t \in Threads, blobPc[t].step # "idle"
    PROVE  /\ blobPc[t].key \in Keys
           /\ blobPc[t].step = "adding" => ~Store!IsOpened(blobPc[t].key) /\ ~Handed(blobPc[t].key)
           /\ blobPc[t].step = "releasing" => blobPc[t].key \in blobRefs[t]
           /\ blobPc[t].step = "removing" => \A u \in Threads : blobPc[t].key \notin blobRefs[u]
           /\ \A u \in Threads \ {t} : blobPc[u].key # blobPc[t].key
<1>2. Store!TypeOK /\ Store!StepFacts /\ Store!OneBusyThread
  BY Zenon DEF FsBlobInv, Store!PInv
<1>3. blobPc[t].key \in Keys
  <2>1. blobPc[t] \in Store!Pc /\ blobPc[t] # Store!IdlePc
    BY <1>2, ReadyHasNoKey, Zenon DEF Store!TypeOK
  <2> QED
    BY <2>1, Zenon DEF Store!Pc
<1>4. \A u \in Threads \ {t} : blobPc[u].key # blobPc[t].key
  BY <1>2, <1>3, Zenon DEF Store!OneBusyThread
<1>5. blobPc[t].step = "adding" => ~Store!IsOpened(blobPc[t].key) /\ ~Handed(blobPc[t].key)
  BY <1>2, <1>3, KeyFacts, Zenon DEF Store!StepFacts, Store!Unused, Handed
<1>6. /\ blobPc[t].step = "releasing" => blobPc[t].key \in blobRefs[t]
      /\ blobPc[t].step = "removing" => \A u \in Threads : blobPc[t].key \notin blobRefs[u]
  BY <1>2, Zenon DEF Store!StepFacts, Store!Unused
<1> QED
  BY <1>3, <1>4, <1>5, <1>6, Zenon

LEMMA CreateBlobKeeps ==
    ASSUME FsBlobAssumption, Counted, FsBlobInv, NEW t \in Threads, NEW k \in Keys, CreateBlob(t, k), Store!PInv'
    PROVE  FsBlobInv'
<1>2. /\ k \notin evicting /\ k \notin cached /\ evicting' = evicting /\ cached' = cached /\ mutex' = mutex
      /\ trees' = [trees EXCEPT ![k] = @ + 1]
  BY Zenon DEF CreateBlob
<1>3. /\ blobPc[t] = Store!IdlePc /\ blobsToRemove' = blobsToRemove /\ openBlobs' = openBlobs
      /\ \A u \in Threads : blobPc[u].key # k
      /\ ~Store!IsOpened(k) /\ blobPc' = [blobPc EXCEPT ![t] = [step |-> "adding", key |-> k]]
  BY Zenon DEF CreateBlob, Store!TryCreate, Store!MayUse, Store!Ready, Store!Busy, Store!GoTo
<1>4. blobPc'[t].key = k /\ blobPc'[t].step = "adding" /\ \A u \in Threads \ {t} : blobPc'[u] = blobPc[u]
  BY <1>3, Zenon DEF FsBlobInv, Store!PInv, Store!TypeOK
<1>5. blobsToRemove[k] = "none" /\ ~Adding(k)
  BY <1>3, KeyFacts, Zenon
<1>6. trees[k] = 0 /\ trees \in [Keys -> {0, 1}]
  BY <1>2, <1>3, <1>5, Zenon DEF FsBlobInv, BlobTypes, BlobFacts, InUse, Handed
<1>7. trees'[k] = 1 /\ trees' = [trees EXCEPT ![k] = trees'[k]] /\ \A j \in Keys \ {k} : trees'[j] = trees[j]
  BY <1>2, <1>6
<1>8. BlobFacts(k)'
  <2>1. InUse(k)'
    BY <1>4, Zenon DEF InUse, Adding
  <2> QED
    BY <1>2, <1>3, <1>5, <1>7, <2>1, Zenon DEF BlobFacts, Handed
<1>9. StepOn(t, k)
  BY <1>2, <1>3, <1>4, <1>7, ReadyHasNoKey, Zenon DEF StepOn
<1>10. \A u \in Threads \ {t} : blobPc[u].step = "releasing" => blobsToRemove'[blobPc[u].key] # "none"
  BY <1>3, Zenon DEF FsBlobInv, Registered
<1>11. mutex # t /\ NoThread \notin Threads
  BY <1>3, ReadyHasNoKey, Zenon DEF FsBlobInv, MutexFacts, FsBlobAssumption
<1> QED
  BY <1>2, <1>4, <1>7, <1>8, <1>9, <1>10, <1>11, StepKeeps, Zenon

LEMMA AddKeeps ==
    ASSUME FsBlobAssumption, Counted, FsBlobInv, NEW t \in Threads, AddBlob(t), Store!PInv'
    PROVE  FsBlobInv'
<1>0. PICK k \in Keys : k = blobPc[t].key
  BY BusyFacts, Zenon DEF AddBlob, Locking, Store!Add
<1>2. evicting' = evicting /\ cached' = cached /\ mutex' = mutex /\ trees' = trees /\ mutex = NoThread
  BY Zenon DEF AddBlob, Locking
<1>3. /\ blobPc[t].step = "adding" /\ ~Store!IsOpened(k) /\ ~Handed(k)
      /\ \A u \in Threads \ {t} : blobPc[u].key # k
  BY <1>0, BusyFacts, Zenon DEF AddBlob, Locking, Store!Add
<1>4. /\ blobsToRemove' = blobsToRemove /\ blobPc' = [blobPc EXCEPT ![t] = Store!IdlePc]
      /\ openBlobs' = [openBlobs EXCEPT ![k] = @ + 1]
  BY <1>0, <1>3, Zenon DEF AddBlob, Locking, Store!Add, Store!Done, Store!GetReference
<1>5. /\ blobPc'[t] = Store!IdlePc /\ \A u \in Threads \ {t} : blobPc'[u] = blobPc[u]
      /\ openBlobs'[k] = openBlobs[k] + 1 /\ \A j \in Keys \ {k} : openBlobs'[j] = openBlobs[j]
  BY <1>4, Zenon DEF FsBlobInv, Store!PInv, Store!TypeOK
<1>6. Store!IsOpened(k)'
  <2>1. openBlobs[k] \in Nat
    BY KeyFacts, Zenon
  <2> QED
    BY <1>5, <2>1 DEF Store!IsOpened
<1>7. BlobFacts(k) /\ Adding(k) /\ trees \in [Keys -> {0, 1}]
  BY <1>0, <1>3, Zenon DEF FsBlobInv, Adding, BlobTypes
<1>8. BlobFacts(k)'
  BY <1>2, <1>3, <1>4, <1>6, <1>7, Zenon DEF BlobFacts, InUse, Handed
<1>9. StepOn(t, k)
  BY <1>0, <1>2, <1>4, <1>5, ReadyHasNoKey, Zenon DEF StepOn
<1>10. \A u \in Threads \ {t} : blobPc[u].step = "releasing" => blobsToRemove'[blobPc[u].key] # "none"
  BY <1>4, Zenon DEF FsBlobInv, Registered
<1>11. NoThread \notin Threads /\ trees' = [trees EXCEPT ![k] = trees'[k]]
  BY <1>2, <1>7, Zenon DEF FsBlobAssumption
<1> QED
  BY <1>2, <1>5, <1>8, <1>9, <1>10, <1>11, ReadyHasNoKey, StepKeeps, Zenon

----------------------------------------------------------------------------
\* release: the last reference hands the FsBlob to the remover, or to the cache.
LEMMA ReleaseFacts ==
    ASSUME FsBlobAssumption, Counted, FsBlobInv, NEW t \in Threads, NEW k \in Keys, k \in blobRefs[t], Store!Release(t, k)
    PROVE  /\ trees[k] = 1 /\ k \notin cached /\ k \notin evicting /\ ~Adding(k)
           /\ Store!IsOpened(k)' <=> openBlobs[k] # 1
           /\ Handed(k)' <=> openBlobs[k] = 1 /\ blobsToRemove[k] # "none"
           /\ blobsToRemove'[k] = "none" <=> blobsToRemove[k] = "none"
           /\ \A j \in Keys \ {k} : openBlobs'[j] = openBlobs[j] /\ blobsToRemove'[j] = blobsToRemove[j]
<1>1. Store!IsOpened(k) /\ BlobFacts(k) /\ openBlobs[k] \in Nat /\ ~Handed(k)
  BY KeyFacts, Zenon DEF FsBlobInv
<1>2. trees[k] = 1 /\ k \notin cached /\ k \notin evicting
  BY <1>1, Zenon DEF BlobFacts, InUse
<1>3. ~Adding(k)
  <2> SUFFICES ASSUME NEW u \in Threads, blobPc[u].key = k, blobPc[u].step = "adding" PROVE FALSE
    BY Zenon DEF Adding
  <2> QED
    BY <1>1, BusyFacts, Zenon
<1>4. openBlobs \in [Keys -> Nat] /\ blobsToRemove \in [Keys -> {"none", "waiting", "ready"}]
  BY Zenon DEF FsBlobInv, Store!PInv, Store!TypeOK
<1>5. /\ openBlobs' = [openBlobs EXCEPT ![k] = @ - 1]
      /\ blobsToRemove' = IF openBlobs[k] = 1 /\ blobsToRemove[k] # "none"
                              THEN [blobsToRemove EXCEPT ![k] = "ready"] ELSE blobsToRemove
  BY <1>1, Zenon DEF Store!Release
<1>6. openBlobs'[k] = openBlobs[k] - 1 /\ \A j \in Keys \ {k} : openBlobs'[j] = openBlobs[j]
  BY <1>4, <1>5, Zenon
<1>7. Store!IsOpened(k)' <=> openBlobs[k] # 1
  BY <1>1, <1>6 DEF Store!IsOpened
<1>8. /\ blobsToRemove'[k] = IF openBlobs[k] = 1 /\ blobsToRemove[k] # "none"
                                 THEN "ready" ELSE blobsToRemove[k]
      /\ \A j \in Keys \ {k} : blobsToRemove'[j] = blobsToRemove[j]
  BY <1>4, <1>5, Zenon
<1>9. Handed(k)' <=> openBlobs[k] = 1 /\ blobsToRemove[k] # "none"
  BY <1>1, <1>8, Zenon DEF Handed
<1> QED
  BY <1>2, <1>3, <1>6, <1>7, <1>8, <1>9, Zenon

LEMMA DropRefKeeps ==
    ASSUME FsBlobAssumption, Counted, FsBlobInv, NEW t \in Threads, NEW k \in Keys, DropBlobRef(t, k), Store!PInv'
    PROVE  FsBlobInv'
<1>2. /\ evicting' = evicting /\ trees' = trees /\ mutex' = mutex /\ mutex = NoThread
      /\ cached' = IF openBlobs[k] = 1 /\ blobsToRemove[k] = "none" THEN cached \cup {k} ELSE cached
  BY Zenon DEF DropBlobRef, Locking, ReleaseForCache
<1>3. blobPc' = blobPc /\ blobPc[t] = Store!IdlePc /\ k \in blobRefs[t] /\ Store!Release(t, k)
  BY Zenon DEF DropBlobRef, Locking, Store!DropRef, Store!Ready
<1>4. /\ trees[k] = 1 /\ k \notin cached /\ k \notin evicting /\ ~Adding(k)
      /\ Store!IsOpened(k)' <=> openBlobs[k] # 1
      /\ Handed(k)' <=> openBlobs[k] = 1 /\ blobsToRemove[k] # "none"
      /\ blobsToRemove'[k] = "none" <=> blobsToRemove[k] = "none"
      /\ \A j \in Keys \ {k} : openBlobs'[j] = openBlobs[j] /\ blobsToRemove'[j] = blobsToRemove[j]
  BY <1>3, ReleaseFacts, Zenon
<1>5. InUse(k)' <=> openBlobs[k] # 1
  BY <1>3, <1>4, Zenon DEF InUse, Adding
<1>6. BlobFacts(k)'
  BY <1>2, <1>4, <1>5, Zenon DEF BlobFacts
<1>7. StepOn(t, k)
  BY <1>2, <1>3, <1>4, ReadyHasNoKey, Zenon DEF StepOn
<1>8. \A u \in Threads : blobPc[u].step = "releasing" => blobsToRemove'[blobPc[u].key] # "none"
  BY <1>4, BusyFacts, ZenonT(30) DEF FsBlobInv, Registered
<1>9. NoThread \notin Threads /\ trees' = [trees EXCEPT ![k] = trees'[k]]
  BY <1>2, Zenon DEF FsBlobAssumption, FsBlobInv, BlobTypes
<1> QED
  BY <1>2, <1>3, <1>6, <1>7, <1>8, <1>9, StepKeeps, Zenon

LEMMA RemoveKeeps ==
    ASSUME FsBlobAssumption, Counted, FsBlobInv, NEW t \in Threads, NEW k \in Keys, RemoveBlob(t, k), Store!PInv'
    PROVE  FsBlobInv'
<1>2. evicting' = evicting /\ trees' = trees /\ mutex' = mutex /\ mutex = NoThread /\ cached' = cached
  BY Zenon DEF RemoveBlob, Locking
<1>3. /\ openBlobs' = openBlobs /\ blobPc[t] = Store!IdlePc /\ \A u \in Threads : blobPc[u].key # k
      /\ blobPc' = [blobPc EXCEPT ![t] = [step |-> "releasing", key |-> k]] /\ Store!ResourceToRemoveFuture(k)
  BY Zenon DEF RemoveBlob, Locking, Store!Remove, Store!Ready, Store!Busy, Store!GoTo
<1>4. blobsToRemove[k] = "none" /\ ~Adding(k)
  BY <1>3, KeyFacts, Zenon
<1>5. blobsToRemove' = [blobsToRemove EXCEPT ![k] = "waiting"]
  BY <1>3, <1>4, Zenon DEF Store!ResourceToRemoveFuture
<1>6. /\ blobsToRemove'[k] = "waiting" /\ \A j \in Keys \ {k} : blobsToRemove'[j] = blobsToRemove[j]
      /\ blobPc'[t].key = k /\ blobPc'[t].step = "releasing" /\ \A u \in Threads \ {t} : blobPc'[u] = blobPc[u]
  BY <1>3, <1>5, Zenon DEF FsBlobInv, Store!PInv, Store!TypeOK
<1>7. BlobFacts(k)'
  <2>1. ~Adding(k)'
    BY <1>3, <1>6, Zenon DEF Adding
  <2>2. BlobFacts(k)
    BY Zenon DEF FsBlobInv
  <2>3. ~Handed(k) /\ ~Handed(k)'
    BY <1>4, <1>6, Zenon DEF Handed
  <2>4. InUse(k)' <=> InUse(k)
    BY <1>3, <1>4, <2>1, Zenon DEF InUse, Store!IsOpened
  <2> QED
    BY <1>2, <2>2, <2>3, <2>4, Zenon DEF BlobFacts
<1>8. StepOn(t, k)
  BY <1>2, <1>3, <1>6, ReadyHasNoKey, Zenon DEF StepOn
<1>9. \A u \in Threads \ {t} : blobPc[u].step = "releasing" => blobsToRemove'[blobPc[u].key] # "none"
  <2> TAKE u \in Threads \ {t}
  <2> HAVE blobPc[u].step = "releasing"
  <2>1. blobsToRemove[blobPc[u].key] # "none"
    BY Zenon DEF FsBlobInv, Registered
  <2>2. blobPc[u].key \in Keys /\ blobPc[u].key # k
    BY <1>3, BusyFacts, Zenon
  <2> QED
    BY <1>6, <2>1, <2>2, Zenon
<1>10. NoThread \notin Threads /\ trees' = [trees EXCEPT ![k] = trees'[k]]
  BY <1>2, Zenon DEF FsBlobAssumption, FsBlobInv, BlobTypes
<1> QED
  BY <1>2, <1>6, <1>7, <1>8, <1>9, <1>10, StepKeeps, Zenon

LEMMA RemoveReleaseKeeps ==
    ASSUME FsBlobAssumption, Counted, FsBlobInv, NEW t \in Threads, RemoveBlobRelease(t), Store!PInv'
    PROVE  FsBlobInv'
<1>0. PICK k \in Keys : k = blobPc[t].key
  BY BusyFacts, Zenon DEF RemoveBlobRelease, Locking, Store!RemoveRelease
<1>2. evicting' = evicting /\ trees' = trees /\ mutex' = mutex /\ mutex = NoThread /\ cached' = cached
  BY Zenon DEF RemoveBlobRelease, Locking
<1>3. /\ blobPc[t].step = "releasing" /\ Store!Release(t, k)
      /\ blobPc' = [blobPc EXCEPT ![t] = [step |-> "waiting", key |-> k]]
  BY <1>0, Zenon DEF RemoveBlobRelease, Locking, Store!RemoveRelease, Store!GoTo
<1>4. k \in blobRefs[t] /\ blobsToRemove[k] # "none" /\ \A u \in Threads \ {t} : blobPc[u].key # k
  BY <1>0, <1>3, BusyFacts, Zenon DEF FsBlobInv, Registered
<1>5. /\ trees[k] = 1 /\ k \notin cached /\ k \notin evicting /\ ~Adding(k)
      /\ Store!IsOpened(k)' <=> openBlobs[k] # 1
      /\ Handed(k)' <=> openBlobs[k] = 1 /\ blobsToRemove[k] # "none"
      /\ \A j \in Keys \ {k} : openBlobs'[j] = openBlobs[j] /\ blobsToRemove'[j] = blobsToRemove[j]
  BY <1>3, <1>4, ReleaseFacts, Zenon
<1>6. blobPc'[t].key = k /\ blobPc'[t].step = "waiting" /\ \A u \in Threads \ {t} : blobPc'[u] = blobPc[u]
  BY <1>3, Zenon DEF FsBlobInv, Store!PInv, Store!TypeOK
<1>7. BlobFacts(k)'
  <2>1. InUse(k)' <=> openBlobs[k] # 1
    BY <1>4, <1>5, <1>6, ZenonT(30) DEF InUse, Adding
  <2> QED
    BY <1>2, <1>4, <1>5, <2>1, Zenon DEF BlobFacts
<1>8. StepOn(t, k)
  BY <1>0, <1>2, <1>5, <1>6, Zenon DEF StepOn
<1>9. \A u \in Threads \ {t} : blobPc[u].step = "releasing" => blobsToRemove'[blobPc[u].key] # "none"
  BY <1>4, <1>5, BusyFacts, Zenon DEF FsBlobInv, Registered
<1>10. NoThread \notin Threads /\ trees' = [trees EXCEPT ![k] = trees'[k]]
  BY <1>2, Zenon DEF FsBlobAssumption, FsBlobInv, BlobTypes
<1> QED
  BY <1>2, <1>6, <1>7, <1>8, <1>9, <1>10, StepKeeps, Zenon

----------------------------------------------------------------------------
\* remove with the promise fulfilled: the remover takes the _mutex and destroys the FsBlob.
LEMMA LockKeepsStore ==
    ASSUME FsBlobAssumption, Counted, FsBlobInv, NEW t \in Threads, RemoveLock(t), NEW k \in Keys, k = blobPc[t].key
    PROVE  /\ Store!PInv'
           /\ blobPc'[t].key = k /\ blobPc'[t].step = "removing" /\ \A u \in Threads \ {t} : blobPc'[u] = blobPc[u]
           /\ blobsToRemove'[k] = "none" /\ \A j \in Keys \ {k} : blobsToRemove'[j] = blobsToRemove[j]
<1>1. /\ Store!TypeOK /\ Store!RefCountsMatch /\ Store!NoFailure /\ Store!OneBusyThread
      /\ Store!StepFacts /\ Store!PromiseFacts /\ Store!InUseInBase
  BY Zenon DEF FsBlobInv, Store!PInv
<1>2. /\ blobPc[t].step = "waiting" /\ blobsToRemove[k] = "ready"
      /\ blobs' = blobs /\ openBlobs' = openBlobs /\ blobRefs' = blobRefs /\ blobFailure' = blobFailure
      /\ blobsToRemove' = [blobsToRemove EXCEPT ![k] = "none"]
      /\ blobPc' = [blobPc EXCEPT ![t] = [blobPc[t] EXCEPT !.step = "removing"]]
  BY Zenon DEF RemoveLock
<1>3. blobPc[t] \in [step: {"adding", "releasing", "waiting", "registering", "waitingForUser", "removing"}, key: Keys]
  BY <1>1, <1>2, ReadyHasNoKey, Zenon DEF Store!TypeOK, Store!Pc, Store!IdlePc, Store!IdlePc
<1>4. PICK c : c = [blobPc[t] EXCEPT !.step = "removing"]
  BY Zenon
<1>5. c \in Store!Pc /\ c.key = k /\ c.step = "removing"
  BY <1>3, <1>4 DEF Store!Pc
<1>6. blobPc' \in [Threads -> Store!Pc] /\ blobPc'[t] = c /\ \A u \in Threads \ {t} : blobPc'[u] = blobPc[u]
  BY <1>1, <1>2, <1>4, <1>5, Zenon DEF Store!TypeOK
<1>7. /\ blobsToRemove' \in [Keys -> {"none", "waiting", "ready"}]
      /\ blobsToRemove'[k] = "none" /\ \A j \in Keys \ {k} : blobsToRemove'[j] = blobsToRemove[j]
  BY <1>1, <1>2, Zenon DEF Store!TypeOK
<1>8. Store!TypeOK'
  BY <1>1, <1>2, <1>6, <1>7, Zenon DEF Store!TypeOK
<1>9. Store!RefCountsMatch' /\ Store!NoFailure' /\ Store!InUseInBase'
  BY <1>1, <1>2, Zenon DEF Store!RefCountsMatch, Store!NoFailure, Store!InUseInBase, Store!Users
<1>10. \A u \in Threads : blobPc'[u].key = blobPc[u].key
  BY <1>5, <1>6, Zenon
<1>11. Store!OneBusyThread'
  BY <1>1, <1>10, Zenon DEF Store!OneBusyThread
<1>12. \A j \in Keys : Store!Unused(j)' <=> Store!Unused(j)
  BY <1>2, Zenon DEF Store!Unused
<1>13. Store!StepFacts'
  <2> SUFFICES ASSUME NEW u \in Threads
               PROVE  (/\ blobPc[u].step = "adding" => Store!Unused(blobPc[u].key) /\ blobPc[u].key \in blobs
                       /\ blobPc[u].step = "releasing" => blobPc[u].key \in blobRefs[u]
                       /\ blobPc[u].step = "removing" => Store!Unused(blobPc[u].key)
                       /\ blobPc[u].step \in {"adding", "registering", "removing"} => blobsToRemove[blobPc[u].key] = "none")'
    BY Zenon DEF Store!StepFacts
  <2>1. Store!Unused(blobPc[u].key)' <=> Store!Unused(blobPc[u].key)
    BY <1>2, <1>10, Zenon DEF Store!Unused
  <2>2. CASE u = t
    <3>1. Store!Unused(blobPc[u].key)
      BY <1>1, <1>2, <2>2, Zenon DEF Store!PromiseFacts
    <3> QED
      BY <1>5, <1>6, <1>7, <2>1, <2>2, <3>1, Zenon
  <2>3. CASE u # t
    <3>1. blobPc'[u] = blobPc[u] /\ (blobPc[u].step # "idle" => blobPc[u].key \in Keys \ {k})
      BY <1>6, <2>3, BusyFacts, Zenon
    <3>2. blobPc[u].step # "idle" => blobsToRemove'[blobPc[u].key] = blobsToRemove[blobPc[u].key]
      BY <1>7, <3>1, Zenon
    <3>3. /\ blobPc[u].step = "adding" => Store!Unused(blobPc[u].key) /\ blobPc[u].key \in blobs
          /\ blobPc[u].step = "releasing" => blobPc[u].key \in blobRefs[u]
          /\ blobPc[u].step = "removing" => Store!Unused(blobPc[u].key)
          /\ blobPc[u].step \in {"adding", "registering", "removing"} => blobsToRemove[blobPc[u].key] = "none"
      BY <1>1, Zenon DEF Store!StepFacts
    <3>4. blobPc[u].step \in {"adding", "registering", "removing"} => blobsToRemove'[blobPc[u].key] = "none"
      BY <3>2, <3>3, Zenon
    <3>5. (blobPc[u].step = "adding" => Store!Unused(blobPc[u].key) /\ blobPc[u].key \in blobs)'
      <4>1. blobs' = blobs /\ (blobPc[u].step = "adding" => blobPc[u].key \in blobs)
        BY <1>2, <3>3, Zenon
      <4>2. (blobPc[u].step = "adding" => blobPc[u].key \in blobs)'
        BY <3>1, <4>1, Zenon
      <4>3. (blobPc[u].step = "adding" => Store!Unused(blobPc[u].key))'
        BY <2>1, <3>1, <3>3, Zenon
      <4> QED
        BY <4>2, <4>3, Zenon
    <3>6. (blobPc[u].step = "removing" => Store!Unused(blobPc[u].key))'
      BY <2>1, <3>1, <3>3, Zenon
    <3>7. (blobPc[u].step = "releasing" => blobPc[u].key \in blobRefs[u])'
      BY <1>2, <3>1, <3>3, Zenon
    <3>8. (blobPc[u].step \in {"adding", "registering", "removing"} => blobsToRemove[blobPc[u].key] = "none")'
      BY <3>1, <3>4, Zenon
    <3> QED
      BY <3>5, <3>6, <3>7, <3>8, Zenon
  <2> QED
    BY <2>2, <2>3, Zenon
<1>14. Store!PromiseFacts'
  <2> SUFFICES ASSUME NEW j \in Keys, blobsToRemove'[j] # "none"
               PROVE  /\ \E u \in Threads : blobPc'[u].key = j /\ blobPc'[u].step \in {"releasing", "waiting", "waitingForUser"}
                      /\ blobsToRemove'[j] = "ready" => Store!Unused(j)'
    BY Zenon DEF Store!PromiseFacts
  <2>1. j # k /\ blobsToRemove'[j] = blobsToRemove[j]
    BY <1>7, Zenon
  <2>2. PICK u \in Threads : blobPc[u].key = j /\ blobPc[u].step \in {"releasing", "waiting", "waitingForUser"}
    BY <1>1, <2>1, Zenon DEF Store!PromiseFacts
  <2>3. blobPc'[u] = blobPc[u]
    BY <1>6, <2>1, <2>2, Zenon
  <2>4. blobsToRemove'[j] = "ready" => Store!Unused(j)
    BY <1>1, <2>1, Zenon DEF Store!PromiseFacts
  <2> QED
    BY <1>12, <2>2, <2>3, <2>4, Zenon
<1> QED
  BY <1>5, <1>6, <1>7, <1>8, <1>9, <1>11, <1>13, <1>14, Zenon DEF Store!PInv

LEMMA RemoveLockKeeps ==
    ASSUME FsBlobAssumption, Counted, FsBlobInv, NEW t \in Threads, RemoveLock(t)
    PROVE  FsBlobInv'
<1>0. PICK k \in Keys : k = blobPc[t].key
  BY BusyFacts, Zenon DEF RemoveLock
<1>1. /\ Store!PInv'
      /\ blobPc'[t].key = k /\ blobPc'[t].step = "removing" /\ \A u \in Threads \ {t} : blobPc'[u] = blobPc[u]
      /\ blobsToRemove'[k] = "none" /\ \A j \in Keys \ {k} : blobsToRemove'[j] = blobsToRemove[j]
  BY <1>0, LockKeepsStore, Zenon
<1>2. /\ evicting' = evicting /\ mutex' = t /\ cached' = cached /\ openBlobs' = openBlobs
      /\ trees' = [trees EXCEPT ![k] = @ - 1] /\ blobsToRemove[k] = "ready" /\ blobPc[t].step = "waiting"
  BY <1>0, Zenon DEF RemoveLock
<1>3. /\ trees[k] = 1 /\ trees \in [Keys -> {0, 1}] /\ ~InUse(k) /\ k \notin cached /\ k \notin evicting
  BY <1>2, Zenon DEF FsBlobInv, BlobFacts, BlobTypes, Handed
<1>4. trees'[k] = 0 /\ trees' = [trees EXCEPT ![k] = trees'[k]] /\ \A j \in Keys \ {k} : trees'[j] = trees[j]
  BY <1>2, <1>3
<1>5. BlobFacts(k)'
  <2>1. ~InUse(k)'
    BY <1>1, <1>2, <1>3, Zenon DEF InUse, Adding, Store!IsOpened
  <2> QED
    BY <1>1, <1>2, <1>3, <1>4, <2>1, Zenon DEF BlobFacts, Handed
<1>6. StepOn(t, k)
  BY <1>0, <1>1, <1>2, <1>4, Zenon DEF StepOn
<1>7. \A u \in Threads \ {t} : blobPc[u].step = "releasing" => blobsToRemove'[blobPc[u].key] # "none"
  <2> TAKE u \in Threads \ {t}
  <2> HAVE blobPc[u].step = "releasing"
  <2>1. blobsToRemove[blobPc[u].key] # "none"
    BY Zenon DEF FsBlobInv, Registered
  <2>2. blobPc[u].key \in Keys /\ blobPc[u].key # k
    BY <1>0, BusyFacts, Zenon
  <2> QED
    BY <1>1, <2>1, <2>2, Zenon
<1>8. NoThread \notin Threads
  BY Zenon DEF FsBlobAssumption
<1> QED
  BY <1>1, <1>2, <1>4, <1>5, <1>6, <1>7, <1>8, StepKeeps, Zenon

LEMMA RemoveTreeKeeps ==
    ASSUME FsBlobAssumption, Counted, FsBlobInv, NEW t \in Threads, RemoveTree(t), Store!PInv'
    PROVE  FsBlobInv'
<1>1. mutex = t /\ blobPc[t].step = "removing" /\ blobFailure = "none"
  BY Zenon DEF RemoveTree, FsBlobInv, MutexFacts, Store!PInv, Store!NoFailure
<1>2. PICK k \in Keys : k = blobPc[t].key
  BY <1>1, BusyFacts, Zenon
<1>4. /\ evicting' = evicting /\ mutex' = NoThread /\ cached' = cached /\ trees' = trees
      /\ openBlobs' = openBlobs /\ blobsToRemove' = blobsToRemove
      /\ blobPc' = [blobPc EXCEPT ![t] = Store!IdlePc]
  BY Zenon DEF RemoveTree
<1>5. blobPc'[t] = Store!IdlePc /\ \A u \in Threads \ {t} : blobPc'[u] = blobPc[u]
  BY <1>4, Zenon DEF FsBlobInv, Store!PInv, Store!TypeOK
<1>6. Adding(k)' <=> Adding(k)
  BY <1>1, <1>5, ReadyHasNoKey, Zenon DEF Adding
<1>7. BlobFacts(k)'
  <2>1. BlobFacts(k)
    BY Zenon DEF FsBlobInv
  <2> QED
    BY <1>4, <1>6, <2>1, Zenon DEF BlobFacts, InUse, Handed, Store!IsOpened
<1>8. StepOn(t, k)
  BY <1>2, <1>4, <1>5, ReadyHasNoKey, Zenon DEF StepOn
<1>9. \A u \in Threads \ {t} : blobPc[u].step = "releasing" => blobsToRemove'[blobPc[u].key] # "none"
  BY <1>4, Zenon DEF FsBlobInv, Registered
<1>10. NoThread \notin Threads /\ trees' = [trees EXCEPT ![k] = trees'[k]]
  BY <1>4, Zenon DEF FsBlobAssumption, FsBlobInv, BlobTypes
<1> QED
  BY <1>4, <1>5, <1>7, <1>8, <1>9, <1>10, ReadyHasNoKey, StepKeeps, Zenon

----------------------------------------------------------------------------
LEMMA UnchangedStoreKeeps == ASSUME Store!PInv, UNCHANGED storeVars PROVE Store!PInv'
<1>1. /\ blobs' = blobs /\ openBlobs' = openBlobs /\ blobsToRemove' = blobsToRemove
      /\ blobRefs' = blobRefs /\ blobPc' = blobPc /\ blobFailure' = blobFailure
  BY Zenon DEF storeVars
<1>2. Store!TypeOK' /\ Store!NoFailure' /\ Store!OneBusyThread' /\ Store!InUseInBase'
  BY <1>1, Zenon DEF Store!PInv, Store!TypeOK, Store!NoFailure, Store!OneBusyThread, Store!InUseInBase
<1>3. Store!RefCountsMatch'
  BY <1>1, Zenon DEF Store!PInv, Store!RefCountsMatch, Store!Users
<1>4. Store!StepFacts'
  BY <1>1 DEF Store!PInv, Store!StepFacts, Store!Unused
<1>5. Store!PromiseFacts'
  BY <1>1 DEF Store!PInv, Store!PromiseFacts, Store!Unused
<1> QED
  BY <1>2, <1>3, <1>4, <1>5, Zenon DEF Store!PInv

\* The cache of CachingFsBlobStore drops an FsBlob by itself.
LEMMA CacheStepKeeps ==
    ASSUME FsBlobInv, UNCHANGED <<storeVars, mutex>>, NEW k \in Keys, BlobFacts(k)',
           cached' \subseteq Keys, evicting' \subseteq Keys, trees' \in [Keys -> {0, 1}],
           \A j \in Keys \ {k} : /\ trees'[j] = trees[j] /\ (j \in cached' <=> j \in cached)
                                 /\ (j \in evicting' <=> j \in evicting)
    PROVE  FsBlobInv'
<1>1. /\ blobs' = blobs /\ openBlobs' = openBlobs /\ blobsToRemove' = blobsToRemove
      /\ blobRefs' = blobRefs /\ blobPc' = blobPc /\ blobFailure' = blobFailure /\ mutex' = mutex
  BY Zenon DEF storeVars
<1>2. Store!PInv'
  BY UnchangedStoreKeeps, Zenon DEF FsBlobInv
<1>3. BlobTypes' /\ MutexFacts' /\ Registered'
  BY <1>1, Zenon DEF FsBlobInv, BlobTypes, MutexFacts, Registered
<1>4. ASSUME NEW j \in Keys PROVE BlobFacts(j)'
  <2>1. CASE j = k
    BY <2>1, Zenon
  <2>2. CASE j # k
    <3>1. BlobFacts(j)
      BY Zenon DEF FsBlobInv
    <3>2. (InUse(j)' <=> InUse(j)) /\ (Handed(j)' <=> Handed(j))
      BY <1>1, Zenon DEF InUse, Adding, Handed, Store!IsOpened
    <3> QED
      BY <2>2, <3>1, <3>2, Zenon DEF BlobFacts
  <2> QED
    BY <2>1, <2>2, Zenon
<1> QED
  BY <1>2, <1>3, <1>4, Zenon DEF FsBlobInv

LEMMA EvictKeeps ==
    ASSUME FsBlobInv, NEW k \in Keys, Evict(k) \/ EvictEnd(k)
    PROVE  FsBlobInv'
<1>0. UNCHANGED <<storeVars, mutex>>
  BY Zenon DEF Evict, EvictEnd
<1>1. BlobFacts(k) /\ cached \subseteq Keys /\ evicting \subseteq Keys /\ trees \in [Keys -> {0, 1}]
  BY Zenon DEF FsBlobInv, BlobTypes
<1>2. (InUse(k)' <=> InUse(k)) /\ (Handed(k)' <=> Handed(k))
  BY <1>0, Zenon DEF InUse, Adding, Handed, Store!IsOpened, storeVars
<1>3. CASE Evict(k)
  <2>1. k \in cached /\ cached' = cached \ {k} /\ evicting' = evicting \cup {k} /\ trees' = trees
    BY <1>3, Zenon DEF Evict
  <2>2. BlobFacts(k)'
    BY <1>1, <1>2, <2>1, Zenon DEF BlobFacts
  <2> QED
    BY <1>0, <1>1, <2>1, <2>2, CacheStepKeeps, Zenon
<1>4. CASE EvictEnd(k)
  <2>1. /\ k \in evicting /\ evicting' = evicting \ {k} /\ cached' = cached
        /\ trees' = [trees EXCEPT ![k] = @ - 1]
    BY <1>4, Zenon DEF EvictEnd
  <2>2. trees[k] = 1 /\ ~InUse(k) /\ ~Handed(k) /\ k \notin cached
    BY <1>1, <2>1, Zenon DEF BlobFacts
  <2>3. trees'[k] = 0 /\ trees' \in [Keys -> {0, 1}] /\ \A j \in Keys \ {k} : trees'[j] = trees[j]
    BY <1>1, <2>1, <2>2
  <2>4. BlobFacts(k)'
    BY <1>2, <2>1, <2>2, <2>3, Zenon DEF BlobFacts
  <2> QED
    BY <1>0, <1>1, <2>1, <2>3, <2>4, CacheStepKeeps, Zenon
<1> QED
  BY <1>3, <1>4, Zenon

LEMMA InitFsBlobInv == ASSUME FsBlobAssumption, Store!PInv, FsBlobInit PROVE FsBlobInv
<1>2. /\ \A t \in Threads : blobPc[t] = Store!IdlePc
      /\ \A k \in Keys : openBlobs[k] = 0 /\ blobsToRemove[k] = "none" /\ trees[k] = 0
      /\ mutex = NoThread /\ cached = {} /\ evicting = {} /\ trees = [k \in Keys |-> 0]
  BY Zenon DEF FsBlobInit, Store!Init
<1>3. \A k \in Keys : ~Store!IsOpened(k)
  BY <1>2 DEF Store!IsOpened
<1>4. \A k \in Keys : ~InUse(k) /\ ~Handed(k)
  BY <1>2, <1>3, ReadyHasNoKey, Zenon DEF InUse, Adding, Handed
<1>5. \A k \in Keys : BlobFacts(k)
  BY <1>2, <1>4, Zenon DEF BlobFacts
<1>6. BlobTypes /\ MutexFacts /\ Registered
  BY <1>2, ReadyHasNoKey, Zenon DEF BlobTypes, MutexFacts, Registered, FsBlobAssumption
<1> QED
  BY <1>5, <1>6, Zenon DEF FsBlobInv

LEMMA StutteringKeeps == ASSUME FsBlobInv, UNCHANGED fsBlobVars PROVE FsBlobInv'
<1>1. Store!PInv'
  BY UnchangedStoreKeeps, Zenon DEF FsBlobInv, fsBlobVars
<1>2. BlobTypes' /\ MutexFacts' /\ Registered'
  BY Zenon DEF FsBlobInv, BlobTypes, MutexFacts, Registered, fsBlobVars, storeVars
<1>3. \A k \in Keys : BlobFacts(k)'
  BY Zenon DEF FsBlobInv, BlobFacts, InUse, Adding, Handed, Store!IsOpened, fsBlobVars, storeVars
<1> QED
  BY <1>1, <1>2, <1>3, Zenon DEF FsBlobInv

----------------------------------------------------------------------------
Access == INSTANCE ParallelAccessStoreProofs WITH
    base <- blobs, openResources <- openBlobs, resourcesToRemove <- blobsToRemove,
    refs <- blobRefs, pc <- blobPc, failure <- blobFailure

\* The proofs about the parallel access store apply to these threads and keys.
LEMMA StoreAssumption == FsBlobAssumption => Access!ParallelAssumption
  BY Zenon DEF FsBlobAssumption, Access!ParallelAssumption, IsFiniteSet, Access!IsFiniteSet

\* Its invariant is the one they are about.
LEMMA SameInvariant == Store!PInv <=> Access!PInv
<1>1. Store!TypeOK <=> Access!TypeOK
  BY Zenon DEF Access!TypeOK, Access!Pc, Access!IdlePc, Access!Failures, Store!TypeOK, Store!Pc, Store!IdlePc, Store!Failures
<1>2. Store!RefCountsMatch <=> Access!RefCountsMatch
  BY Zenon DEF Store!RefCountsMatch, Access!RefCountsMatch, Store!Users, Access!Users, Cardinality, Access!Cardinality,
     Store!Cardinality
<1>3. Store!StepFacts <=> Access!StepFacts
  BY Zenon DEF Store!StepFacts, Access!StepFacts, Store!Unused, Access!Unused
<1>4. Store!PromiseFacts <=> Access!PromiseFacts
  BY Zenon DEF Store!PromiseFacts, Access!PromiseFacts, Store!Unused, Access!Unused
<1> QED
  BY <1>1, <1>2, <1>3, <1>4, ZenonT(30) DEF Store!PInv, Access!PInv, Store!NoFailure, Access!NoFailure,
     Store!OneBusyThread, Access!OneBusyThread, Store!InUseInBase, Access!InUseInBase

\* The steps of the parallel access store are those its proofs are about.
LEMMA StoreSteps ==
    ASSUME NEW t \in Threads, NEW k \in Keys
    PROVE  /\ Store!Load(t, k) => Access!Load(t, k)
           /\ Store!TryCreate(t, k) => Access!TryCreate(t, k)
           /\ Store!Add(t) => Access!Add(t)
           /\ Store!DropRef(t, k) => Access!DropRef(t, k)
           /\ Store!Remove(t, k) => Access!Remove(t, k)
           /\ Store!RemoveRelease(t) => Access!RemoveRelease(t)
           /\ Store!IsOpened(k) <=> Access!IsOpened(k)
<1> USE DEF Store!Ready, Access!Ready, Store!IdlePc, Access!IdlePc, Store!IsOpened, Access!IsOpened,
            Store!Busy, Access!Busy, Store!GoTo, Access!GoTo
<1>1. Store!Load(t, k) => Access!Load(t, k)
  BY Zenon DEF Store!Load, Access!Load, Store!Creators, Access!Creators, Store!GetReference, Access!GetReference
<1>2. Store!TryCreate(t, k) => Access!TryCreate(t, k)
  BY Zenon DEF Store!TryCreate, Access!TryCreate, Store!MayUse, Access!MayUse
<1>3. Store!Add(t) => Access!Add(t)
  BY Zenon DEF Store!Add, Access!Add, Store!Done, Access!Done, Store!GetReference, Access!GetReference
<1>4. Store!DropRef(t, k) => Access!DropRef(t, k)
  BY Zenon DEF Store!DropRef, Access!DropRef, Store!Release, Access!Release
<1>5. Store!Remove(t, k) => Access!Remove(t, k)
  BY Zenon DEF Store!Remove, Access!Remove, Store!MayRemove, Access!MayRemove,
     Store!ResourceToRemoveFuture, Access!ResourceToRemoveFuture
<1>6. Store!RemoveRelease(t) => Access!RemoveRelease(t)
  BY Zenon DEF Store!RemoveRelease, Access!RemoveRelease, Store!Release, Access!Release
<1> QED
  BY <1>1, <1>2, <1>3, <1>4, <1>5, <1>6, ZenonT(30)

\* The steps of the parallel access store keep its invariant here, too.
LEMMA StoreKeeps ==
    ASSUME FsBlobAssumption, ~LateLoads, Store!PInv, NEW t \in Threads, NEW k \in Keys
    PROVE  /\ LoadBlob(t, k) => Store!PInv'
           /\ CreateBlob(t, k) => Store!PInv'
           /\ AddBlob(t) => Store!PInv'
           /\ DropBlobRef(t, k) => Store!PInv'
           /\ RemoveBlob(t, k) => Store!PInv'
           /\ RemoveBlobRelease(t) => Store!PInv'
<1>1. Access!PInv /\ Access!ParallelAssumption
  BY StoreAssumption, SameInvariant, Zenon
<1>2. Access!PInv' => Store!PInv'
  BY SameInvariant, PTL
<1>3. LoadBlob(t, k) => Store!PInv'
  BY <1>1, <1>2, StoreSteps, Access!LoadKeeps, Zenon DEF LoadBlob, Locking
<1>4. CreateBlob(t, k) => Store!PInv'
  BY <1>1, <1>2, StoreSteps, Access!TryCreateKeeps, Zenon DEF CreateBlob
<1>5. AddBlob(t) => Store!PInv'
  BY <1>1, <1>2, StoreSteps, Access!AddKeeps, Zenon DEF AddBlob, Locking
<1>6. DropBlobRef(t, k) => Store!PInv'
  BY <1>1, <1>2, StoreSteps, Access!DropRefKeeps, Zenon DEF DropBlobRef, Locking
<1>7. RemoveBlob(t, k) => Store!PInv'
  BY <1>1, <1>2, StoreSteps, Access!RemoveKeeps, Zenon DEF RemoveBlob, Locking
<1>8. RemoveBlobRelease(t) => Store!PInv'
  BY <1>1, <1>2, StoreSteps, Access!RemoveReleaseKeeps, Zenon DEF RemoveBlobRelease, Locking
<1> QED
  BY <1>3, <1>4, <1>5, <1>6, <1>7, <1>8, ZenonT(30)

LEMMA RemoveTreeKeepsStore ==
    ASSUME FsBlobAssumption, FsBlobInv, NEW t \in Threads, RemoveTree(t)
    PROVE  Store!PInv'
<1>1. blobPc[t].step = "removing" /\ blobFailure = "none"
  BY Zenon DEF RemoveTree, FsBlobInv, MutexFacts, Store!PInv, Store!NoFailure
<1>2. Access!RemoveKeyFromBaseStore(t)
  BY <1>1, Zenon DEF RemoveTree, Access!RemoveKeyFromBaseStore, Access!Done, Access!IdlePc, Store!IdlePc
<1>3. Access!PInv /\ Access!ParallelAssumption
  BY StoreAssumption, SameInvariant, Zenon DEF FsBlobInv
<1>4. Access!PInv'
  BY <1>2, <1>3, Access!RemoveKeyFromBaseStoreKeeps, Zenon
<1> QED
  BY <1>4, SameInvariant, PTL

LEMMA CountsTellUse == ASSUME FsBlobAssumption, FsBlobInv PROVE Counted
<1>1. Access!PInv /\ Access!ParallelAssumption
  BY StoreAssumption, SameInvariant, Zenon DEF FsBlobInv
<1>2. \A k \in Keys : Access!IsOpened(k) <=> ~Access!Unused(k)
  BY <1>1, Access!CountTellsUse, Zenon DEF Access!PInv
<1> QED
  BY <1>2, Zenon DEF Counted, Store!IsOpened, Access!IsOpened, Store!Unused, Access!Unused

LEMMA InvariantHolds == ASSUME FsBlobAssumption, ~LateLoads PROVE FsBlobSpec => []FsBlobInv
<1>1. FsBlobInit => FsBlobInv
  <2> SUFFICES ASSUME FsBlobInit PROVE FsBlobInv
    BY Zenon
  <2>1. Access!Init
    BY Zenon DEF FsBlobInit, Store!Init, Access!Init, Store!IdlePc, Access!IdlePc
  <2>2. Store!PInv
    BY <2>1, StoreAssumption, SameInvariant, Access!InitPInv, ZenonT(30)
  <2> QED
    BY <2>2, InitFsBlobInv, Zenon
<1>2. FsBlobInv /\ [FsBlobNext]_fsBlobVars => FsBlobInv'
  <2> SUFFICES ASSUME FsBlobInv, [FsBlobNext]_fsBlobVars PROVE FsBlobInv'
    BY Zenon
  <2>0. Counted /\ Store!PInv
    BY CountsTellUse, Zenon DEF FsBlobInv
  <2>1. ASSUME NEW t \in Threads, ContinueBlob(t) PROVE FsBlobInv'
    <3>1. CASE AddBlob(t)
      <4>1. blobPc[t].key \in Keys
        BY <2>0, <3>1, BusyFacts, Zenon DEF AddBlob, Locking, Store!Add
      <4> QED
        BY <2>0, <3>1, <4>1, StoreKeeps, AddKeeps, ZenonT(30)
    <3>2. CASE RemoveBlobRelease(t)
      <4>1. blobPc[t].key \in Keys
        BY <2>0, <3>2, BusyFacts, Zenon DEF RemoveBlobRelease, Locking, Store!RemoveRelease
      <4> QED
        BY <2>0, <3>2, <4>1, StoreKeeps, RemoveReleaseKeeps, ZenonT(30)
    <3>3. CASE RemoveLock(t)
      BY <2>0, <3>3, RemoveLockKeeps, Zenon
    <3>4. CASE RemoveTree(t)
      BY <2>0, <3>4, RemoveTreeKeepsStore, RemoveTreeKeeps, ZenonT(30)
    <3> QED
      BY <2>1, <3>1, <3>2, <3>3, <3>4, ZenonT(30) DEF ContinueBlob
  <2>2. ASSUME NEW t \in Threads, NEW k \in Keys,
               LoadBlob(t, k) \/ CreateBlob(t, k) \/ DropBlobRef(t, k) \/ RemoveBlob(t, k)
        PROVE  FsBlobInv'
    <3>1. Store!PInv'
      BY <2>0, <2>2, StoreKeeps, Zenon
    <3> QED
      BY <2>0, <2>2, <3>1, LoadKeeps, CreateBlobKeeps, DropRefKeeps, RemoveKeeps, ZenonT(30)
  <2>3. CASE UNCHANGED fsBlobVars
    BY <2>3, StutteringKeeps, Zenon
  <2> QED
    BY <2>1, <2>2, <2>3, EvictKeeps, Zenon DEF FsBlobNext
<1> QED
  BY <1>1, <1>2, PTL DEF FsBlobSpec

(***************************************************************************)
(* ParallelAccessFsBlobStore and CachingFsBlobStore together keep one      *)
(* FsBlob object per blob, with any number of threads: in use, handed to   *)
(* the remover, in the cache or being evicted from it, never twice.  The   *)
(* callers leave a blob alone that is being removed (~LateLoads).          *)
(***************************************************************************)
THEOREM OneFsBlobStays ==
    ASSUME FsBlobAssumption, ~LateLoads
    PROVE  FsBlobSpec => []OneFsBlobPerKey
<1>1. FsBlobInv => OneFsBlobPerKey
  <2> SUFFICES ASSUME FsBlobInv PROVE OneFsBlobPerKey
    BY Zenon
  <2>1. Store!TypeOK
    BY Zenon DEF FsBlobInv, Store!PInv
  <2>2. {0, 1} \subseteq 0 .. Cardinality(Threads) + 1
    <3>1. Cardinality(Threads) \in Nat
      BY FS_CardinalityType, Zenon DEF FsBlobAssumption
    <3> QED
      BY <3>1
  <2>3. FsBlobTypeOK
    BY <2>1, <2>2, Zenon DEF FsBlobTypeOK, FsBlobInv, BlobTypes
  <2>4. OneFsBlobPerKey
    <3> SUFFICES ASSUME NEW k \in Keys
                 PROVE  /\ trees[k] <= 1
                        /\ trees[k] = 0 => /\ ~Store!IsOpened(k) /\ blobsToRemove[k] # "ready"
                                           /\ k \notin cached /\ k \notin evicting
      BY <2>3, Zenon DEF OneFsBlobPerKey
    <3>1. trees[k] \in {0, 1} /\ BlobFacts(k)
      BY Zenon DEF FsBlobInv, BlobTypes
    <3>2. trees[k] <= 1
      BY <3>1
    <3>3. trees[k] = 0 => /\ ~Store!IsOpened(k) /\ blobsToRemove[k] # "ready"
                          /\ k \notin cached /\ k \notin evicting
      BY <3>1 DEF BlobFacts, InUse, Handed
    <3> QED
      BY <3>2, <3>3, Zenon
  <2> QED
    BY <2>4, Zenon
<1> QED
  BY <1>1, InvariantHolds, PTL

(***************************************************************************)
(* A remover that goes on to the base store with the _mutex held is the    *)
(* last user of the blob: everybody else has released their reference, for *)
(* which they needed the _mutex.                                           *)
(***************************************************************************)
THEOREM RemoverStaysLastUser ==
    ASSUME FsBlobAssumption, ~LateLoads
    PROVE  FsBlobSpec => []RemoverIsLastUser
<1>1. FsBlobInv => RemoverIsLastUser
  <2> SUFFICES ASSUME FsBlobInv, NEW t \in Threads, blobPc[t].step = "removing"
               PROVE  Store!Users(blobPc[t].key) = {}
    BY Zenon DEF RemoverIsLastUser
  <2> QED
    BY CountsTellUse, BusyFacts, Zenon DEF Store!Users
<1> QED
  BY <1>1, InvariantHolds, PTL

=============================================================================
