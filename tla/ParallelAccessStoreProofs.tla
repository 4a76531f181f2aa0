---------------------- MODULE ParallelAccessStoreProofs ----------------------
(***************************************************************************)
(* ParallelAccessStore for any number of threads and keys: as long as the  *)
(* callers leave a key alone that is being removed, there is one counted   *)
(* Resource per key, and it stays in the base store while it is used.      *)
(***************************************************************************)
EXTENDS ParallelAccessStore, FiniteSetTheorems, TLAPS

\* The number in an OpenResource tells whether anybody uses the key, and whether one thread is the last.
LEMMA CountTellsUse ==
    ASSUME TypeOK, RefCountsMatch, NEW k \in Keys
    PROVE  /\ IsFiniteSet(Users(k))
           /\ IsOpened(k) <=> ~Unused(k)
           /\ \A t \in Users(k) : openResources[k] = 1 => Users(k) = {t}
           /\ \A t \in Users(k) : openResources[k] - 1 = Cardinality(Users(k) \ {t})
           /\ \A t \in Threads \ Users(k) : openResources[k] + 1 = Cardinality(Users(k) \cup {t})
<1>1. IsFiniteSet(Users(k))
  BY FS_Subset, ParallelAssumption, Zenon DEF Users
<1>2. openResources[k] = Cardinality(Users(k)) /\ openResources[k] \in Nat
  BY Zenon DEF RefCountsMatch, TypeOK
<1>3. openResources[k] = 0 <=> Users(k) = {}
  BY <1>1, <1>2, FS_EmptySet, Zenon
<1>4. Unused(k) <=> Users(k) = {}
  BY Zenon DEF Unused, Users
<1>5. \A t \in Users(k) : openResources[k] - 1 = Cardinality(Users(k) \ {t})
  BY <1>1, <1>2, FS_RemoveElement, Zenon
<1>6. \A t \in Threads \ Users(k) : openResources[k] + 1 = Cardinality(Users(k) \cup {t})
  BY <1>1, <1>2, FS_AddElement, Zenon
<1>7. ASSUME NEW t \in Users(k), openResources[k] = 1 PROVE Users(k) = {t}
  <2>1. IsFiniteSet(Users(k) \ {t})
    BY <1>1, FS_RemoveElement, Zenon
  <2>2. Cardinality(Users(k) \ {t}) = 0
    BY <1>5, <1>7
  <2>3. Users(k) \ {t} = {}
    BY <2>1, <2>2, FS_EmptySet, Zenon
  <2> QED
    BY <2>3, Zenon
<1>8. IsOpened(k) <=> ~Unused(k)
  BY <1>2, <1>3, <1>4 DEF IsOpened
<1> QED
  BY <1>1, <1>5, <1>6, <1>7, <1>8, Zenon

\* getReference() under the lock keeps the count, and adds no more than the reference.
LEMMA GetCounts ==
    ASSUME TypeOK, RefCountsMatch, NEW t \in Threads, NEW k \in Keys, k \notin refs[t], GetReference(t, k)
    PROVE  /\ RefCountsMatch'
           /\ openResources' \in [Keys -> Nat] /\ refs' \in [Threads -> SUBSET Keys]
           /\ refs'[t] = refs[t] \cup {k} /\ \A u \in Threads \ {t} : refs'[u] = refs[u]
<1>1. openResources' \in [Keys -> Nat] /\ refs' \in [Threads -> SUBSET Keys]
  BY DEF TypeOK, GetReference
<1>2. refs'[t] = refs[t] \cup {k} /\ \A u \in Threads \ {t} : refs'[u] = refs[u]
  BY Zenon DEF TypeOK, GetReference
<1>3. ASSUME NEW j \in Keys PROVE openResources'[j] = Cardinality(Users(j)')
  <2>1. CASE j = k
    <3>1. Users(k)' = Users(k) \cup {t} /\ t \in Threads \ Users(k)
      BY <1>2, Zenon DEF Users
    <3>2. openResources'[k] = openResources[k] + 1
      BY Zenon DEF TypeOK, GetReference
    <3> QED
      BY <2>1, <3>1, <3>2, CountTellsUse
  <2>2. CASE j # k
    <3>1. Users(j)' = Users(j)
      BY <1>2, <2>2, Zenon DEF Users
    <3>2. openResources'[j] = openResources[j]
      BY <2>2, Zenon DEF TypeOK, GetReference
    <3> QED
      BY <3>1, <3>2, Zenon DEF RefCountsMatch
  <2> QED
    BY <2>1, <2>2, Zenon
<1> QED
  BY <1>1, <1>2, <1>3, Zenon DEF RefCountsMatch

\* release() keeps the count, finds the key, fulfils no promise twice, and fulfils one only when the
\* last reference is gone.
LEMMA ReleaseCounts ==
    ASSUME PInv, NEW t \in Threads, NEW k \in Keys, k \in refs[t], Release(t, k)
    PROVE  /\ RefCountsMatch' /\ failure' = "none"
           /\ openResources' \in [Keys -> Nat] /\ refs' \in [Threads -> SUBSET Keys]
           /\ resourcesToRemove' \in [Keys -> {"none", "waiting", "ready"}]
           /\ refs'[t] = refs[t] \ {k} /\ \A u \in Threads \ {t} : refs'[u] = refs[u]
           /\ \A j \in Keys : resourcesToRemove'[j] = "none" <=> resourcesToRemove[j] = "none"
           /\ \A j \in Keys : resourcesToRemove'[j] = "ready" => Unused(j)'
<1> USE DEF PInv
<1>0. ~Unused(k) /\ t \in Users(k)
  BY Zenon DEF Unused, Users
<1>1. IsOpened(k) /\ resourcesToRemove[k] # "ready" /\ failure = "none"
  BY <1>0, CountTellsUse, Zenon DEF PromiseFacts, NoFailure
<1>2. /\ openResources' = [openResources EXCEPT ![k] = @ - 1]
      /\ refs' = [refs EXCEPT ![t] = @ \ {k}]
  BY <1>1, Zenon DEF Release
<1>3. openResources' \in [Keys -> Nat] /\ refs' \in [Threads -> SUBSET Keys]
  BY <1>1, <1>2 DEF TypeOK, IsOpened
<1>4. refs'[t] = refs[t] \ {k} /\ \A u \in Threads \ {t} : refs'[u] = refs[u]
  BY <1>2, Zenon DEF TypeOK
<1>5. RefCountsMatch'
  <2> SUFFICES ASSUME NEW j \in Keys PROVE openResources'[j] = Cardinality(Users(j)')
    BY Zenon DEF RefCountsMatch
  <2>1. CASE j = k
    <3>1. Users(k)' = Users(k) \ {t}
      BY <1>4, Zenon DEF Users
    <3>2. openResources'[k] = openResources[k] - 1
      BY <1>2, Zenon DEF TypeOK
    <3> QED
      BY <1>0, <2>1, <3>1, <3>2, CountTellsUse
  <2>2. CASE j # k
    <3>1. Users(j)' = Users(j)
      BY <1>4, <2>2, Zenon DEF Users
    <3>2. openResources'[j] = openResources[j]
      BY <1>2, <2>2, Zenon DEF TypeOK
    <3> QED
      BY <3>1, <3>2, Zenon DEF RefCountsMatch
  <2> QED
    BY <2>1, <2>2, Zenon
<1>6. /\ failure' = "none"
      /\ resourcesToRemove' \in [Keys -> {"none", "waiting", "ready"}]
      /\ \A j \in Keys : resourcesToRemove'[j] = "none" <=> resourcesToRemove[j] = "none"
  BY <1>1, Zenon DEF Release, TypeOK
<1>7. ASSUME NEW j \in Keys, resourcesToRemove'[j] = "ready" PROVE Unused(j)'
  <2>1. CASE resourcesToRemove[j] = "ready"
    BY <1>4, <2>1, Zenon DEF PromiseFacts, Unused
  <2>2. CASE resourcesToRemove[j] # "ready"
    <3>1. j = k /\ openResources[k] = 1
      BY <1>1, <1>7, <2>2, Zenon DEF Release, TypeOK
    <3>2. Users(k) = {t}
      BY <1>0, <3>1, CountTellsUse, Zenon
    <3> QED
      BY <1>4, <3>1, <3>2, Zenon DEF Unused, Users
  <2> QED
    BY <2>1, <2>2, Zenon
<1> QED
  BY <1>3, <1>4, <1>5, <1>6, <1>7, Zenon

\* Where a thread is after it went on, or is done.
LEMMA GoToPc ==
    ASSUME TypeOK, NEW t \in Threads, NEW k \in Keys,
           NEW s \in {"adding", "releasing", "waiting", "registering", "waitingForUser", "removing"}, GoTo(t, s, k)
    PROVE  /\ pc' \in [Threads -> Pc] /\ pc'[t].key = k /\ pc'[t].step = s
           /\ \A u \in Threads \ {t} : pc'[u] = pc[u]
  BY Zenon DEF TypeOK, GoTo, Pc

LEMMA DonePc ==
    ASSUME TypeOK, NEW t \in Threads, Done(t)
    PROVE  /\ pc' \in [Threads -> Pc] /\ pc'[t] = IdlePc
           /\ \A u \in Threads \ {t} : pc'[u] = pc[u]
  BY Zenon DEF TypeOK, Done, Pc

\* A thread has a key in hand exactly while it is in the middle of an operation.
LEMMA IdleHasNoKey ==
    /\ IdlePc.step = "idle" /\ IdlePc.key \notin Keys
    /\ TypeOK => \A t \in Threads : pc[t].step # "idle" => pc[t].key \in Keys
<1>1. IdlePc.step = "idle" /\ IdlePc.key \notin Keys
  BY ParallelAssumption, Zenon DEF IdlePc
<1>2. ASSUME TypeOK, NEW t \in Threads, pc[t].step # "idle" PROVE pc[t].key \in Keys
  <2>1. pc[t] \in Pc /\ pc[t] # IdlePc
    BY <1>1, <1>2, Zenon DEF TypeOK
  <2> QED
    BY <2>1, Zenon DEF Pc
<1> QED
  BY <1>1, <1>2, Zenon

\* load() keeps the invariant, when the key is not just being removed.
LEMMA LoadKeeps ==
    ASSUME PInv, ~LateLoads, NEW t \in Threads, NEW k \in Keys, Load(t, k) PROVE PInv'
<1> USE DEF PInv
<1>1. k \notin refs[t] /\ \A u \in Threads : pc[u].key # k
  BY Zenon DEF Load, Ready, Busy
<1>2. /\ RefCountsMatch'
      /\ openResources' \in [Keys -> Nat] /\ refs' \in [Threads -> SUBSET Keys]
      /\ refs'[t] = refs[t] \cup {k} /\ \A u \in Threads \ {t} : refs'[u] = refs[u]
  BY <1>1, GetCounts, Zenon DEF Load
<1>3. k \in base
  BY CountTellsUse, Zenon DEF Load, InUseInBase, Unused
<1>a. TypeOK'
  BY <1>1, <1>2, <1>3, IdleHasNoKey, Zenon DEF Load, TypeOK
<1>b. RefCountsMatch'
  BY <1>1, <1>2, <1>3, IdleHasNoKey, Zenon DEF Load, RefCountsMatch
<1>c. NoFailure'
  BY <1>1, <1>2, <1>3, IdleHasNoKey, Zenon DEF Load, NoFailure
<1>d. OneBusyThread'
  BY <1>1, <1>2, <1>3, IdleHasNoKey, Zenon DEF Load, OneBusyThread
<1>e. StepFacts'
  BY <1>1, <1>2, <1>3, IdleHasNoKey DEF Load, StepFacts, Unused
<1>f. PromiseFacts'
  BY <1>1, <1>2, <1>3, IdleHasNoKey DEF Load, PromiseFacts, Unused
<1>g. InUseInBase'
  BY <1>1, <1>2, <1>3, IdleHasNoKey, Zenon DEF Load, InUseInBase
<1> QED
  BY <1>a, <1>b, <1>c, <1>d, <1>e, <1>f, <1>g, Zenon

\* So does loadOrAdd().
LEMMA LoadOrAddKeeps ==
    ASSUME PInv, NEW t \in Threads, NEW k \in Keys, LoadOrAdd(t, k) PROVE PInv'
<1> USE DEF PInv
<1>1. k \notin refs[t] /\ \A u \in Threads : pc[u].key # k
  BY Zenon DEF LoadOrAdd, MayUse, Ready, Busy
<1>2. /\ RefCountsMatch'
      /\ openResources' \in [Keys -> Nat] /\ refs' \in [Threads -> SUBSET Keys]
      /\ refs'[t] = refs[t] \cup {k} /\ \A u \in Threads \ {t} : refs'[u] = refs[u]
  BY <1>1, GetCounts, Zenon DEF LoadOrAdd
<1>3. base \subseteq base' /\ base' \subseteq Keys /\ k \in base'
  BY CountTellsUse, Zenon DEF LoadOrAdd, InUseInBase, Unused, TypeOK
<1>a. TypeOK'
  BY <1>1, <1>2, <1>3, IdleHasNoKey, Zenon DEF LoadOrAdd, TypeOK
<1>b. RefCountsMatch'
  BY <1>1, <1>2, <1>3, IdleHasNoKey, Zenon DEF LoadOrAdd, RefCountsMatch
<1>c. NoFailure'
  BY <1>1, <1>2, <1>3, IdleHasNoKey, Zenon DEF LoadOrAdd, NoFailure
<1>d. OneBusyThread'
  BY <1>1, <1>2, <1>3, IdleHasNoKey, Zenon DEF LoadOrAdd, OneBusyThread
<1>e. StepFacts'
  BY <1>1, <1>2, <1>3, IdleHasNoKey DEF LoadOrAdd, StepFacts, Unused
<1>f. PromiseFacts'
  BY <1>1, <1>2, <1>3, IdleHasNoKey DEF LoadOrAdd, PromiseFacts, Unused
<1>g. InUseInBase'
  BY <1>1, <1>2, <1>3, IdleHasNoKey DEF LoadOrAdd, InUseInBase
<1> QED
  BY <1>a, <1>b, <1>c, <1>d, <1>e, <1>f, <1>g, Zenon

\* The first half of tryCreate(), which creates the resource in the base store, keeps it.
LEMMA TryCreateKeeps ==
    ASSUME PInv, NEW t \in Threads, NEW k \in Keys, TryCreate(t, k) PROVE PInv'
<1> USE DEF PInv
<1>1. /\ k \notin refs[t] /\ pc[t] = IdlePc
      /\ \A u \in Threads : pc[u].key # k
  BY Zenon DEF TryCreate, MayUse, Ready, Busy
<1>2. /\ pc' \in [Threads -> Pc] /\ pc'[t].key = k /\ pc'[t].step = "adding"
      /\ \A u \in Threads \ {t} : pc'[u] = pc[u]
  BY GoToPc, Zenon DEF TryCreate
<1>3. Unused(k) /\ resourcesToRemove[k] = "none"
  BY <1>1, CountTellsUse, Zenon DEF TryCreate, PromiseFacts
<1>a. TypeOK'
  BY <1>1, <1>2, <1>3, IdleHasNoKey, Zenon DEF TryCreate, TypeOK
<1>b. RefCountsMatch'
  BY Zenon DEF TryCreate, RefCountsMatch, Users
<1>c. NoFailure'
  BY <1>1, <1>2, <1>3, IdleHasNoKey, Zenon DEF TryCreate, NoFailure
<1>d. OneBusyThread'
  BY <1>1, <1>2, <1>3, IdleHasNoKey DEF TryCreate, OneBusyThread
<1>e. StepFacts'
  BY <1>1, <1>2, <1>3, IdleHasNoKey DEF TryCreate, StepFacts, Unused
<1>f. PromiseFacts'
  BY <1>1, <1>2, <1>3, IdleHasNoKey DEF TryCreate, PromiseFacts, Unused
<1>g. InUseInBase'
  BY <1>1, <1>2, <1>3, IdleHasNoKey, Zenon DEF TryCreate, InUseInBase
<1> QED
  BY <1>a, <1>b, <1>c, <1>d, <1>e, <1>f, <1>g, Zenon

\* So does the second half, add(): nobody has loaded the key in between.
LEMMA AddKeeps ==
    ASSUME PInv, NEW t \in Threads, Add(t) PROVE PInv'
<1> USE DEF PInv
<1>0. /\ pc[t].key \in Keys /\ pc[t].step = "adding" /\ Unused(pc[t].key)
      /\ pc[t].key \in base /\ resourcesToRemove[pc[t].key] = "none"
      /\ \A u \in Threads \ {t} : pc[u].key # pc[t].key
  BY IdleHasNoKey, Zenon DEF Add, StepFacts, OneBusyThread
<1>1. GetReference(t, pc[t].key) /\ failure' = failure
  BY <1>0, CountTellsUse, Zenon DEF Add
<1>2. /\ pc' \in [Threads -> Pc] /\ pc'[t] = IdlePc
      /\ \A u \in Threads \ {t} : pc'[u] = pc[u]
  BY DonePc, Zenon DEF Add
<1>3. /\ RefCountsMatch'
      /\ openResources' \in [Keys -> Nat] /\ refs' \in [Threads -> SUBSET Keys]
      /\ refs'[t] = refs[t] \cup {pc[t].key} /\ \A u \in Threads \ {t} : refs'[u] = refs[u]
  BY <1>0, <1>1, GetCounts, Zenon DEF Unused
<1>a. TypeOK'
  BY <1>0, <1>1, <1>2, <1>3, IdleHasNoKey, Zenon DEF Add, TypeOK
<1>b. RefCountsMatch'
  BY <1>0, <1>1, <1>2, <1>3, IdleHasNoKey, Zenon DEF Add, RefCountsMatch
<1>c. NoFailure'
  BY <1>0, <1>1, <1>2, <1>3, IdleHasNoKey, Zenon DEF Add, NoFailure
<1>d. OneBusyThread'
  BY <1>0, <1>1, <1>2, <1>3, IdleHasNoKey DEF Add, OneBusyThread
<1>e. StepFacts'
  BY <1>0, <1>1, <1>2, <1>3, IdleHasNoKey DEF Add, StepFacts, Unused
<1>f. PromiseFacts'
  BY <1>0, <1>1, <1>2, <1>3, IdleHasNoKey DEF Add, PromiseFacts, Unused
<1>g. InUseInBase'
  BY <1>0, <1>3, Zenon DEF Add, InUseInBase
<1> QED
  BY <1>a, <1>b, <1>c, <1>d, <1>e, <1>f, <1>g, Zenon

\* A release keeps it.
LEMMA DropRefKeeps ==
    ASSUME PInv, NEW t \in Threads, NEW k \in Keys, DropRef(t, k) PROVE PInv'
<1> USE DEF PInv
<1>1. k \in refs[t] /\ pc[t] = IdlePc
  BY Zenon DEF DropRef, Ready
<1>2. /\ RefCountsMatch' /\ failure' = "none"
      /\ openResources' \in [Keys -> Nat] /\ refs' \in [Threads -> SUBSET Keys]
      /\ resourcesToRemove' \in [Keys -> {"none", "waiting", "ready"}]
      /\ refs'[t] = refs[t] \ {k} /\ \A u \in Threads \ {t} : refs'[u] = refs[u]
      /\ \A j \in Keys : resourcesToRemove'[j] = "none" <=> resourcesToRemove[j] = "none"
      /\ \A j \in Keys : resourcesToRemove'[j] = "ready" => Unused(j)'
  BY <1>1, ReleaseCounts, Zenon DEF DropRef
<1>a. TypeOK'
  BY <1>2, Zenon DEF DropRef, TypeOK, Failures
<1>b. RefCountsMatch'
  BY <1>1, <1>2, IdleHasNoKey, Zenon DEF DropRef, RefCountsMatch
<1>c. NoFailure'
  BY <1>1, <1>2, IdleHasNoKey, Zenon DEF DropRef, NoFailure
<1>d. OneBusyThread'
  BY <1>1, <1>2, IdleHasNoKey, Zenon DEF DropRef, OneBusyThread
<1>e. StepFacts'
  BY <1>1, <1>2, IdleHasNoKey, Zenon DEF DropRef, StepFacts, Unused
<1>f. PromiseFacts'
  BY <1>1, <1>2, IdleHasNoKey, Zenon DEF DropRef, PromiseFacts, Unused
<1>g. InUseInBase'
  BY <1>1, <1>2, IdleHasNoKey, Zenon DEF DropRef, InUseInBase
<1> QED
  BY <1>a, <1>b, <1>c, <1>d, <1>e, <1>f, <1>g, Zenon

\* remove(key, ref) registers its promise.
LEMMA RemoveKeeps ==
    ASSUME PInv, NEW t \in Threads, NEW k \in Keys, Remove(t, k) PROVE PInv'
<1> USE DEF PInv
<1>1. /\ k \in refs[t] /\ pc[t] = IdlePc
      /\ \A u \in Threads : pc[u].key # k
  BY Zenon DEF Remove, Ready, Busy
<1>2. /\ pc' \in [Threads -> Pc] /\ pc'[t].key = k /\ pc'[t].step = "releasing"
      /\ \A u \in Threads \ {t} : pc'[u] = pc[u]
  BY GoToPc, Zenon DEF Remove
<1>3. /\ failure' = failure /\ resourcesToRemove' \in [Keys -> {"none", "waiting", "ready"}]
      /\ resourcesToRemove'[k] = "waiting"
      /\ \A j \in Keys \ {k} : resourcesToRemove'[j] = resourcesToRemove[j]
  BY <1>1, Zenon DEF Remove, ResourceToRemoveFuture, PromiseFacts, TypeOK
<1>a. TypeOK'
  BY <1>1, <1>2, <1>3, IdleHasNoKey, Zenon DEF Remove, TypeOK
<1>b. RefCountsMatch'
  BY Zenon DEF Remove, RefCountsMatch, Users
<1>c. NoFailure'
  BY <1>1, <1>2, <1>3, IdleHasNoKey, Zenon DEF Remove, NoFailure
<1>d. OneBusyThread'
  BY <1>1, <1>2, <1>3, IdleHasNoKey DEF Remove, OneBusyThread
<1>e. StepFacts'
  BY <1>1, <1>2, <1>3, IdleHasNoKey DEF Remove, StepFacts, Unused
<1>f. PromiseFacts'
  BY <1>1, <1>2, <1>3, IdleHasNoKey DEF Remove, PromiseFacts, Unused
<1>g. InUseInBase'
  BY <1>1, <1>2, <1>3, IdleHasNoKey, Zenon DEF Remove, InUseInBase
<1> QED
  BY <1>a, <1>b, <1>c, <1>d, <1>e, <1>f, <1>g, Zenon

\* It releases its own reference.
LEMMA RemoveReleaseKeeps ==
    ASSUME PInv, NEW t \in Threads, RemoveRelease(t) PROVE PInv'
<1> USE DEF PInv
<1>1. pc[t].key \in Keys /\ pc[t].step = "releasing" /\ pc[t].key \in refs[t]
  BY IdleHasNoKey, Zenon DEF RemoveRelease, StepFacts
<1>2. /\ RefCountsMatch' /\ failure' = "none"
      /\ openResources' \in [Keys -> Nat] /\ refs' \in [Threads -> SUBSET Keys]
      /\ resourcesToRemove' \in [Keys -> {"none", "waiting", "ready"}]
      /\ refs'[t] = refs[t] \ {pc[t].key} /\ \A u \in Threads \ {t} : refs'[u] = refs[u]
      /\ \A j \in Keys : resourcesToRemove'[j] = "none" <=> resourcesToRemove[j] = "none"
      /\ \A j \in Keys : resourcesToRemove'[j] = "ready" => Unused(j)'
  BY <1>1, ReleaseCounts, Zenon DEF RemoveRelease
<1>3. /\ pc' \in [Threads -> Pc] /\ pc'[t].key = pc[t].key /\ pc'[t].step = "waiting"
      /\ \A u \in Threads \ {t} : pc'[u] = pc[u]
  BY <1>1, GoToPc, Zenon DEF RemoveRelease
<1>a. TypeOK'
  BY <1>1, <1>2, <1>3, IdleHasNoKey, Zenon DEF RemoveRelease, TypeOK
<1>b. RefCountsMatch'
  BY <1>1, <1>2, <1>3, IdleHasNoKey, Zenon DEF RemoveRelease, RefCountsMatch
<1>c. NoFailure'
  BY <1>1, <1>2, <1>3, IdleHasNoKey, Zenon DEF RemoveRelease, NoFailure
<1>d. OneBusyThread'
  BY <1>1, <1>2, <1>3, IdleHasNoKey DEF RemoveRelease, OneBusyThread
<1>e. StepFacts'
  BY <1>1, <1>2, <1>3, IdleHasNoKey DEF RemoveRelease, StepFacts, Unused
<1>f. PromiseFacts'
  BY <1>1, <1>2, <1>3, IdleHasNoKey DEF RemoveRelease, PromiseFacts, Unused
<1>g. InUseInBase'
  BY <1>1, <1>2, <1>3, IdleHasNoKey, Zenon DEF RemoveRelease, InUseInBase
<1> QED
  BY <1>a, <1>b, <1>c, <1>d, <1>e, <1>f, <1>g, Zenon

\* Once its promise is fulfilled it takes the resource out of the base store.
LEMMA RemoveFromBaseStoreKeeps ==
    ASSUME PInv, NEW t \in Threads, RemoveFromBaseStore(t) PROVE PInv'
<1> USE DEF PInv
<1>1. /\ pc[t].key \in Keys /\ pc[t].step \in {"waiting", "waitingForUser"}
      /\ Unused(pc[t].key)
  BY IdleHasNoKey, Zenon DEF RemoveFromBaseStore, PromiseFacts
<1>2. /\ pc' \in [Threads -> Pc] /\ pc'[t] = IdlePc
      /\ \A u \in Threads \ {t} : pc'[u] = pc[u]
  BY DonePc, Zenon DEF RemoveFromBaseStore
<1>3. /\ resourcesToRemove' \in [Keys -> {"none", "waiting", "ready"}]
      /\ resourcesToRemove'[pc[t].key] = "none"
      /\ \A j \in Keys \ {pc[t].key} : resourcesToRemove'[j] = resourcesToRemove[j]
  BY <1>1, Zenon DEF RemoveFromBaseStore, TypeOK
<1>a. TypeOK'
  BY <1>1, <1>2, <1>3, IdleHasNoKey, Zenon DEF RemoveFromBaseStore, TypeOK
<1>b. RefCountsMatch'
  BY Zenon DEF RemoveFromBaseStore, RefCountsMatch, Users
<1>c. NoFailure'
  BY <1>1, <1>2, <1>3, IdleHasNoKey, Zenon DEF RemoveFromBaseStore, NoFailure
<1>d. OneBusyThread'
  BY <1>1, <1>2, <1>3, IdleHasNoKey DEF RemoveFromBaseStore, OneBusyThread
<1>e. StepFacts'
  BY <1>1, <1>2, <1>3, IdleHasNoKey DEF RemoveFromBaseStore, StepFacts, Unused
<1>f. PromiseFacts'
  BY <1>1, <1>2, <1>3, IdleHasNoKey DEF RemoveFromBaseStore, PromiseFacts, Unused
<1>g. InUseInBase'
  BY <1>1, Zenon DEF RemoveFromBaseStore, InUseInBase, Unused
<1> QED
  BY <1>a, <1>b, <1>c, <1>d, <1>e, <1>f, <1>g, Zenon

\* remove(key) looks whether the key is open.
LEMMA RemoveKeyKeeps ==
    ASSUME PInv, NEW t \in Threads, NEW k \in Keys, RemoveKey(t, k) PROVE PInv'
<1> USE DEF PInv
<1>1. /\ k \notin refs[t] /\ pc[t] = IdlePc
      /\ \A u \in Threads : pc[u].key # k
  BY Zenon DEF RemoveKey, MayUse, Ready, Busy
<1>2. /\ pc' \in [Threads -> Pc] /\ pc'[t].key = k /\ pc'[t].step \in {"registering", "removing"}
      /\ pc'[t].step = "removing" => Unused(k)
      /\ \A u \in Threads \ {t} : pc'[u] = pc[u]
  <2>1. CASE IsOpened(k)
    BY <2>1, GoToPc, Zenon DEF RemoveKey
  <2>2. CASE ~IsOpened(k)
    BY <2>2, GoToPc, CountTellsUse, Zenon DEF RemoveKey
  <2> QED
    BY <2>1, <2>2, Zenon
<1>3. resourcesToRemove[k] = "none"
  BY <1>1, Zenon DEF PromiseFacts
<1>a. TypeOK'
  BY <1>1, <1>2, <1>3, IdleHasNoKey, Zenon DEF RemoveKey, TypeOK
<1>b. RefCountsMatch'
  BY Zenon DEF RemoveKey, RefCountsMatch, Users
<1>c. NoFailure'
  BY <1>1, <1>2, <1>3, IdleHasNoKey, Zenon DEF RemoveKey, NoFailure
<1>d. OneBusyThread'
  BY <1>1, <1>2, <1>3, IdleHasNoKey DEF RemoveKey, OneBusyThread
<1>e. StepFacts'
  BY <1>1, <1>2, <1>3, IdleHasNoKey DEF RemoveKey, StepFacts, Unused
<1>f. PromiseFacts'
  BY <1>1, <1>2, <1>3, IdleHasNoKey DEF RemoveKey, PromiseFacts, Unused
<1>g. InUseInBase'
  BY <1>1, <1>2, <1>3, IdleHasNoKey, Zenon DEF RemoveKey, InUseInBase
<1> QED
  BY <1>a, <1>b, <1>c, <1>d, <1>e, <1>f, <1>g, Zenon

\* It registers its promise when the key was open.
LEMMA RemoveKeyRegisterKeeps ==
    ASSUME PInv, NEW t \in Threads, RemoveKeyRegister(t) PROVE PInv'
<1> USE DEF PInv
<1>1. /\ pc[t].key \in Keys /\ pc[t].step = "registering"
      /\ \A u \in Threads \ {t} : pc[u].key # pc[t].key
  BY IdleHasNoKey, Zenon DEF RemoveKeyRegister, OneBusyThread
<1>2. /\ pc' \in [Threads -> Pc] /\ pc'[t].key = pc[t].key /\ pc'[t].step = "waitingForUser"
      /\ \A u \in Threads \ {t} : pc'[u] = pc[u]
  BY <1>1, GoToPc, Zenon DEF RemoveKeyRegister
<1>3. /\ failure' = failure /\ resourcesToRemove' \in [Keys -> {"none", "waiting", "ready"}]
      /\ resourcesToRemove'[pc[t].key] = "waiting"
      /\ \A j \in Keys \ {pc[t].key} : resourcesToRemove'[j] = resourcesToRemove[j]
  BY <1>1, Zenon DEF RemoveKeyRegister, ResourceToRemoveFuture, StepFacts, TypeOK
<1>a. TypeOK'
  BY <1>1, <1>2, <1>3, IdleHasNoKey, Zenon DEF RemoveKeyRegister, TypeOK
<1>b. RefCountsMatch'
  BY Zenon DEF RemoveKeyRegister, RefCountsMatch, Users
<1>c. NoFailure'
  BY <1>1, <1>2, <1>3, IdleHasNoKey, Zenon DEF RemoveKeyRegister, NoFailure
<1>d. OneBusyThread'
  BY <1>1, <1>2, <1>3, IdleHasNoKey DEF RemoveKeyRegister, OneBusyThread
<1>e. StepFacts'
  BY <1>1, <1>2, <1>3, IdleHasNoKey DEF RemoveKeyRegister, StepFacts, Unused
<1>f. PromiseFacts'
  BY <1>1, <1>2, <1>3, IdleHasNoKey DEF RemoveKeyRegister, PromiseFacts, Unused
<1>g. InUseInBase'
  BY <1>1, <1>2, <1>3, IdleHasNoKey, Zenon DEF RemoveKeyRegister, InUseInBase
<1> QED
  BY <1>a, <1>b, <1>c, <1>d, <1>e, <1>f, <1>g, Zenon

\* It removes the key directly when it was not.
LEMMA RemoveKeyFromBaseStoreKeeps ==
    ASSUME PInv, NEW t \in Threads, RemoveKeyFromBaseStore(t) PROVE PInv'
<1> USE DEF PInv
<1>1. /\ pc[t].key \in Keys /\ pc[t].step = "removing" /\ Unused(pc[t].key)
      /\ \A u \in Threads \ {t} : pc[u].key # pc[t].key
  BY IdleHasNoKey, Zenon DEF RemoveKeyFromBaseStore, StepFacts, OneBusyThread
<1>2. /\ pc' \in [Threads -> Pc] /\ pc'[t] = IdlePc
      /\ \A u \in Threads \ {t} : pc'[u] = pc[u]
  BY DonePc, Zenon DEF RemoveKeyFromBaseStore
<1>a. TypeOK'
  BY <1>1, <1>2, IdleHasNoKey, Zenon DEF RemoveKeyFromBaseStore, TypeOK
<1>b. RefCountsMatch'
  BY Zenon DEF RemoveKeyFromBaseStore, RefCountsMatch, Users
<1>c. NoFailure'
  BY <1>1, <1>2, IdleHasNoKey, Zenon DEF RemoveKeyFromBaseStore, NoFailure
<1>d. OneBusyThread'
  BY <1>1, <1>2, IdleHasNoKey DEF RemoveKeyFromBaseStore, OneBusyThread
<1>e. StepFacts'
  BY <1>1, <1>2, IdleHasNoKey DEF RemoveKeyFromBaseStore, StepFacts, Unused
<1>f. PromiseFacts'
  BY <1>1, <1>2, IdleHasNoKey DEF RemoveKeyFromBaseStore, PromiseFacts, Unused
<1>g. InUseInBase'
  BY <1>1, Zenon DEF RemoveKeyFromBaseStore, InUseInBase, Unused
<1> QED
  BY <1>a, <1>b, <1>c, <1>d, <1>e, <1>f, <1>g, Zenon

\* A new ParallelAccessStore has nothing open and nothing to remove.
LEMMA InitPInv == Init => PInv
<1> SUFFICES ASSUME Init PROVE PInv
  BY Zenon
<1>1. TypeOK
  BY Zenon DEF Init, TypeOK, Pc, Failures
<1>2. RefCountsMatch
  <2>1. \A k \in Keys : Users(k) = {}
    BY Zenon DEF Init, Users
  <2> QED
    BY <2>1, FS_EmptySet, Zenon DEF Init, RefCountsMatch
<1>3. OneBusyThread /\ StepFacts
  BY IdleHasNoKey, Zenon DEF Init, OneBusyThread, StepFacts
<1>4. PromiseFacts /\ InUseInBase /\ NoFailure
  BY Zenon DEF Init, PromiseFacts, InUseInBase, NoFailure
<1> QED
  BY <1>1, <1>2, <1>3, <1>4, Zenon DEF PInv

\* ParallelAccessStore's promise, for any number of threads and keys, if nobody loads a key that is
\* being removed: while anyone uses a key there is one Resource for it, its count is exact, it stays in
\* the base store, and none of the assertions of ParallelAccessStore fails.
THEOREM SharingIsSafe == ASSUME ~LateLoads PROVE Spec => []OneResourceWhileUsed
<1>1. PInv /\ [Next]_vars => PInv'
  <2> SUFFICES ASSUME PInv, [Next]_vars PROVE PInv'
    BY Zenon
  <2>1. ASSUME NEW t \in Threads, Continue(t) PROVE PInv'
    BY <2>1, AddKeeps, RemoveReleaseKeeps, RemoveFromBaseStoreKeeps, RemoveKeyRegisterKeeps,
       RemoveKeyFromBaseStoreKeeps, Zenon DEF Continue
  <2>2. ASSUME NEW t \in Threads, NEW k \in Keys,
               \/ Load(t, k) \/ LoadOrAdd(t, k) \/ TryCreate(t, k)
               \/ DropRef(t, k) \/ Remove(t, k) \/ RemoveKey(t, k)
        PROVE  PInv'
    BY <2>2, LoadKeeps, LoadOrAddKeeps, TryCreateKeeps, DropRefKeeps, RemoveKeeps, RemoveKeyKeeps, Zenon
  <2>3. CASE UNCHANGED vars
    BY <2>3 DEF vars, PInv, TypeOK, RefCountsMatch, Users, NoFailure, OneBusyThread, StepFacts, PromiseFacts,
                InUseInBase, Unused
  <2> QED
    BY <2>1, <2>2, <2>3, Zenon DEF Next
<1>2. PInv => OneResourceWhileUsed
  <2> SUFFICES ASSUME PInv PROVE OneResourceWhileUsed
    BY Zenon
  <2>1. OneResourcePerKey
    BY CountTellsUse, Zenon DEF PInv, PromiseFacts, OneResourcePerKey
  <2>2. UsersKeepTheirResource
    BY Zenon DEF PInv, InUseInBase, UsersKeepTheirResource, Users
  <2> QED
    BY <2>1, <2>2, Zenon DEF PInv, OneResourceWhileUsed
<1> QED
  BY InitPInv, <1>1, <1>2, PTL DEF Spec
=============================================================================
