------------------------ MODULE ParallelAccessStore ------------------------
(***************************************************************************)
(* ParallelAccessStore: threads share one Resource object per key.  The    *)
(* first load fetches it from the base store, later ones count references, *)
(* the last release drops it, and a remove waits until the last user has   *)
(* released it and then removes it from the base store.  The same class    *)
(* serves blocks, data trees and file system blobs.                        *)
(*                                                                         *)
(* A critical section of _mutex is one action.  A thread holds at most one *)
(* reference to a key at a time.  The callers remove a key only once, and  *)
(* unless LateLoads they leave it alone from then on.  While they remove a *)
(* node they hold nodes on the path to it at most: keys are numbered from  *)
(* the root down.                                                          *)
(***************************************************************************)
EXTENDS Sharing

VARIABLES
    base,              \* the keys in the base store
    openResources,     \* key -> reference count, 0 when it is not in the map
    resourcesToRemove, \* key -> the promise a remover waits for
    refs,              \* refs[t]: the keys t holds a ResourceRef to
    pc,                \* what t is doing besides holding references
    failure            \* the check that failed, "none" while all hold

vars == <<base, openResources, resourcesToRemove, refs, pc, failure>>

IdlePc == [step |-> "idle", key |-> NoKey]

Pc == {IdlePc} \cup
      [step: {"adding", "releasing", "waiting", "registering", "waitingForUser",
              "removing"}, key: Keys]

Failures == {"none", "Inserting failed. Already exists.", "Inserting failed",
             "Didn't find key", "promise_already_satisfied"}

TypeOK ==
    /\ base \subseteq Keys
    /\ openResources \in [Keys -> Nat]
    /\ resourcesToRemove \in [Keys -> {"none", "waiting", "ready"}]
    /\ refs \in [Threads -> SUBSET Keys]
    /\ pc \in [Threads -> Pc]
    /\ failure \in Failures

Init ==
    /\ base \in SUBSET Keys
    /\ openResources = [k \in Keys |-> 0]
    /\ resourcesToRemove = [k \in Keys |-> "none"]
    /\ refs = [t \in Threads |-> {}]
    /\ pc = [t \in Threads |-> IdlePc]
    /\ failure = "none"

----------------------------------------------------------------------------
IsOpened(k) == openResources[k] > 0

Users(k) == {t \in Threads : k \in refs[t]}

\* the threads in the middle of creating or removing k; nobody else knows
\* the id of a block that is being created
Busy(k) == {t \in Threads : pc[t].key = k}

Creators(k) == {t \in Busy(k) : pc[t].step = "adding"}

Ready(t) == failure = "none" /\ pc[t] = IdlePc

MayUse(t, k) == Ready(t) /\ k \notin refs[t] /\ Busy(k) = {}

\* t holds, besides k, only what k is reached through
MayRemove(t, k) == \A j \in refs[t] \ {k} : j < k

GoTo(t, step, k) == pc' = [pc EXCEPT ![t] = [step |-> step, key |-> k]]

Done(t) == pc' = [pc EXCEPT ![t] = IdlePc]

GetReference(t, k) ==
    /\ openResources' = [openResources EXCEPT ![k] = @ + 1]
    /\ refs' = [refs EXCEPT ![t] = @ \cup {k}]

----------------------------------------------------------------------------
(***************************************************************************)
(* load; loadOrAdd as overwrite uses it; tryCreate, whose two critical     *)
(* sections enclose the creation in the base store.                        *)
(***************************************************************************)
Load(t, k) ==
    /\ Ready(t) /\ k \notin refs[t]
    /\ IF LateLoads THEN Creators(k) = {} ELSE Busy(k) = {}
    /\ IsOpened(k) \/ k \in base
    /\ GetReference(t, k)
    /\ UNCHANGED <<base, resourcesToRemove, pc, failure>>

LoadOrAdd(t, k) ==
    /\ MayUse(t, k)
    /\ GetReference(t, k)
    /\ base' = IF IsOpened(k) THEN base ELSE base \cup {k}
    /\ UNCHANGED <<resourcesToRemove, pc, failure>>

TryCreate(t, k) ==
    /\ MayUse(t, k) /\ ~IsOpened(k) /\ k \notin base
    /\ base' = base \cup {k}
    /\ GoTo(t, "adding", k)
    /\ UNCHANGED <<openResources, resourcesToRemove, refs, failure>>

Add(t) ==
    LET k == pc[t].key IN
    /\ failure = "none" /\ pc[t].step = "adding" /\ Done(t)
    /\ IF IsOpened(k)
       THEN /\ failure' = "Inserting failed. Already exists."
            /\ UNCHANGED <<openResources, refs>>
       ELSE GetReference(t, k) /\ UNCHANGED failure
    /\ UNCHANGED <<base, resourcesToRemove>>

----------------------------------------------------------------------------
(***************************************************************************)
(* release: the last reference hands the resource to a waiting remover and *)
(* takes the entry out of the map.                                         *)
(***************************************************************************)
Release(t, k) ==
    IF ~IsOpened(k)
    THEN failure' = "Didn't find key" /\ UNCHANGED <<openResources, refs, resourcesToRemove>>
    ELSE /\ openResources' = [openResources EXCEPT ![k] = @ - 1]
         /\ refs' = [refs EXCEPT ![t] = @ \ {k}]
         /\ IF openResources[k] = 1 /\ resourcesToRemove[k] # "none"
            THEN /\ resourcesToRemove' = [resourcesToRemove EXCEPT ![k] = "ready"]
                 /\ failure' = IF resourcesToRemove[k] = "ready"
                               THEN "promise_already_satisfied" ELSE failure
            ELSE UNCHANGED <<resourcesToRemove, failure>>

DropRef(t, k) ==
    /\ Ready(t) /\ k \in refs[t]
    /\ Release(t, k)
    /\ UNCHANGED <<base, pc>>

ResourceToRemoveFuture(k) ==
    IF resourcesToRemove[k] # "none"
    THEN failure' = "Inserting failed" /\ UNCHANGED resourcesToRemove
    ELSE /\ resourcesToRemove' = [resourcesToRemove EXCEPT ![k] = "waiting"]
         /\ UNCHANGED failure

\* remove(key, ref): register, release the own reference, wait, remove
Remove(t, k) ==
    /\ Ready(t) /\ k \in refs[t] /\ Busy(k) = {} /\ MayRemove(t, k)
    /\ ResourceToRemoveFuture(k)
    /\ GoTo(t, "releasing", k)
    /\ UNCHANGED <<base, openResources, refs>>

RemoveRelease(t) ==
    LET k == pc[t].key IN
    /\ failure = "none" /\ pc[t].step = "releasing"
    /\ Release(t, k)
    /\ GoTo(t, "waiting", k)
    /\ UNCHANGED base

\* mutant: the remover does not wait for the other users
DoesNotWait(t) ==
    LET k == pc[t].key IN
    /\ failure = "none" /\ pc[t].step = "waiting"
    /\ resourcesToRemove' = [resourcesToRemove EXCEPT ![k] = "none"]
    /\ base' = base \ {k}
    /\ Done(t)
    /\ UNCHANGED <<openResources, refs, failure>>

RemoveFromBaseStore(t) ==
    LET k == pc[t].key IN
    /\ failure = "none" /\ pc[t].step \in {"waiting", "waitingForUser"}
    /\ resourcesToRemove[k] = "ready"
    /\ resourcesToRemove' = [resourcesToRemove EXCEPT ![k] = "none"]
    /\ base' = base \ {k}
    /\ Done(t)
    /\ UNCHANGED <<openResources, refs, failure>>

(***************************************************************************)
(* remove(key) looks into the map without the lock and then either waits   *)
(* like the other remove or removes the key directly.  A user that lets go *)
(* between the look and the registration leaves the remover waiting; the   *)
(* only caller, DataNodeStore, removes leaves that nobody else has open.   *)
(***************************************************************************)
RemoveKey(t, k) ==
    /\ MayUse(t, k) /\ k \in base /\ MayRemove(t, k)
    /\ GoTo(t, IF IsOpened(k) THEN "registering" ELSE "removing", k)
    /\ UNCHANGED <<base, openResources, resourcesToRemove, refs, failure>>

RemoveKeyRegister(t) ==
    LET k == pc[t].key IN
    /\ failure = "none" /\ pc[t].step = "registering"
    /\ ResourceToRemoveFuture(k)
    /\ GoTo(t, "waitingForUser", k)
    /\ UNCHANGED <<base, openResources, refs>>

RemoveKeyFromBaseStore(t) ==
    /\ failure = "none" /\ pc[t].step = "removing"
    /\ base' = base \ {pc[t].key}
    /\ Done(t)
    /\ UNCHANGED <<openResources, resourcesToRemove, refs, failure>>

----------------------------------------------------------------------------
Continue(t) == \/ Add(t) \/ RemoveRelease(t) \/ RemoveFromBaseStore(t)
               \/ RemoveKeyRegister(t) \/ RemoveKeyFromBaseStore(t)

Next == \E t \in Threads :
    \/ Continue(t)
    \/ \E k \in Keys : \/ Load(t, k) \/ LoadOrAdd(t, k) \/ TryCreate(t, k)
                       \/ DropRef(t, k) \/ Remove(t, k) \/ RemoveKey(t, k)

Spec == Init /\ [][Next]_vars

\* threads are scheduled, and drop every reference at the end of its scope
Fairness == \A t \in Threads :
    WF_vars(Continue(t)) /\ \A k \in Keys : SF_vars(DropRef(t, k))

FairSpec == Spec /\ Fairness

----------------------------------------------------------------------------
(***************************************************************************)
(* The reference count of a key is the number of ResourceRefs that exist,  *)
(* across every interleaving of load, tryCreate, overwrite and release.    *)
(***************************************************************************)
RefCountsMatch == \A k \in Keys : openResources[k] = Cardinality(Users(k))

(***************************************************************************)
(* None of the assertions of ParallelAccessStore fails, and no promise is  *)
(* fulfilled twice.                                                        *)
(***************************************************************************)
NoFailure == failure = "none"

(***************************************************************************)
(* At most one Resource object exists per key: while a remover has been    *)
(* handed the resource, nobody has a second one open.                      *)
(***************************************************************************)
OneResourcePerKey ==
    \A k \in Keys : resourcesToRemove[k] = "ready" => ~IsOpened(k)

(***************************************************************************)
(* remove takes a key out of the base store only after its last user has   *)
(* let go: what a thread holds a reference to exists.                      *)
(***************************************************************************)
UsersKeepTheirResource == \A k \in Keys : Users(k) # {} => k \in base

\* a remove(key) whose last user let go before the promise was registered
LostRace(t) == /\ pc[t].step = "waitingForUser"
               /\ resourcesToRemove[pc[t].key] = "waiting" /\ ~IsOpened(pc[t].key)

(***************************************************************************)
(* The four together: while anyone uses a key there is one Resource for    *)
(* it, counted exactly, it stays in the base store, and no assertion of    *)
(* ParallelAccessStore fails on the way.                                   *)
(***************************************************************************)
OneResourceWhileUsed ==
    RefCountsMatch /\ NoFailure /\ OneResourcePerKey /\ UsersKeepTheirResource

(***************************************************************************)
(* A remove(key, ref) returns: the last user's release always wakes it,    *)
(* although users may be waiting in a remove themselves.  The exception is *)
(* a user that hangs in the remove(key) race.                              *)
(***************************************************************************)
RemoveTerminates ==
    \A t \in Threads :
        pc[t].step = "releasing" ~> \/ pc[t].step = "idle"
                                   \/ \E u \in Threads : LostRace(u)

----------------------------------------------------------------------------
(***************************************************************************)
(* What every step keeps: why OneResourceWhileUsed holds.                  *)
(***************************************************************************)
Unused(k) == \A t \in Threads : k \notin refs[t]

\* no two threads create or remove the same key
OneBusyThread == \A t, u \in Threads : pc[t].key \in Keys /\ pc[t].key = pc[u].key => t = u

\* what a thread in the middle of an operation relies on
StepFacts ==
    \A t \in Threads :
        /\ pc[t].step = "adding" => Unused(pc[t].key) /\ pc[t].key \in base
        /\ pc[t].step = "releasing" => pc[t].key \in refs[t]
        /\ pc[t].step = "removing" => Unused(pc[t].key)
        /\ pc[t].step \in {"adding", "registering", "removing"} => resourcesToRemove[pc[t].key] = "none"

\* a promise belongs to a thread that is waiting for it, and is fulfilled when the last user is gone
PromiseFacts ==
    \A k \in Keys :
        /\ resourcesToRemove[k] # "none" =>
               \E t \in Threads : pc[t].key = k /\ pc[t].step \in {"releasing", "waiting", "waitingForUser"}
        /\ resourcesToRemove[k] = "ready" => Unused(k)

InUseInBase == \A t \in Threads : refs[t] \subseteq base

PInv ==
    /\ TypeOK /\ RefCountsMatch /\ NoFailure
    /\ OneBusyThread /\ StepFacts /\ PromiseFacts /\ InUseInBase
=============================================================================
