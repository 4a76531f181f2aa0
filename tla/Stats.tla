------------------------------- MODULE Stats -------------------------------
(***************************************************************************)
(* cryfs-stats (stats/main.cpp, stats/traversal.cpp): lists all blocks,    *)
(* walks from the root directory over all blobs and from each blob over    *)
(* its blocks, and reports the blocks that are left over.  It reads the    *)
(* file system through a ReadOnlyBlockStore2 and an IntegrityBlockStore2   *)
(* that treats missing blocks as integrity violations, and opens a new     *)
(* stack of stores for each pass.  Meanwhile the synchronisation of the    *)
(* base directory may add or remove blocks.                                *)
(***************************************************************************)
EXTENDS Integers, Sequences, FiniteSets

CONSTANTS
    Blocks,     \* block ids
    Root,       \* the blob of the root directory
    Entries,    \* Entries[b]: the blobs in directory b; its domain are the directories, each of one block
    Children,   \* Children[b]: the children of inner node b; its domain are the inner nodes
    Disks,      \* what the base directory may hold at the start: Disks \subseteq [Blocks -> Format]
    KnownSets,  \* the blocks this client may know to exist at the start
    MaxSyncs    \* bound: blocks that the synchronisation changes while the program runs

\* a block as IntegrityBlockStore2 meets it; it rewrites an "old" one when it is loaded
Format == {"none", "old", "current"}

VARIABLES
    disk,           \* the base directory
    known,          \* KnownBlockVersions::existingBlocks() of this client
    violation,      \* integrityViolationOnPreviousRun in the integritydata file
    config,         \* the outcome of config_loader.load() and missingBlockIsIntegrityViolation
    pc,
    todo,           \* the stack of the recursion
    all,            \* getAllBlockIds()
    knownBlobs,     \* getKnownBlobIds()
    accounted,      \* getKnownBlockIds()
    unaccounted,
    counts,         \* numLeaves, numInner
    syncs

statsvars == <<disk, known, violation, config, pc, todo, all, knownBlobs, accounted, unaccounted, counts, syncs>>

OnDisk == {b \in Blocks : disk[b] # "none"}

StatsInit ==
    /\ disk \in Disks
    /\ known \in KnownSets
    /\ violation = FALSE
    /\ config \in [load : {"ok", "not found", "wrong password", "other format"}, missing : BOOLEAN]
    /\ pc = "load config"
    /\ todo = <<>>
    /\ all = {}
    /\ knownBlobs = <<>>
    /\ accounted = <<>>
    /\ unaccounted = {}
    /\ counts = [leaves |-> 0, inner |-> 0]
    /\ syncs = 0

\* an exception or a failed assertion: main() does not catch it
Crash == pc' = "crashed"

\* config_loader.load() and the check for the current format
LoadConfig ==
    /\ pc = "load config"
    /\ pc' = IF config.load = "ok" THEN "list blocks" ELSE "crashed"
    /\ UNCHANGED <<disk, known, violation, config, todo, all, knownBlobs, accounted, unaccounted, counts, syncs>>

\* makeBlockStore(): the constructor of IntegrityBlockStore2 throws after a violation
makeBlockStore == ~violation

\* IntegrityBlockStore2::integrityViolationDetected(): the flag is saved at once
integrityViolationDetected == violation' = TRUE

(***************************************************************************)
(* getAllBlockIds().                                                       *)
(***************************************************************************)
\* IntegrityBlockStore2::forEachBlock with missingBlockIsIntegrityViolation = true
forEachBlock ==
    /\ all' = OnDisk
    /\ IF known \subseteq OnDisk THEN UNCHANGED violation ELSE integrityViolationDetected

getAllBlockIds ==
    /\ pc = "list blocks"
    /\ IF makeBlockStore THEN forEachBlock /\ pc' = "list blobs" ELSE Crash /\ UNCHANGED <<violation, all>>
    /\ UNCHANGED <<disk, known, config, todo, knownBlobs, accounted, unaccounted, counts, syncs>>

(***************************************************************************)
(* Loading a block.  A missing one is a violation if this client knew it;  *)
(* an old one is migrated, and the store of the migrated one fails.        *)
(***************************************************************************)
\* ReadOnlyBlockStore2::store() throws
ReadOnlyStore(b) == Crash /\ UNCHANGED disk

MissingBlock(b) ==
    /\ disk[b] = "none"
    /\ IF b \in known THEN integrityViolationDetected ELSE UNCHANGED violation
    /\ Crash
    /\ UNCHANGED disk

OldBlock(b) ==
    /\ disk[b] = "old"
    /\ ReadOnlyStore(b)
    /\ UNCHANGED violation

(***************************************************************************)
(* getKnownBlobIds(): forEachReachableBlob() from the root directory.      *)
(***************************************************************************)
getKnownBlobIds ==
    /\ pc = "list blobs"
    /\ IF makeBlockStore THEN pc' = "visit blobs" /\ todo' = <<Root>> ELSE Crash /\ UNCHANGED todo
    /\ UNCHANGED <<disk, known, violation, config, all, knownBlobs, accounted, unaccounted, counts, syncs>>

\* the entries of a directory are all on the stack before the first of them is visited
forEachReachableBlob ==
    /\ pc = "visit blobs" /\ todo # <<>>
    /\ LET b == Head(todo)
       IN /\ knownBlobs' = Append(knownBlobs, b)
          /\ \/ MissingBlock(b) /\ UNCHANGED todo
             \/ OldBlock(b) /\ UNCHANGED todo
             \/ /\ disk[b] = "current"
                /\ todo' = (IF b \in DOMAIN Entries THEN Entries[b] ELSE <<>>) \o Tail(todo)
                /\ UNCHANGED <<pc, violation, disk>>
    /\ UNCHANGED <<known, config, all, accounted, unaccounted, counts, syncs>>

(***************************************************************************)
(* getKnownBlockIds(): forEachReachableBlockInBlob() for each blob.        *)
(***************************************************************************)
getKnownBlockIds ==
    /\ pc = "visit blobs" /\ todo = <<>>
    /\ IF makeBlockStore THEN pc' = "visit blocks" /\ todo' = knownBlobs ELSE Crash /\ UNCHANGED todo
    /\ UNCHANGED <<disk, known, violation, config, all, knownBlobs, accounted, unaccounted, counts, syncs>>

\* mutant: only the first child is followed
VisitsTheFirstChild ==
    /\ pc = "visit blocks" /\ todo # <<>>
    /\ LET b == Head(todo)
       IN /\ accounted' = Append(accounted, b)
          /\ \/ MissingBlock(b) /\ UNCHANGED todo
             \/ OldBlock(b) /\ UNCHANGED todo
             \/ /\ disk[b] = "current"
                /\ todo' = (IF b \in DOMAIN Children THEN <<Head(Children[b])>> ELSE <<>>) \o Tail(todo)
                /\ UNCHANGED <<pc, violation, disk>>
    /\ UNCHANGED <<known, config, all, knownBlobs, unaccounted, counts, syncs>>

forEachReachableBlockInBlob ==
    /\ pc = "visit blocks" /\ todo # <<>>
    /\ LET b == Head(todo)
       IN /\ accounted' = Append(accounted, b)
          /\ \/ MissingBlock(b) /\ UNCHANGED todo
             \/ OldBlock(b) /\ UNCHANGED todo
             \/ /\ disk[b] = "current"
                /\ todo' = (IF b \in DOMAIN Children THEN Children[b] ELSE <<>>) \o Tail(todo)
                /\ UNCHANGED <<pc, violation, disk>>
    /\ UNCHANGED <<known, config, all, knownBlobs, unaccounted, counts, syncs>>

(***************************************************************************)
(* main(): the blocks that are left over, and what they are.  The          *)
(* assertion fails for an accounted block that was not listed, or that is  *)
(* accounted twice.                                                        *)
(***************************************************************************)
Subtract ==
    /\ pc = "visit blocks" /\ todo = <<>>
    /\ LET ids == {accounted[i] : i \in DOMAIN accounted}
       IN IF ids \subseteq all /\ Cardinality(ids) = Len(accounted) /\ makeBlockStore
          THEN unaccounted' = all \ ids /\ pc' = "classify"
          ELSE Crash /\ UNCHANGED unaccounted
    /\ UNCHANGED <<disk, known, violation, config, todo, all, knownBlobs, accounted, counts, syncs>>

\* the unaccounted blocks in the order of std::set
Classified == counts.leaves + counts.inner

Classify(b) ==
    /\ pc = "classify" /\ b \in unaccounted /\ Cardinality({a \in unaccounted : a < b}) = Classified
    /\ \/ MissingBlock(b) /\ UNCHANGED counts
       \/ OldBlock(b) /\ UNCHANGED counts
       \/ /\ disk[b] = "current"
          /\ counts' = IF b \in DOMAIN Children THEN [counts EXCEPT !.inner = @ + 1] ELSE [counts EXCEPT !.leaves = @ + 1]
          /\ UNCHANGED <<pc, violation, disk>>
    /\ UNCHANGED <<known, config, todo, all, knownBlobs, accounted, unaccounted, syncs>>

Report ==
    /\ pc = "classify" /\ Classified = Cardinality(unaccounted)
    /\ pc' = "done"
    /\ UNCHANGED <<disk, known, violation, config, todo, all, knownBlobs, accounted, unaccounted, counts, syncs>>

\* the synchronisation of the base directory (external)
Sync(b) ==
    /\ syncs < MaxSyncs /\ pc \notin {"load config", "done", "crashed"}
    /\ disk' = [disk EXCEPT ![b] = IF @ = "none" THEN "current" ELSE "none"]
    /\ syncs' = syncs + 1
    /\ UNCHANGED <<known, violation, config, pc, todo, all, knownBlobs, accounted, unaccounted, counts>>

StatsNext ==
    \/ LoadConfig
    \/ getAllBlockIds
    \/ getKnownBlobIds
    \/ forEachReachableBlob
    \/ getKnownBlockIds
    \/ forEachReachableBlockInBlob
    \/ Subtract
    \/ \E b \in Blocks : Classify(b)
    \/ Report
    \/ \E b \in Blocks : Sync(b)

StatsSpec == StatsInit /\ [][StatsNext]_statsvars

(***************************************************************************)
(* Properties                                                              *)
(***************************************************************************)
Follows(S) == \A b \in S : /\ b \in DOMAIN Entries => \A i \in DOMAIN Entries[b] : Entries[b][i] \in S
                           /\ b \in DOMAIN Children => \A i \in DOMAIN Children[b] : Children[b][i] \in S
Reachable == {b \in Blocks : \A S \in SUBSET Blocks : Root \in S /\ Follows(S) => b \in S}

\* When the base directory did not change meanwhile, the blocks that cryfs-stats reports are
\* exactly the ones no directory and no blob leads to, each counted once as a leaf or as an
\* inner node; and it reports nothing when a block it needs is missing.
ReportIsExact ==
    pc = "done" /\ syncs = 0 =>
        /\ unaccounted = OnDisk \ Reachable /\ Reachable \subseteq OnDisk
        /\ counts.inner = Cardinality(unaccounted \cap DOMAIN Children)
        /\ counts.leaves = Cardinality(unaccounted \ DOMAIN Children)

\* Every report is exact, and cryfs-stats never writes to the base directory, also not when it
\* loads a block in the old format, which IntegrityBlockStore2 migrates when it is loaded.
StatsReportLeakedBlocks ==
    [][ReportIsExact' /\ (disk' # disk => syncs' # syncs)]_statsvars
=============================================================================
