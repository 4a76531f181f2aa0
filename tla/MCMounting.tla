----------------------------- MODULE MCMounting -----------------------------
(***************************************************************************)
(* What the programs do around a file system: the processes that create,   *)
(* check, migrate and mount it (Mount), the command line and its questions *)
(* (CommandLine), and cryfs-stats (Stats).  A behaviour is one of these.   *)
(***************************************************************************)
EXTENDS Mount, MCCalls, TLC

VARIABLES
    component,
    call, pc, told, options, asked, settings, password, fuse, unmounted, exit,
    statsDisk, known, violation, config, statsPc, todo, all, knownBlobs, accounted, unaccounted, counts, syncs

Program == INSTANCE CommandLine WITH
    Calls <- AllCalls, NewestVersions <- MCNewestVersions, Ciphers <- MCCiphers,
    CiphersWithWarning <- {"weak"}, Blocksizes <- MCBlocksizes, DefaultCipher <- "strong", DefaultBlocksize <- 16,
    Lines <- {"y", "n", "1", " 1", "2", "3", "0", "-1", ""}, Passwords <- {"", "p", "q"}, MaxPrompts <- 8,
    ReleaseOrder <- MCReleaseOrder

\* A root directory (1) with a subdirectory (2) and a file of one leaf (3); the subdirectory holds a
\* file with an inner node (4) and two leaves (5, 6).  Block 7, an inner node, and block 8, its leaf,
\* are left over.
StatsBlocks == 1 .. 8

\* at most one block of the tree is missing or old, and any of the left-over ones
StatsDisks ==
    LET Full == [b \in StatsBlocks |-> "current"]
        Left == {[Full EXCEPT ![7] = i, ![8] = l] : i, l \in {"none", "current", "old"}}
    IN Left \cup {[d EXCEPT ![b] = f] : d \in Left, b \in 1 .. 6, f \in {"none", "old"}}

Report == INSTANCE Stats WITH
    Blocks <- StatsBlocks, Root <- 1, Entries <- (1 :> <<2, 3>>) @@ (2 :> <<4>>), Children <- (4 :> <<5, 6>>) @@ (7 :> <<8>>),
    Disks <- StatsDisks, KnownSets <- {{}, {1, 2, 3}, {5, 8}, StatsBlocks}, MaxSyncs <- 1,
    disk <- statsDisk, pc <- statsPc

programVars == <<call, pc, told, options, asked, settings, password, fuse, unmounted, exit>>
reportVars == <<statsDisk, known, violation, config, statsPc, todo, all, knownBlobs, accounted, unaccounted, counts, syncs>>
mountingVars == <<component, vars, programVars, reportVars>>

FirstMachine == CHOOSE m \in Machines : TRUE

MountingInit ==
    /\ component \in {"mount", "program", "stats"}
    /\ component # "mount" => file = NoFile /\ machine = FirstMachine
    /\ component # "program" => call = FirstCall
    /\ component # "stats" => /\ statsDisk = [b \in StatsBlocks |-> "current"] /\ known = {}
                              /\ config = [load |-> "ok", missing |-> FALSE]
    /\ Init /\ Program!CLInit /\ Report!StatsInit

Only(name) == component = name /\ UNCHANGED component

MountingNext ==
    \/ Only("mount") /\ Next /\ UNCHANGED <<programVars, reportVars>>
    \/ Only("program") /\ Program!CLNext /\ UNCHANGED <<vars, reportVars>>
    \/ Only("stats") /\ Report!StatsNext /\ UNCHANGED <<vars, programVars>>

MountingSpec == MountingInit /\ [][MountingNext]_mountingVars

Symmetry == Permutations(Machines) \cup Permutations(FsIds) \cup Permutations(ClientIds)

\* The update notice, the settings of a new file system, the password and the options of libfuse are
\* what the user said (Cli, the option parser, CryConfigConsole, CryPasswordBasedKeyProvider, Fuse).
UserIsObeyed == Program!UserIsObeyed

\* cryfs-stats reports exactly the blocks that nothing leads to, and writes nothing (stats/main.cpp).
StatsReportLeakedBlocks == Report!StatsReportLeakedBlocks
=============================================================================
