---------------------------- MODULE MCIntegrity ----------------------------
(***************************************************************************)
(* IntegrityBlockStore2 in its two settings: clients that share a file     *)
(* system (the constants of the .cfg), and a file system bound to one      *)
(* client, for which a missing block is a violation.  A behaviour is one   *)
(* of either.                                                              *)
(***************************************************************************)
EXTENDS IntegrityBlockStore2, TLC

CONSTANTS ExclusiveClient, ExclusiveBlocks

VARIABLES setting, base1, written1, faults1, mounted1, mem1, stateFile1, op1

Exclusive == INSTANCE IntegrityBlockStore2 WITH
    Clients <- {ExclusiveClient}, BlockIds <- ExclusiveBlocks, VersionMax <- 3,
    MissingBlockIsIntegrityViolation <- TRUE, Faults <- {"rollback"},
    base <- base1, written <- written1, faults <- faults1, mounted <- mounted1,
    mem <- mem1, stateFile <- stateFile1, op <- op1

exclusiveVars == <<base1, written1, faults1, mounted1, mem1, stateFile1, op1>>
settingVars == <<setting, vars, exclusiveVars>>

SettingsInit ==
    /\ setting \in {"shared", "exclusive"}
    /\ setting # "shared" => base = [id \in BlockIds |-> NoBlock]
    /\ setting # "exclusive" => base1 = [id \in ExclusiveBlocks |-> NoBlock]
    /\ Init /\ Exclusive!Init

SettingsNext ==
    \/ setting = "shared" /\ Next /\ UNCHANGED <<setting, exclusiveVars>>
    \/ setting = "exclusive" /\ Exclusive!Next /\ UNCHANGED <<setting, vars>>

SettingsSpec == SettingsInit /\ [][SettingsNext]_settingVars

Symmetry == Permutations(Clients) \cup Permutations(ExclusiveBlocks)

\* In a file system bound to one client, with a second block and one more version, where missing
\* blocks are violations too: no superseded block is returned, versions are fresh, and a violation
\* needs a fault (IntegrityBlockStore2 with missingBlockIsIntegrityViolation).
ExclusiveClientIsSafe ==
    setting = "exclusive" =>
        /\ Exclusive!NoSupersededBlockReturned
        /\ Exclusive!VersionsAreFresh
        /\ Exclusive!ViolationMeansFault
=============================================================================
