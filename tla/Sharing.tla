------------------------------ MODULE Sharing ------------------------------
(***************************************************************************)
(* The threads of the file system and the keys of the objects they share   *)
(* through parallel access stores.                                         *)
(***************************************************************************)
EXTENDS Integers, FiniteSets

CONSTANTS
    Threads,
    Keys,
    LateLoads,    \* whether a key may be loaded while it is being removed
    NoKey

ASSUME ParallelAssumption ==
    /\ IsFiniteSet(Threads) /\ LateLoads \in BOOLEAN
    /\ Keys \subseteq Nat /\ NoKey \notin Keys
=============================================================================
