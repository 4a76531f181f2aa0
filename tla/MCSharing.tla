----------------------------- MODULE MCSharing -----------------------------
(***************************************************************************)
(* The stores through which threads share objects: ParallelAccessStore by  *)
(* itself, and ParallelAccessFsBlobStore, which stacks two of them with a  *)
(* cache between.  A behaviour is one of either.                           *)
(***************************************************************************)
EXTENDS ParallelAccessStore, ParallelAccessFsBlobStore

VARIABLE component

ASSUME SharingAssumption == FsBlobAssumption

sharingVars == <<component, vars, fsBlobVars>>

SharingInit ==
    /\ component \in {"access", "blobs"}
    /\ component # "access" => base = {}
    /\ component # "blobs" => blobs = {}
    /\ Init /\ FsBlobInit

OfAccess(A) == component = "access" /\ A /\ UNCHANGED <<component, fsBlobVars>>
OfBlobs(A) == component = "blobs" /\ A /\ UNCHANGED <<component, vars>>

SharingNext == OfAccess(Next) \/ OfBlobs(FsBlobNext)

\* The fairness of either module.  Only one of the two moves in a behaviour, so that fairness of
\* the two together is fairness of each.
SharingFairness ==
    /\ \A t \in Threads, k \in Keys : SF_sharingVars(OfAccess(DropRef(t, k)) \/ OfBlobs(DropBlobRef(t, k)))
    /\ \A t \in Threads : WF_sharingVars(OfAccess(Continue(t)))
    /\ \A t \in Threads : SF_sharingVars(OfBlobs(ContinueBlob(t)))
    /\ \A k \in Keys : WF_sharingVars(OfBlobs(EvictEnd(k)))

SharingSpec == SharingInit /\ [][SharingNext]_sharingVars /\ SharingFairness

\* A remove returns, in one store and in two stacked ones, although it waits for users that may
\* themselves be removing something (ParallelAccessStore::remove).
RemovesTerminate == RemoveTerminates /\ BlobRemovesTerminate
=============================================================================
