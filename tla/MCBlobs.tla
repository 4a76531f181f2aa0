------------------------------ MODULE MCBlobs ------------------------------
(***************************************************************************)
(* What a blob's bytes go through on their way to the base store: the tree *)
(* of its blocks (DataTree) and the block cache (CachingBlockStore2).  A   *)
(* behaviour is one of either.                                             *)
(***************************************************************************)
EXTENDS CachingBlockStore2

CONSTANT None

VARIABLES component, nodes, sizeCache, content, assertsHeld

Tree == INSTANCE DataTree WITH
    MaxBytesPerLeaf <- 2, MaxChildrenPerInnerNode <- 2, MaxBytes <- 9, MaxNodes <- 16

treeVars == <<nodes, sizeCache, content, assertsHeld>>
blobVars == <<component, vars, treeVars>>

BlobsInit ==
    /\ component \in {"cache", "tree"}
    /\ component # "cache" => base = [id \in BlockIds |-> NoBlock]
    /\ Init /\ Tree!Init

OfCache(A) == component = "cache" /\ A /\ UNCHANGED <<component, treeVars>>

BlobsNext ==
    \/ OfCache(Next)
    \/ component = "tree" /\ Tree!Next /\ UNCHANGED <<component, vars>>

\* the fairness of CachingBlockStore2
BlobsFairness ==
    /\ \A p \in Purgers : WF_blobVars(OfCache(DeleteEntry(p)))
    /\ \A w \in Workers :
           WF_blobVars(OfCache(WriteBack(w))) /\ WF_blobVars(OfCache(EraseNotInBaseStore(w)))

BlobsSpec == BlobsInit /\ [][BlobsNext]_blobVars /\ BlobsFairness

\* The tree is the blob, after any writes, resizes and reloads (DataTree, LeafTraverser).
TreeIsTheBlob == Tree!TreeIsTheBlob
=============================================================================
