------------------------------ MODULE DataTree ------------------------------
(***************************************************************************)
(* A blob's bytes, stored as a tree of blocks                              *)
(* (blobstore/implementations/onblocks: DataTree, LeafTraverser,           *)
(* DataNodeStore, DataInnerNode, DataLeafNode).  Leaves hold the bytes,    *)
(* all leaves are equally deep, and every node left of the right border is *)
(* full, so that a byte's place follows from its offset.  The root keeps   *)
(* its block id for the life of the blob: the tree grows by copying the    *)
(* root into a new child and shrinks by copying an only child over it.     *)
(*                                                                         *)
(* Every public operation of DataTree holds _treeStructureMutex for all of *)
(* its work (exclusively when it changes the tree), so one operation is    *)
(* one action.  A traversal is a recursive operator on a work record st:   *)
(* the node store's blocks, the id of the last node created, whether       *)
(* blobIsGrowingFromThisTraversal was set, the bytes a read has copied out *)
(* and whether every ASSERT passed so far held.                            *)
(***************************************************************************)
EXTENDS Integers, Sequences, FiniteSets, FiniteSetsExt, SequencesExt, Functions, TLC

CONSTANTS MaxBytesPerLeaf,          \* DataNodeLayout::maxBytesPerLeaf, at least 1
          MaxChildrenPerInnerNode,  \* DataNodeLayout::maxChildrenPerInnerNode, at least 2
          MaxBytes,                 \* bound: the largest blob explored
          MaxNodes,                 \* bound: how many block ids there are
          None                      \* boost::none

VARIABLES nodes,      \* the blocks of the node store, by block id
          sizeCache,  \* DataTree::_sizeCache of the loaded tree
          content,    \* the bytes the calls so far have given the blob, None if there is no blob
          assertsHeld \* no ASSERT has failed

vars == <<nodes, sizeCache, content, assertsHeld>>

RootId == 1
Bytes == {0, 1}

-----------------------------------------------------------------------------
(* Arithmetic of utils/Math.h.                                             *)

CeilDivision(dividend, divisor) == (dividend + divisor - 1) \div divisor

MaxZeroSubtraction(minuend, subtrahend) ==
    IF minuend < subtrahend THEN 0 ELSE minuend - subtrahend

MaxLeavesForTreeDepth(depth) == MaxChildrenPerInnerNode ^ depth

-----------------------------------------------------------------------------
(* Nodes.  A leaf's block always has room for MaxBytesPerLeaf bytes; Size  *)
(* says how many of them belong to the blob.                               *)

Leaf(size, data) == [depth |-> 0, size |-> size, data |-> data]

Inner(depth, children) == [depth |-> depth, children |-> children]

IsLeaf(node) == node.depth = 0

Zeroes == [i \in 1..MaxBytesPerLeaf |-> 0]

\* DataLeafNode::resize without the loop that clears the bytes it cuts off.
ResizeKeepsBytes(node, newSize) == [node EXCEPT !.size = newSize]

\* DataLeafNode::resize: growing only moves Size, so what it uncovers is whatever the block holds.
LeafResize(node, newSize) ==
    Leaf(newSize,
         [i \in 1..MaxBytesPerLeaf |->
             IF newSize < i /\ i <= node.size THEN 0 ELSE node.data[i]])

\* what DataLeafNode::read and write assert
InValidArea(node, end) == end <= node.size

\* DataLeafNode::CreateNewNode and DataNodeView::serialize_: the rest of the block is zero.
NewLeaf(data) ==
    Leaf(Len(data), [i \in 1..MaxBytesPerLeaf |-> IF i <= Len(data) THEN data[i] ELSE 0])

-----------------------------------------------------------------------------
(* DataNodeStore.  A new block gets the smallest free id: the code draws   *)
(* ids at random and never looks at their order.                           *)

Require(st, condition) == [st EXCEPT !.asserts = @ /\ condition]

Put(st, id, node) == [st EXCEPT !.nodes = (id :> node) @@ @]

CreateNode(st, node) ==
    LET id == Min(1..MaxNodes \ DOMAIN st.nodes)
    IN [Put(st, id, node) EXCEPT !.new = id]

Without(ns, ids) == Restrict(ns, DOMAIN ns \ ids)

RECURSIVE SubtreeIds(_, _)
SubtreeIds(ns, id) ==
    IF IsLeaf(ns[id]) THEN {id}
    ELSE {id} \cup UNION {SubtreeIds(ns, child) : child \in ToSet(ns[id].children)}

\* DataNodeStore::removeSubtree
RemoveSubtree(ns, id) == Without(ns, SubtreeIds(ns, id))

-----------------------------------------------------------------------------
(* What a traversal does at the leaves and nodes it visits: the callbacks  *)
(* of writeBytes, _doReadBytes and resizeNumBytes.  A traversal that only  *)
(* fills a gap must visit nothing: all its callbacks are ASSERT(false).    *)

Write(offset, source) ==
    [kind |-> "write", beginByte |-> offset, endByte |-> offset + Len(source), source |-> source]

Read(offset, count) == [kind |-> "read", beginByte |-> offset, endByte |-> offset + count]

Resize(newNumBytes) ==
    LET newNumLeaves == Max({1, CeilDivision(newNumBytes, MaxBytesPerLeaf)})
    IN [kind |-> "resize",
        newNumLeaves |-> newNumLeaves,
        newLastLeafSize |-> newNumBytes - (newNumLeaves - 1) * MaxBytesPerLeaf]

Gap == [kind |-> "gap"]

DataBegin(c, leafIndex) == MaxZeroSubtraction(c.beginByte, leafIndex * MaxBytesPerLeaf)

DataEnd(c, leafIndex) == Min({MaxBytesPerLeaf, c.endByte - leafIndex * MaxBytesPerLeaf})

\* The byte of source that goes to position i of a leaf.
SourceByte(c, leafIndex, i) == c.source[leafIndex * MaxBytesPerLeaf + i - c.beginByte]

\* writeBytes at a leaf that exists, with the growing of _traverseLeavesByByteIndices.
OnExistingLeafOfWrite(c, st, leafIndex, isRightBorderLeaf, id) ==
    LET begin == DataBegin(c, leafIndex)
        end   == DataEnd(c, leafIndex)
        grows == isRightBorderLeaf /\ st.nodes[id].size < end
        leaf  == IF grows THEN LeafResize(st.nodes[id], end) ELSE st.nodes[id]
        data  == [i \in 1..MaxBytesPerLeaf |->
                     IF begin < i /\ i <= end THEN SourceByte(c, leafIndex, i) ELSE leaf.data[i]]
        whole == begin = 0 /\ end = MaxBytesPerLeaf
        checked == Require(st, /\ c.endByte > leafIndex * MaxBytesPerLeaf
                               /\ isRightBorderLeaf => leafIndex = CeilDivision(c.endByte, MaxBytesPerLeaf) - 1
                               /\ whole \/ InValidArea(leaf, end))
    IN [Put(checked, id, Leaf(IF whole THEN MaxBytesPerLeaf ELSE leaf.size, data))
           EXCEPT !.grew = @ \/ grows]

\* _doReadBytes at a leaf: its part of the bytes asked for goes to target.
OnExistingLeafOfRead(c, st, leafIndex, isRightBorderLeaf, id) ==
    LET begin == DataBegin(c, leafIndex)
        end   == DataEnd(c, leafIndex)
        leaf  == st.nodes[id]
    IN [Require(st, /\ ~(isRightBorderLeaf /\ leaf.size < end)
                    /\ InValidArea(leaf, end))
           EXCEPT !.target = [k \in DOMAIN @ |->
               LET i == c.beginByte + k - leafIndex * MaxBytesPerLeaf
               IN IF begin < i /\ i <= end THEN leaf.data[i] ELSE @[k]]]

OnExistingLeaf(c, st, leafIndex, isRightBorderLeaf, id) ==
    CASE c.kind = "write"  -> OnExistingLeafOfWrite(c, st, leafIndex, isRightBorderLeaf, id)
      [] c.kind = "read"   -> OnExistingLeafOfRead(c, st, leafIndex, isRightBorderLeaf, id)
      [] c.kind = "resize" -> Put(st, id, LeafResize(st.nodes[id], c.newLastLeafSize))
      [] c.kind = "gap"    -> Require(st, FALSE)

\* writeBytes at a leaf that does not exist yet: zeroes up to where the write begins.
OnCreateLeafOfWrite(c, st, leafIndex) ==
    LET begin == DataBegin(c, leafIndex)
        end   == DataEnd(c, leafIndex)
        data  == [i \in 1..end |-> IF i <= begin THEN 0 ELSE SourceByte(c, leafIndex, i)]
        checked == Require(st, /\ c.endByte > leafIndex * MaxBytesPerLeaf
                               /\ leafIndex = c.beginByte \div MaxBytesPerLeaf \/ begin = 0
                               /\ \/ leafIndex = CeilDivision(c.endByte, MaxBytesPerLeaf) - 1
                                  \/ end = MaxBytesPerLeaf)
    IN [CreateNode(checked, NewLeaf(data)) EXCEPT !.grew = TRUE]

OnCreateLeaf(c, st, leafIndex) ==
    CASE c.kind = "write"  -> OnCreateLeafOfWrite(c, st, leafIndex)
      [] c.kind = "resize" -> CreateNode(st, NewLeaf([i \in 1..c.newLastLeafSize |-> 0]))
      [] OTHER             -> CreateNode(Require(st, FALSE), NewLeaf(Zeroes))

CreateMaxSizeLeaf(st) == CreateNode(st, NewLeaf(Zeroes))

\* How many children the right border node of that depth has in a tree of newNumLeaves leaves.
NeededChildrenForRightBorderNode(c, depth) ==
    LET neededNodesOnChildLevel == CeilDivision(c.newNumLeaves, MaxLeavesForTreeDepth(depth - 1))
        neededSiblings == CeilDivision(neededNodesOnChildLevel, MaxChildrenPerInnerNode)
    IN neededNodesOnChildLevel - (neededSiblings - 1) * MaxChildrenPerInnerNode

RECURSIVE RemoveSubtrees(_, _)
RemoveSubtrees(ns, ids) ==
    IF ids = <<>> THEN ns ELSE RemoveSubtrees(RemoveSubtree(ns, Last(ids)), Front(ids))

OnBacktrackFromSubtree(c, st, id) ==
    CASE c.kind = "resize" ->
           LET node   == st.nodes[id]
               needed == NeededChildrenForRightBorderNode(c, node.depth)
               cut    == SubSeq(node.children, needed + 1, Len(node.children))
           IN Put(Require([st EXCEPT !.nodes = RemoveSubtrees(@, cut)], needed <= Len(node.children)),
                  id, Inner(node.depth, SubSeq(node.children, 1, Min({needed, Len(node.children)}))))
      [] c.kind = "gap" -> Require(st, FALSE)
      [] OTHER -> st

-----------------------------------------------------------------------------
(* LeafTraverser.                                                          *)

\* DataInnerNode::addChild
AddChild(st, id, child) ==
    LET node == st.nodes[id]
    IN Put(Require(st, /\ Len(node.children) < MaxChildrenPerInnerNode
                       /\ st.nodes[child].depth = node.depth - 1),
           id, Inner(node.depth, Append(node.children, child)))

(***************************************************************************)
(* A window is the part of a subtree that a traversal visits: its leaves   *)
(* from begin to end - 1, where leaf 0 of the subtree is leaf offset of    *)
(* the blob.  An empty window at the right end only fills the subtree up.  *)
(***************************************************************************)
Window(begin, end, offset) == [begin |-> begin, end |-> end, offset |-> offset]

BeginChild(window, depth) == window.begin \div MaxLeavesForTreeDepth(depth - 1)

EndChild(window, depth) == CeilDivision(window.end, MaxLeavesForTreeDepth(depth - 1))

\* The part of a window that falls to a child of the node of that depth.
ChildWindow(window, depth, childIndex) ==
    LET leavesPerChild == MaxLeavesForTreeDepth(depth - 1)
        childOffset    == childIndex * leavesPerChild
    IN Window(Min({leavesPerChild, MaxZeroSubtraction(window.begin, childOffset)}),
              Min({leavesPerChild, window.end - childOffset}),
              window.offset + childOffset)

\* The callbacks for a child: those left of the window are made of gap leaves only.
CallbacksFor(c, window, depth, childIndex) ==
    IF childIndex >= BeginChild(window, depth) THEN c ELSE Gap

\* The node just created becomes the result, after the callback for its subtree.
FinishSubtree(c, st, window) ==
    IF window.end > window.begin
    THEN [OnBacktrackFromSubtree(c, st, st.new) EXCEPT !.new = st.new]
    ELSE st

RECURSIVE CreateNewSubtree(_, _, _, _, _)
\* _createNewSubtree; children are the ids of those created so far.
CreateNewSubtree(c, st, window, depth, children) ==
    IF depth = 0
    THEN IF window.begin = 0
         THEN OnCreateLeaf(c, Require(st, window.end = 1), window.offset)
         ELSE CreateMaxSizeLeaf(Require(st, window.begin = 1 /\ window.end = 1))
    ELSE IF Len(children) < EndChild(window, depth)
    THEN LET made == CreateNewSubtree(CallbacksFor(c, window, depth, Len(children)), st,
                                      ChildWindow(window, depth, Len(children)), depth - 1, <<>>)
         IN CreateNewSubtree(c, made, window, depth, Append(children, made.new))
    ELSE FinishSubtree(c, CreateNode(Require(st, /\ window.begin <= window.end
                                                 /\ window.end <= MaxLeavesForTreeDepth(depth)
                                                 /\ children # <<>>),
                                     Inner(depth, children)),
                       window)

AddNewChild(c, st, id, made) == AddChild(Require(made, c.kind # "read"), id, made.new)

\* An existing leaf: grown to full size if leaves follow it, then visited.
TraverseLeaf(c, st, id, window, isRightBorderNode, growLastLeaf) ==
    LET leaf  == st.nodes[id]
        grow  == growLastLeaf /\ leaf.size # MaxBytesPerLeaf
        checked == Require(st, /\ window.begin <= 1 /\ window.end <= 1
                               /\ grow => c.kind # "read")
        grown == IF grow THEN Put(checked, id, LeafResize(leaf, MaxBytesPerLeaf)) ELSE checked
    IN IF window.begin = 0 /\ window.end = 1
       THEN OnExistingLeaf(c, grown, window.offset, isRightBorderNode, id)
       ELSE grown

RECURSIVE TraverseExistingSubtree(_, _, _, _, _, _, _)
RECURSIVE TraverseChildren(_, _, _, _, _, _, _, _, _)

\* _traverseExistingSubtree, the loops over the existing and over the new children of id.
TraverseChildren(c, st, id, window, numChildren, childIndex, isLeftBorderOfTraversal, isRightBorderNode, growLastLeaf) ==
    LET node == st.nodes[id]
        endChild == EndChild(window, node.depth)
        isLastExistingChild == childIndex = numChildren - 1
        next ==
            IF childIndex < numChildren
            THEN TraverseExistingSubtree(c, st, node.children[childIndex + 1],
                     ChildWindow(window, node.depth, childIndex),
                     isLeftBorderOfTraversal /\ childIndex = BeginChild(window, node.depth),
                     isRightBorderNode /\ isLastExistingChild /\ numChildren = endChild,
                     (growLastLeaf \/ endChild > numChildren) /\ isLastExistingChild)
            ELSE AddNewChild(c, st, id,
                     CreateNewSubtree(CallbacksFor(c, window, node.depth, childIndex), st,
                                      ChildWindow(window, node.depth, childIndex), node.depth - 1, <<>>))
    IN IF childIndex >= endChild THEN st
       ELSE TraverseChildren(c, next, id, window, numChildren, childIndex + 1,
                             isLeftBorderOfTraversal, isRightBorderNode, growLastLeaf)

TraverseExistingSubtree(c, st, id, window, isLeftBorderOfTraversal, isRightBorderNode, growLastLeaf) ==
    IF IsLeaf(st.nodes[id])
    THEN TraverseLeaf(c, st, id, window, isRightBorderNode, growLastLeaf)
    ELSE LET depth          == st.nodes[id].depth
             numChildren    == Len(st.nodes[id].children)
             beginChild     == BeginChild(window, depth)
             endChild       == EndChild(window, depth)
             leavesPerChild == MaxLeavesForTreeDepth(depth - 1)
             checked == Require(st, /\ window.begin <= window.end
                                    /\ endChild <= MaxChildrenPerInnerNode
                                    /\ growLastLeaf => endChild >= numChildren
                                    /\ c.kind = "read" => endChild <= numChildren)
             \* Nothing to visit among the children there are: still fill up the last one.
             filled == IF isLeftBorderOfTraversal /\ beginChild >= numChildren
                       THEN TraverseExistingSubtree(Gap, checked, Last(st.nodes[id].children),
                                Window(leavesPerChild, leavesPerChild, (numChildren - 1) * leavesPerChild),
                                TRUE, FALSE, TRUE)
                       ELSE checked
             traversed == TraverseChildren(c, filled, id, window, numChildren, Min({beginChild, numChildren}),
                                           isLeftBorderOfTraversal, isRightBorderNode, growLastLeaf)
         IN IF window.end > window.begin THEN OnBacktrackFromSubtree(c, traversed, id) ELSE traversed

\* The root moves into a new child; its block becomes the new child's parent.
IncreaseTreeDepth(st) ==
    LET copied == CreateNode(st, st.nodes[RootId])
    IN Put(copied, RootId, Inner(st.nodes[RootId].depth + 1, <<copied.new>>))

RECURSIVE OnlyChildren(_, _)
OnlyChildren(ns, id) ==
    IF IsLeaf(ns[id]) \/ Len(ns[id].children) # 1 THEN <<id>>
    ELSE <<id>> \o OnlyChildren(ns, ns[id].children[1])

\* The root takes over the node at the end of the chain of only children below it, whose blocks go.
WhileRootHasOnlyOneChildReplaceRootWithItsChild(st, readOnlyTraversal) ==
    LET chain == OnlyChildren(st.nodes, RootId)
        below == ToSet(Tail(chain))
    IN IF below = {} THEN st
       ELSE Put(Require([st EXCEPT !.nodes = Without(@, below)], ~readOnlyTraversal),
                RootId, st.nodes[Last(chain)])

RECURSIVE TraverseAndUpdateRoot(_, _, _, _, _)
TraverseAndUpdateRoot(c, st, beginIndex, endIndex, isLeftBorderOfTraversal) ==
    LET root == st.nodes[RootId]
        maxLeavesForDepth == MaxLeavesForTreeDepth(root.depth)
        increaseTreeDepth == endIndex > maxLeavesForDepth
        checked == Require(st, beginIndex <= endIndex /\ (c.kind = "read" => ~increaseTreeDepth))
        filled  == IF increaseTreeDepth /\ root.size # MaxBytesPerLeaf
                   THEN Put(checked, RootId, LeafResize(root, MaxBytesPerLeaf)) ELSE checked
        visited == IF IsLeaf(root)
                   THEN IF beginIndex = 0 /\ endIndex >= 1
                        THEN OnExistingLeaf(c, filled, 0, endIndex = 1, RootId) ELSE filled
                   ELSE TraverseExistingSubtree(c, checked, RootId,
                            Window(Min({beginIndex, maxLeavesForDepth}), Min({endIndex, maxLeavesForDepth}), 0),
                            isLeftBorderOfTraversal, ~increaseTreeDepth, increaseTreeDepth)
    IN IF increaseTreeDepth
       THEN TraverseAndUpdateRoot(c, IncreaseTreeDepth(visited),
                                  Max({beginIndex, maxLeavesForDepth}), endIndex, FALSE)
       ELSE WhileRootHasOnlyOneChildReplaceRootWithItsChild(visited, c.kind = "read")

-----------------------------------------------------------------------------
(* DataTree.                                                               *)

StartOfTraversal(target) ==
    [nodes |-> nodes, new |-> None, grew |-> FALSE, target |-> target, asserts |-> TRUE]

TraverseLeavesByByteIndices(c, target) ==
    TraverseAndUpdateRoot(c, StartOfTraversal(target), c.beginByte \div MaxBytesPerLeaf,
                          CeilDivision(c.endByte, MaxBytesPerLeaf), TRUE)

SizeCache(numLeaves, numBytes) == [numLeaves |-> numLeaves, numBytes |-> numBytes]

RECURSIVE ComputeSizeCache(_, _)
ComputeSizeCache(ns, id) ==
    IF IsLeaf(ns[id]) THEN SizeCache(1, ns[id].size)
    ELSE LET numLeavesInLeftChildren ==
                 (Len(ns[id].children) - 1) * MaxLeavesForTreeDepth(ns[id].depth - 1)
             right == ComputeSizeCache(ns, Last(ns[id].children))
         IN SizeCache(numLeavesInLeftChildren + right.numLeaves,
                      numLeavesInLeftChildren * MaxBytesPerLeaf + right.numBytes)

GetOrComputeSizeCache == IF sizeCache = None THEN ComputeSizeCache(nodes, RootId) ELSE sizeCache

\* DataTree::numNodes: every level is as small as it can be.
RECURSIVE NumNodesUpTo(_, _)
NumNodesUpTo(numNodesCurrentLevel, levelsAbove) ==
    IF levelsAbove = 0 THEN numNodesCurrentLevel
    ELSE numNodesCurrentLevel
         + NumNodesUpTo(CeilDivision(numNodesCurrentLevel, MaxChildrenPerInnerNode), levelsAbove - 1)

NumNodes == NumNodesUpTo(GetOrComputeSizeCache.numLeaves, nodes[RootId].depth)

\* _doReadBytes
DoReadBytes(offset, count) ==
    LET target == [k \in 1..count |-> None]
    IN IF count = 0 THEN StartOfTraversal(target)
       ELSE TraverseLeavesByByteIndices(Read(offset, count), target)

\* tryReadBytes: as much of the range as the blob has
TryReadBytes(offset, count) ==
    DoReadBytes(offset, Max({0, Min({count, GetOrComputeSizeCache.numBytes - offset})}))

\* readBytes throws when it is asked for bytes outside of the blob, or when the tryReadBytes
\* in it, which ends in end, comes back with fewer than it asked for
ReadBytesThrows(offset, count, end) ==
    LET size == GetOrComputeSizeCache.numBytes IN
    offset > size \/ offset + count > size \/ Len(end.target) # count

ReadAllBytes == DoReadBytes(0, GetOrComputeSizeCache.numBytes)

\* What a file holds after bytes are written at an offset: zeroes fill the gap before it.
Overlay(bytes, offset, source) ==
    IF source = <<>> THEN bytes
    ELSE [i \in 1..Max({Len(bytes), offset + Len(source)}) |->
             IF offset < i /\ i <= offset + Len(source) THEN source[i - offset]
             ELSE IF i <= Len(bytes) THEN bytes[i] ELSE 0]

\* writeBytes
WriteBytes(offset, source) ==
    /\ content # None
    /\ content' = Overlay(content, offset, source)
    /\ IF source = <<>> THEN UNCHANGED <<nodes, sizeCache, assertsHeld>>
       ELSE LET c   == Write(offset, source)
                end == TraverseLeavesByByteIndices(c, <<>>)
            IN /\ nodes' = end.nodes
               /\ sizeCache' = IF end.grew
                               THEN SizeCache(CeilDivision(c.endByte, MaxBytesPerLeaf), c.endByte)
                               ELSE sizeCache
               /\ assertsHeld' = (assertsHeld /\ end.asserts)

\* resizeNumBytes
ResizeNumBytes(newNumBytes) ==
    /\ content # None
    /\ content' = [i \in 1..newNumBytes |-> IF i <= Len(content) THEN content[i] ELSE 0]
    /\ LET c   == Resize(newNumBytes)
           end == TraverseAndUpdateRoot(c, StartOfTraversal(<<>>), c.newNumLeaves - 1, c.newNumLeaves, TRUE)
       IN /\ nodes' = end.nodes
          /\ sizeCache' = SizeCache(c.newNumLeaves, newNumBytes)
          /\ assertsHeld' = (assertsHeld /\ end.asserts)

\* numBytes, numLeaves, numNodes and every read fill the size cache.
ReadSize ==
    /\ content # None
    /\ sizeCache' = GetOrComputeSizeCache
    /\ UNCHANGED <<nodes, content, assertsHeld>>

\* DataTreeStore::load: the last user let go of the DataTree, the next one gets a new object.
Load ==
    /\ content # None
    /\ sizeCache' = None
    /\ UNCHANGED <<nodes, content, assertsHeld>>

\* DataTreeStore::remove
RemoveTree ==
    /\ content # None
    /\ nodes' = RemoveSubtree(nodes, RootId)
    /\ sizeCache' = None
    /\ content' = None
    /\ UNCHANGED assertsHeld

\* DataTreeStore::createNewTree
CreateNewTree ==
    /\ content = None
    /\ nodes' = (RootId :> NewLeaf(<<>>)) @@ nodes
    /\ sizeCache' = None
    /\ content' = <<>>
    /\ UNCHANGED assertsHeld

Init ==
    /\ nodes = <<>>
    /\ sizeCache = None
    /\ content = None
    /\ assertsHeld = TRUE

\* The bytes of a write: ones and zeroes in turn, so that a byte put in a neighbour's place shows.
Source(count) == [k \in 1..count |-> k % 2]

Next ==
    \/ \E offset \in 0..MaxBytes : \E count \in 0..(MaxBytes - offset) :
          WriteBytes(offset, Source(count))
    \/ \E newNumBytes \in 0..MaxBytes : ResizeNumBytes(newNumBytes)
    \/ ReadSize
    \/ Load
    \/ RemoveTree
    \/ CreateNewTree

Spec == Init /\ [][Next]_vars

-----------------------------------------------------------------------------

NodeType == [depth : {0}, size : 0..MaxBytesPerLeaf, data : [1..MaxBytesPerLeaf -> Bytes]]
InnerOK(node) ==
    /\ DOMAIN node = {"depth", "children"}
    /\ Len(node.children) \in 1..MaxChildrenPerInnerNode
    /\ ToSet(node.children) \subseteq DOMAIN nodes
    /\ \A child \in ToSet(node.children) : nodes[child].depth = node.depth - 1

\* The blocks of the node store are leaves no larger than a block and inner nodes of 1 to
\* MaxChildrenPerInnerNode children one level below (what the ASSERTs of DataLeafNode and
\* DataInnerNode require); the cached size and the blob's bytes are of their types.
TypeOK ==
    /\ DOMAIN nodes \subseteq 1..MaxNodes
    /\ \A id \in DOMAIN nodes : nodes[id].depth > 0 => InnerOK(nodes[id])
    /\ \A id \in DOMAIN nodes : nodes[id].depth = 0 => nodes[id] \in NodeType
    /\ sizeCache # None => sizeCache \in [numLeaves : Nat \ {0}, numBytes : 0..MaxBytes]
    /\ content # None => Len(content) <= MaxBytes /\ ToSet(content) \subseteq Bytes
    /\ assertsHeld \in BOOLEAN

\* Whatever writes and resizes came before, reading any part of the blob through the tree
\* returns the bytes last written there, zeroes where a write or a resize left a gap, and
\* nothing past the end (writeBytes, resizeNumBytes, tryReadBytes); readBytes throws exactly
\* for ranges that leave the blob, and readAllBytes returns all of it.
ReadsReturnWhatWasWritten ==
    content # None =>
        /\ ReadAllBytes.target = content /\ ReadAllBytes.asserts
        /\ \A offset \in 0..MaxBytes : \A count \in 0..(MaxBytes + 1 - offset) :
              LET end == TryReadBytes(offset, count)
              IN /\ end.target = SubSeq(content, offset + 1, Min({Len(content), offset + count}))
                 /\ end.asserts
                 /\ ReadBytesThrows(offset, count, end) <=> offset + count > Len(content)

RECURSIVE IsFull(_)
IsFull(id) ==
    IF IsLeaf(nodes[id]) THEN nodes[id].size = MaxBytesPerLeaf
    ELSE /\ Len(nodes[id].children) = MaxChildrenPerInnerNode
         /\ \A child \in ToSet(nodes[id].children) : IsFull(child)

\* The tree is balanced to the left: every child but the last of an inner node is full, and the
\* root has more than one child.  The traversal finds leaves, and _computeSizeCache finds the
\* size, by this arithmetic alone.
TreeIsLeftMaxData ==
    /\ \A id \in DOMAIN nodes : ~IsLeaf(nodes[id]) =>
          \A child \in ToSet(Front(nodes[id].children)) : IsFull(child)
    /\ content # None => IsLeaf(nodes[RootId]) \/ Len(nodes[RootId].children) > 1

\* The node store holds the blocks of the blob's tree and no others, as many as
\* DataTree::numNodes counts: growing, shrinking and removing a blob leaks no block and
\* removes none that is still used.
NoBlockLeaks ==
    IF content = None THEN DOMAIN nodes = {}
    ELSE /\ DOMAIN nodes = SubtreeIds(nodes, RootId)
         /\ Cardinality(DOMAIN nodes) = NumNodes

\* A size cached by an earlier call is the size the tree has now: every call that grows or
\* shrinks the blob brings _sizeCache up to date.
CachedSizeIsCurrent ==
    content # None => /\ GetOrComputeSizeCache = ComputeSizeCache(nodes, RootId)
                      /\ GetOrComputeSizeCache.numBytes = Len(content)

\* No ASSERT of the traversal, of its callbacks or of the nodes ever fails.
AssertsHold == assertsHeld

\* The tree is the blob: reads return what was written, the tree keeps its shape, no block is
\* leaked or lost, the cached size is current and no ASSERT fails, after any writes, resizes and reloads.
TreeIsTheBlob ==
    TypeOK /\ ReadsReturnWhatWasWritten /\ TreeIsLeftMaxData /\ NoBlockLeaks /\ CachedSizeIsCurrent /\ AssertsHold
=============================================================================
