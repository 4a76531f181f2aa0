--------------------------- MODULE CryDeviceProofs ---------------------------
(***************************************************************************)
(* Proofs about CryDevice: the directory tree stays whole, open files stay *)
(* safe, nodes stay linked and no call loses its file, for any number of   *)
(* blobs, names, descriptors and calls.                                    *)
(*                                                                         *)
(* While a call runs, the entries, the parent pointers and the blobs do    *)
(* not agree.  The invariant describes the tree as it will be when the     *)
(* call is done: Nodes leaves out a blob that has no entry yet or any      *)
(* more, and Up takes a moved blob's new directory for its parent.         *)
(***************************************************************************)
EXTENDS CryDevice, FiniteSetTheorems, TLAPS

(* The tree as a set D of nodes with their parents U: every node can be    *)
(* reached from the root.                                                  *)
Rooted(D, U) ==
    \A S \in SUBSET D :
       RootBlobId \in S /\ (\A i \in D : U[i] \in S => i \in S) => S = D

\* A node and the ones above it.
Above(D, U, i) ==
    {a \in D : \A S \in SUBSET D :
       i \in S /\ (\A b \in S : U[b] \in S \cup {None}) => a \in S}

Step(o) == IF o.call = "none" THEN "none" ELSE o.step

Nodes(bs, o) == DOMAIN bs \ (IF Step(o) \in {"add", "removeBlob"} THEN {o.id} ELSE {})

Up(bs, o) ==
    [i \in Nodes(bs, o) |->
       IF Step(o) \in {"removeOld", "setParent"} /\ i = o.id THEN o.to ELSE bs[i].parent]

\* Every node is reachable, and its directory has an entry for it.
TreeShape(bs, o) ==
    /\ RootBlobId \in Nodes(bs, o) /\ bs[RootBlobId].parent = None
    /\ \A i \in Nodes(bs, o) \ {RootBlobId} :
         /\ Up(bs, o)[i] \in Nodes(bs, o)
         /\ \E e \in bs[Up(bs, o)[i]].entries : e.id = i
    /\ Rooted(Nodes(bs, o), Up(bs, o))

\* Every entry is the one of a node, and names and ids are unique.
EntryShape(bs, o) ==
    /\ \A d \in DOMAIN bs : \A e \in bs[d].entries :
         /\ bs[d].type = "DIR"
         /\ e.id \in Nodes(bs, o) \ {RootBlobId}
         /\ e.type = bs[e.id].type
         /\ d = Up(bs, o)[e.id] \/ (Step(o) = "removeOld" /\ e.id = o.id /\ d = o.dir)
    /\ \A d \in DOMAIN bs : \A e1, e2 \in bs[d].entries :
         e1.name = e2.name \/ e1.id = e2.id => e1 = e2

\* What the call in progress relies on at each of its steps.
CallFacts(bs, o, n) ==
    /\ Step(o) = "add" =>
         /\ o.call \in DOMAIN TypeOfNew
         /\ o.id \in DOMAIN bs \ {RootBlobId} /\ o.dir \in Nodes(bs, o)
         /\ bs[o.id] = [type |-> TypeOfNew[o.call], parent |-> o.dir, entries |-> {}]
         /\ bs[o.dir].type = "DIR"
         /\ FindByName(bs[o.dir].entries, o.name) = {}
         /\ o.call = "createAndOpenFile" => n < MaxOpens
    /\ Step(o) = "removeBlob" =>
         /\ o.call = "remove"
         /\ o.id \in DOMAIN bs \ {RootBlobId} /\ o.dir \in Nodes(bs, o)
         /\ bs[o.id].entries = {}
    /\ Step(o) = "overwrite" =>
         /\ o.call = "rename"
         /\ o.dir \in DOMAIN bs /\ o.to \in DOMAIN bs
         /\ o.victim \in DOMAIN bs \ {o.dir, o.to, o.id, RootBlobId}
         /\ bs[o.victim].entries = {}
         /\ o.dir # o.to => o.id \notin Above(DOMAIN bs, Up(bs, o), o.to)
         /\ \E e \in bs[o.dir].entries, v \in bs[o.to].entries :
              /\ e.id = o.id /\ v.id = o.victim /\ v.name = o.name
              /\ AllowedOverwrite(v.type, e.type)
    /\ Step(o) \in {"removeOld", "setParent"} =>
         /\ o.call = "rename" /\ o.dir # o.to
         /\ o.id \in DOMAIN bs \ {RootBlobId} /\ o.dir \in DOMAIN bs /\ o.to \in DOMAIN bs
         /\ bs[o.id].parent = o.dir
    /\ Step(o) = "removeOld" => \E e \in bs[o.dir].entries : e.id = o.id

\* An open file is a node, and the directory it was opened in is there.
FileFacts(bs, o, fs) ==
    \A f \in DOMAIN fs :
       fs[f].id \in Nodes(bs, o) \ {RootBlobId} /\ fs[f].parent \in DOMAIN bs

DevInv ==
    /\ TypeOK
    /\ TreeShape(blobs, op)
    /\ EntryShape(blobs, op)
    /\ CallFacts(blobs, op, opened)
    /\ FileFacts(blobs, op, openFiles)

-----------------------------------------------------------------------------
(* Trees *)

\* A new node below an old one is reachable.
LEMMA RootedAdd ==
    ASSUME NEW D, NEW U, Rooted(D, U), NEW i, i \notin D, RootBlobId \in D,
           NEW W, \A j \in D : W[j] = U[j], W[i] \in D
    PROVE  Rooted(D \cup {i}, W)
<1> SUFFICES ASSUME NEW S \in SUBSET (D \cup {i}), RootBlobId \in S,
                    \A j \in D \cup {i} : W[j] \in S => j \in S
             PROVE  S = D \cup {i}
  BY Zenon DEF Rooted
<1>1. S \cap D \in SUBSET D /\ RootBlobId \in S \cap D
  BY Zenon
<1>2. \A j \in D : U[j] \in S \cap D => j \in S \cap D
  BY Zenon
<1>3. S \cap D = D
  BY <1>1, <1>2, Zenon DEF Rooted
<1> QED
  BY <1>3, Zenon

\* The other nodes do not need a node that has no children.
LEMMA RootedRemove ==
    ASSUME NEW D, NEW U, Rooted(D, U), NEW v \in D, v # RootBlobId,
           \A j \in D : U[j] # v,
           NEW W, \A j \in D \ {v} : W[j] = U[j]
    PROVE  Rooted(D \ {v}, W)
<1> SUFFICES ASSUME NEW S \in SUBSET (D \ {v}), RootBlobId \in S,
                    \A j \in D \ {v} : W[j] \in S => j \in S
             PROVE  S = D \ {v}
  BY Zenon DEF Rooted
<1>1. S \cup {v} \in SUBSET D /\ RootBlobId \in S \cup {v}
  BY Zenon
<1>2. \A j \in D : U[j] \in S \cup {v} => j \in S \cup {v}
  BY Zenon
<1>3. S \cup {v} = D
  BY <1>1, <1>2, Zenon DEF Rooted
<1> QED
  BY <1>3, Zenon

\* Reachability depends on the parents of the nodes only.
LEMMA RootedSame ==
    ASSUME NEW D, NEW U, Rooted(D, U), NEW W, \A j \in D : W[j] = U[j]
    PROVE  Rooted(D, W)
BY Zenon DEF Rooted

\* No node is its own parent.
LEMMA NotOwnParent ==
    ASSUME NEW D, NEW U, Rooted(D, U), NEW i \in D, i # RootBlobId, RootBlobId \in D
    PROVE  U[i] # i
<1> SUFFICES ASSUME U[i] = i PROVE FALSE
  BY Zenon
<1>1. D \ {i} \in SUBSET D /\ RootBlobId \in D \ {i}
  BY Zenon
<1>2. \A j \in D : U[j] \in D \ {i} => j \in D \ {i}
  BY Zenon
<1>3. D \ {i} = D
  BY <1>1, <1>2, Zenon DEF Rooted
<1> QED
  BY <1>3, Zenon

\* A node that is moved to a directory that is not below it stays reachable,
\* and so does every other node.
LEMMA RootedMove ==
    ASSUME NEW D, NEW U, Rooted(D, U), NEW e \in D, NEW t \in D,
           e # RootBlobId, RootBlobId \in D, None \notin D,
           e \notin Above(D, U, t),
           NEW W, W[e] = t, \A j \in D \ {e} : W[j] = U[j]
    PROVE  Rooted(D, W)
<1> SUFFICES ASSUME NEW S \in SUBSET D, RootBlobId \in S,
                    \A j \in D : W[j] \in S => j \in S
             PROVE  S = D
  BY Zenon DEF Rooted
<1> DEFINE T == {x \in D : e \notin Above(D, U, x) => x \in S}
<1>1. ASSUME NEW j \in D, U[j] \in D
      PROVE  Above(D, U, U[j]) \subseteq Above(D, U, j)
  <2> SUFFICES ASSUME NEW a \in Above(D, U, U[j]), NEW R \in SUBSET D, j \in R,
                      \A b \in R : U[b] \in R \cup {None}
               PROVE  a \in R
    BY Zenon DEF Above
  <2>1. U[j] \in R
    BY <1>1, Zenon
  <2> QED
    BY <2>1, Zenon DEF Above
<1>2. \A x \in D : x \in Above(D, U, x)
  BY Zenon DEF Above
<1>3. RootBlobId \in T /\ T \in SUBSET D
  BY Zenon
<1>4. ASSUME NEW j \in D, U[j] \in T
      PROVE  j \in T
  <2> SUFFICES ASSUME e \notin Above(D, U, j) PROVE j \in S
    BY Zenon
  <2>1. U[j] \in S
    BY <1>1, <1>4, Zenon
  <2>2. j # e
    BY <1>2, Zenon
  <2> QED
    BY <2>1, <2>2, Zenon
<1>5. T = D
  BY <1>3, <1>4, Zenon DEF Rooted
<1>6. e \in S
  BY <1>5, Zenon
<1>7. \A j \in D : U[j] \in S => j \in S
  BY <1>6, Zenon
<1> QED
  BY <1>7, Zenon DEF Rooted

-----------------------------------------------------------------------------
(* What the updates of the model do *)

LEMMA SetEntriesView ==
    ASSUME NEW bs, \A i \in DOMAIN bs : bs[i] \in Blob, NEW d \in DOMAIN bs, NEW es
    PROVE  LET ws == SetEntries(bs, d, es) IN
           /\ DOMAIN ws = DOMAIN bs
           /\ \A i \in DOMAIN bs :
                /\ ws[i].type = bs[i].type /\ ws[i].parent = bs[i].parent
                /\ ws[i].entries = IF i = d THEN es ELSE bs[i].entries
                /\ es \in SUBSET DirEntry => ws[i] \in Blob
BY Zenon DEF SetEntries, Blob

LEMMA RemoveView ==
    ASSUME NEW bs, NEW v
    PROVE  LET ws == RemoveFromStore(bs, v) IN
           /\ DOMAIN ws = DOMAIN bs \ {v}
           /\ \A i \in DOMAIN ws : ws[i] = bs[i]
BY Zenon DEF RemoveFromStore, Restrict

LEMMA PutView ==
    ASSUME NEW f, NEW x, NEW y
    PROVE  LET g == Put(f, x, y) IN
           /\ DOMAIN g = DOMAIN f \cup {x}
           /\ \A i \in DOMAIN f \ {x} : g[i] = f[i]
           /\ g[x] = y
BY Zenon DEF Put

LEMMA InitInv == Init => DevInv
<1> SUFFICES ASSUME Init PROVE DevInv
  BY Zenon
<1>1. /\ DOMAIN blobs = {RootBlobId}
      /\ blobs[RootBlobId] = [type |-> "DIR", parent |-> None, entries |-> {}]
  BY Zenon DEF Init
<1>2. Step(op) = "none" /\ op = Idle
  BY Zenon DEF Init, Step, Idle
<1>3. Nodes(blobs, op) = {RootBlobId} /\ Up(blobs, op)[RootBlobId] = None
  BY <1>1, <1>2 DEF Nodes, Up
<1>4. DOMAIN openFiles = {}
  BY DEF Init
<1>5. TypeOK
  BY <1>1, <1>2, <1>4, DeviceAssumption DEF Init, TypeOK, Blob, EntryTypes, DirEntry
<1>6. TreeShape(blobs, op)
  BY <1>1, <1>3 DEF TreeShape, Rooted
<1>7. EntryShape(blobs, op) /\ CallFacts(blobs, op, opened) /\ FileFacts(blobs, op, openFiles)
  BY <1>1, <1>2, <1>4 DEF EntryShape, CallFacts, FileFacts
<1> QED
  BY <1>5, <1>6, <1>7, Zenon DEF DevInv

\* While no call runs, every blob is a node under its parent.
LEMMA IdleView ==
    ASSUME TypeOK
    PROVE  /\ op = Idle => Step(op) = "none"
           /\ op # Idle => op \in Call /\ Step(op) = op.step /\ op.call # "none"
BY DEF TypeOK, Call, Calls, Idle, Step

-----------------------------------------------------------------------------
(* Calls on open files change neither the tree nor the call in progress *)

\* A step that leaves the tree alone has to keep the open files in order only.
LEMMA FilesOnly ==
    ASSUME DevInv, UNCHANGED <<blobs, op>>, TypeOK',
           opened' = opened \/ (op.call = "createAndOpenFile" => opened' < MaxOpens),
           FileFacts(blobs, op, openFiles')
    PROVE  DevInv'
<1>1. TreeShape(blobs, op)' /\ EntryShape(blobs, op)' /\ FileFacts(blobs, op, openFiles)'
  BY Zenon DEF DevInv
<1>2. CallFacts(blobs, op, opened)'
  BY Zenon DEF DevInv, CallFacts
<1> QED
  BY <1>1, <1>2, Zenon DEF DevInv

LEMMA OpenStep ==
    ASSUME DevInv, Open
    PROVE  DevInv'
<1> USE DeviceAssumption
<1>1. PICK d \in LoadableDirs : \E e \in Entries(d) :
         /\ e.type = "FILE" /\ e.id \in LoadableBlobs
         /\ ~PathLocked(e.id) /\ ~MutexHeld(d)
         /\ AddOpenFile(e.id, d)
  BY Zenon DEF Open
<1>2. PICK e \in Entries(d) : AddOpenFile(e.id, d)
  BY <1>1, Zenon
<1>3. d \in DOMAIN blobs
  BY Zenon DEF LoadableDirs, LoadableBlobs
<1>4. e.id \in Nodes(blobs, op) \ {RootBlobId} /\ e.id \in BlockIds /\ d \in BlockIds
  BY <1>3, Zenon DEF DevInv, EntryShape, Entries, TypeOK, Nodes
<1>5. opened \in Nat /\ opened + 1 \in 1..MaxOpens /\ opened' = opened + 1
  BY <1>2 DEF Open, AddOpenFile, DevInv, TypeOK
<1>6. op.call = "createAndOpenFile" => opened' < MaxOpens
  BY <1>5 DEF Open
<1> DEFINE new == [id |-> e.id, parent |-> d, refcount |-> 0, closing |-> FALSE]
<1>7. /\ DOMAIN openFiles' = DOMAIN openFiles \cup {opened + 1}
      /\ \A f \in DOMAIN openFiles \ {opened + 1} : openFiles'[f] = openFiles[f]
      /\ openFiles'[opened + 1] = new
  BY <1>2, Zenon DEF AddOpenFile, Put
<1>8. new \in OpenFile
  BY <1>4 DEF OpenFile
<1>9. TypeOK'
  BY <1>5, <1>7, <1>8 DEF TypeOK, DevInv, Open
<1>10. FileFacts(blobs, op, openFiles')
  BY <1>3, <1>4, <1>7 DEF FileFacts, DevInv
<1> QED
  BY <1>6, <1>9, <1>10, FilesOnly, Zenon DEF Open

LEMMA DescriptorSteps ==
    ASSUME DevInv, NEW f \in DOMAIN openFiles,
           BeginCall(f) \/ EndCall(f) \/ BeginClose(f) \/ EndClose(f)
    PROVE  DevInv'
<1> USE DeviceAssumption
<1>1. UNCHANGED <<blobs, op, opened>>
  BY Zenon DEF BeginCall, EndCall, BeginClose, EndClose
<1>2. openFiles[f] \in OpenFile
  BY Zenon DEF DevInv, TypeOK
<1>3. /\ DOMAIN openFiles' \subseteq DOMAIN openFiles
      /\ \A g \in DOMAIN openFiles' :
           /\ openFiles'[g] \in OpenFile
           /\ openFiles'[g].id = openFiles[g].id /\ openFiles'[g].parent = openFiles[g].parent
  <2>1. CASE BeginCall(f)
    BY <1>2, <2>1 DEF BeginCall, OpenFile, DevInv, TypeOK
  <2>2. CASE EndCall(f)
    BY <1>2, <2>2 DEF EndCall, OpenFile, DevInv, TypeOK
  <2>3. CASE BeginClose(f)
    BY <1>2, <2>3, Zenon DEF BeginClose, OpenFile, DevInv, TypeOK
  <2>4. CASE EndClose(f)
    BY <1>2, <2>4, Zenon DEF EndClose, Restrict, DevInv, TypeOK
  <2> QED
    BY <2>1, <2>2, <2>3, <2>4, Zenon
<1>4. TypeOK'
  BY <1>1, <1>3, Zenon DEF DevInv, TypeOK
<1>5. FileFacts(blobs, op, openFiles')
  BY <1>3, Zenon DEF FileFacts, DevInv
<1> QED
  BY <1>1, <1>4, <1>5, FilesOnly, Zenon

-----------------------------------------------------------------------------
(* createAndOpenFile, createDir, createSymlink *)

\* While no call runs, and until a rename has removed what it overwrites,
\* every blob is a node under its parent.
LEMMA SettledTree ==
    ASSUME DevInv, Step(op) \in {"none", "overwrite"}
    PROVE  /\ Nodes(blobs, op) = DOMAIN blobs
           /\ \A i \in DOMAIN blobs : Up(blobs, op)[i] = blobs[i].parent
           /\ Rooted(DOMAIN blobs, Up(blobs, op))
           /\ RootBlobId \in DOMAIN blobs /\ blobs[RootBlobId].parent = None
           /\ \A i \in DOMAIN blobs \ {RootBlobId} :
                /\ blobs[i].parent \in DOMAIN blobs
                /\ \E e \in blobs[blobs[i].parent].entries : e.id = i
           /\ \A d \in DOMAIN blobs : \A e \in blobs[d].entries :
                /\ blobs[d].type = "DIR"
                /\ e.id \in DOMAIN blobs \ {RootBlobId}
                /\ e.type = blobs[e.id].type
                /\ d = blobs[e.id].parent
<1>1. Nodes(blobs, op) = DOMAIN blobs
  BY Zenon DEF Nodes
<1>2. \A i \in DOMAIN blobs : Up(blobs, op)[i] = blobs[i].parent
  BY <1>1, Zenon DEF Up
<1> QED
  BY <1>1, <1>2 DEF DevInv, TreeShape, EntryShape

LEMMA IdleTree ==
    ASSUME DevInv, op = Idle
    PROVE  /\ Step(op) = "none"
           /\ Nodes(blobs, op) = DOMAIN blobs
           /\ \A i \in DOMAIN blobs : Up(blobs, op)[i] = blobs[i].parent
           /\ Rooted(DOMAIN blobs, Up(blobs, op))
           /\ RootBlobId \in DOMAIN blobs /\ blobs[RootBlobId].parent = None
           /\ \A i \in DOMAIN blobs \ {RootBlobId} :
                /\ blobs[i].parent \in DOMAIN blobs
                /\ \E e \in blobs[blobs[i].parent].entries : e.id = i
           /\ \A d \in DOMAIN blobs : \A e \in blobs[d].entries :
                /\ blobs[d].type = "DIR"
                /\ e.id \in DOMAIN blobs \ {RootBlobId}
                /\ e.type = blobs[e.id].type
                /\ d = blobs[e.id].parent
<1>1. Step(op) = "none"
  BY IdleView, Zenon DEF DevInv
<1> QED
  BY <1>1, SettledTree, Zenon

LEMMA CreateBlobStep ==
    ASSUME DevInv, NEW call \in DOMAIN TypeOfNew, CreateBlob(call)
    PROVE  DevInv'
<1> USE DeviceAssumption
<1>1. PICK d \in LoadableDirs, n \in Names, i \in BlockIds \ DOMAIN blobs :
         /\ KernelCreates(d, n)
         /\ blobs' = Put(blobs, i, [type |-> TypeOfNew[call], parent |-> d, entries |-> {}])
         /\ op' = [call |-> call, step |-> "add", dir |-> d, id |-> i, to |-> d, name |-> n, victim |-> None]
  BY Zenon DEF CreateBlob
<1>2. d \in DOMAIN blobs /\ blobs[d].type = "DIR" /\ DOMAIN blobs \subseteq BlockIds
  BY Zenon DEF LoadableDirs, LoadableBlobs, DevInv, TypeOK
<1>3. op = Idle /\ UNCHANGED <<openFiles, opened>>
  BY Zenon DEF CreateBlob
<1>4. call \in Calls /\ TypeOfNew[call] \in EntryTypes
  BY DEF TypeOfNew, Calls, EntryTypes
<1>5. /\ DOMAIN blobs' = DOMAIN blobs \cup {i}
      /\ \A j \in DOMAIN blobs : blobs'[j] = blobs[j]
      /\ blobs'[i] = [type |-> TypeOfNew[call], parent |-> d, entries |-> {}]
  BY <1>1, Zenon DEF Put
<1>6. op' \in Call /\ Step(op') = "add" /\ op'.id = i /\ op'.dir = d /\ op'.call = call /\ op'.name = n
  BY <1>1, <1>2, <1>4, Zenon DEF Call, Steps, Step, Calls
<1>7. Nodes(blobs', op') = DOMAIN blobs
  BY <1>5, <1>6, Zenon DEF Nodes
<1>8. \A j \in DOMAIN blobs : Up(blobs', op')[j] = blobs[j].parent
  BY <1>5, <1>6, <1>7, Zenon DEF Up
<1>9. TypeOK'
  <2>1. blobs'[i] \in Blob
    BY <1>2, <1>4, <1>5 DEF Blob
  <2> QED
    BY <1>2, <1>3, <1>5, <1>6, <2>1, Zenon DEF DevInv, TypeOK
<1>10. TreeShape(blobs', op')
  <2>1. Rooted(DOMAIN blobs, Up(blobs', op'))
    BY <1>3, <1>8, IdleTree, RootedSame DEF DevInv, TreeShape
  <2>2. blobs'[RootBlobId].parent = None
    BY <1>3, <1>5, IdleTree, Zenon DEF DevInv, TreeShape
  <2> QED
    BY <1>3, <1>5, <1>7, <1>8, <2>1, <2>2, IdleTree DEF TreeShape
<1>11. EntryShape(blobs', op')
  <2>1. \A c \in DOMAIN blobs' : (c \in DOMAIN blobs /\ blobs'[c] = blobs[c]) \/ blobs'[c].entries = {}
    BY <1>5
  <2>2. \A c \in DOMAIN blobs : \A e1, e2 \in blobs[c].entries :
           e1.name = e2.name \/ e1.id = e2.id => e1 = e2
    BY Zenon DEF DevInv, EntryShape
  <2> QED
    BY <1>3, <1>5, <1>7, <1>8, <2>1, <2>2, IdleTree DEF EntryShape
<1>12. CallFacts(blobs', op', opened')
  <2>1. FindByName(blobs'[d].entries, n) = {}
    BY <1>1, <1>2, <1>5, Zenon DEF KernelCreates, Entries
  <2>2. i # RootBlobId
    BY <1>3, IdleTree, Zenon
  <2> QED
    BY <1>2, <1>3, <1>5, <1>6, <1>7, <2>1, <2>2, Zenon DEF CallFacts, CreateBlob
<1>13. FileFacts(blobs', op', openFiles')
  BY <1>3, <1>5, <1>7, IdleTree, Zenon DEF FileFacts, DevInv
<1> QED
  BY <1>9, <1>10, <1>11, <1>12, <1>13, Zenon DEF DevInv

LEMMA AddChildStep ==
    ASSUME DevInv, AddChild
    PROVE  DevInv'
<1> USE DeviceAssumption
<1>1. op \in Call /\ Step(op) = "add" /\ op' = Idle /\ Step(op') = "none"
  BY IdleView, Zenon DEF AddChild, DevInv, Step, Idle
<1>2. /\ op.call \in DOMAIN TypeOfNew
      /\ op.id \in DOMAIN blobs \ {RootBlobId} /\ op.dir \in Nodes(blobs, op)
      /\ blobs[op.id] = [type |-> TypeOfNew[op.call], parent |-> op.dir, entries |-> {}]
      /\ blobs[op.dir].type = "DIR"
      /\ FindByName(blobs[op.dir].entries, op.name) = {}
      /\ op.call = "createAndOpenFile" => opened < MaxOpens
  BY <1>1, Zenon DEF DevInv, CallFacts
<1>3. Nodes(blobs, op) = DOMAIN blobs \ {op.id}
  BY <1>1, Zenon DEF Nodes
<1> DEFINE new == [name |-> op.name, id |-> op.id, type |-> TypeOfNew[op.call]]
           es == blobs[op.dir].entries \cup {new}
<1>4. blobs' = SetEntries(blobs, op.dir, es)
  BY <1>2, Zenon DEF AddChild, Entries
<1>5. IF op.call = "createAndOpenFile" THEN AddOpenFile(op.id, op.dir) ELSE UNCHANGED <<openFiles, opened>>
  BY <1>2, Zenon DEF AddChild, Entries
<1>6. es \in SUBSET DirEntry
  <2>1. new \in DirEntry
    BY <1>1, <1>2 DEF Call, DirEntry, TypeOfNew, EntryTypes
  <2> QED
    BY <1>2, <1>3, <2>1, Zenon DEF DevInv, TypeOK, Blob
<1>7. /\ DOMAIN blobs' = DOMAIN blobs
      /\ \A i \in DOMAIN blobs :
           /\ blobs'[i].type = blobs[i].type /\ blobs'[i].parent = blobs[i].parent
           /\ blobs'[i].entries = IF i = op.dir THEN es ELSE blobs[i].entries
           /\ blobs'[i] \in Blob
  BY <1>2, <1>3, <1>4, <1>6, SetEntriesView DEF DevInv, TypeOK
<1>8. /\ Nodes(blobs', op') = DOMAIN blobs
      /\ \A i \in DOMAIN blobs : Up(blobs', op')[i] = blobs[i].parent
  BY <1>1, <1>7, Zenon DEF Nodes, Up
<1>9. \A i \in Nodes(blobs, op) : Up(blobs, op)[i] = blobs[i].parent
  BY <1>1, Zenon DEF Up
<1>10. /\ opened' \in 0..MaxOpens /\ DOMAIN openFiles' \subseteq 1..opened'
       /\ \A f \in DOMAIN openFiles' :
            /\ openFiles'[f] \in OpenFile
            /\ openFiles'[f].id \in DOMAIN blobs \ {RootBlobId} /\ openFiles'[f].parent \in DOMAIN blobs
  <2>1. opened \in 0..MaxOpens /\ DOMAIN openFiles \subseteq 1..opened
    BY Zenon DEF DevInv, TypeOK
  <2>2. \A f \in DOMAIN openFiles :
            /\ openFiles[f] \in OpenFile
            /\ openFiles[f].id \in DOMAIN blobs \ {RootBlobId} /\ openFiles[f].parent \in DOMAIN blobs
    BY <1>3, Zenon DEF DevInv, TypeOK, FileFacts
  <2>3. CASE op.call # "createAndOpenFile"
    BY <1>5, <2>1, <2>2, <2>3, Zenon
  <2>4. CASE op.call = "createAndOpenFile"
    <3> DEFINE file == [id |-> op.id, parent |-> op.dir, refcount |-> 0, closing |-> FALSE]
    <3>1. openFiles' = Put(openFiles, opened + 1, file) /\ opened' = opened + 1
      BY <1>5, <2>4, Zenon DEF AddOpenFile
    <3>2. /\ DOMAIN openFiles' = DOMAIN openFiles \cup {opened + 1}
          /\ \A f \in DOMAIN openFiles \ {opened + 1} : openFiles'[f] = openFiles[f]
          /\ openFiles'[opened + 1] = file
      BY <3>1, Zenon DEF Put
    <3>3. file \in OpenFile /\ op.dir \in DOMAIN blobs
      BY <1>2, <1>3 DEF OpenFile, DevInv, TypeOK
    <3>4. opened < MaxOpens
      BY <1>2, <2>4, Zenon
    <3>5. opened' \in 0..MaxOpens /\ DOMAIN openFiles' \subseteq 1..opened'
      BY <2>1, <3>1, <3>2, <3>4
    <3>6. file.id \in DOMAIN blobs \ {RootBlobId} /\ file.parent \in DOMAIN blobs
      BY <1>2, <3>3, Zenon
    <3> HIDE DEF file
    <3> QED
      BY <2>2, <3>2, <3>3, <3>5, <3>6, Zenon
  <2> QED
    BY <2>3, <2>4, Zenon
<1>11. TypeOK'
  BY <1>1, <1>7, <1>10, Zenon DEF TypeOK, DevInv
<1>12. TreeShape(blobs', op')
  <2>1. Rooted(DOMAIN blobs, Up(blobs', op'))
    <3>1. DOMAIN blobs = Nodes(blobs, op) \cup {op.id}
      BY <1>2, <1>3, Zenon
    <3>2. Up(blobs', op')[op.id] = op.dir
      BY <1>2, <1>8
    <3>3. \A j \in Nodes(blobs, op) : Up(blobs', op')[j] = Up(blobs, op)[j]
      BY <1>3, <1>8, <1>9, Zenon
    <3>4. op.id \notin Nodes(blobs, op) /\ RootBlobId \in Nodes(blobs, op) /\ Rooted(Nodes(blobs, op), Up(blobs, op))
      BY <1>3, Zenon DEF DevInv, TreeShape
    <3> HIDE DEF new, es
    <3>5. Rooted(Nodes(blobs, op) \cup {op.id}, Up(blobs', op'))
      BY <1>2, <3>2, <3>3, <3>4, RootedAdd
    <3> QED
      BY <3>1, <3>5, Zenon
  <2>2. blobs'[RootBlobId].parent = None /\ RootBlobId \in DOMAIN blobs
    BY <1>3, <1>7, Zenon DEF DevInv, TreeShape
  <2>3. ASSUME NEW i \in DOMAIN blobs \ {RootBlobId}
        PROVE  blobs[i].parent \in DOMAIN blobs /\ \E e \in blobs'[blobs[i].parent].entries : e.id = i
    <3>1. CASE i = op.id
      <4>1. new \in blobs'[op.dir].entries /\ new.id = op.id
        BY <1>2, <1>3, <1>7, Zenon
      <4>2. blobs[i].parent = op.dir /\ op.dir \in DOMAIN blobs
        BY <1>2, <1>3, <3>1
      <4> QED
        BY <3>1, <4>1, <4>2, Zenon
    <3>2. CASE i # op.id
      <4>1. i \in Nodes(blobs, op) \ {RootBlobId}
        BY <1>3, <3>2, Zenon
      <4>2. blobs[i].parent \in Nodes(blobs, op) /\ \E e \in blobs[blobs[i].parent].entries : e.id = i
        BY <1>9, <4>1, Zenon DEF DevInv, TreeShape
      <4> QED
        BY <1>3, <1>7, <4>2, Zenon
    <3> QED
      BY <3>1, <3>2, Zenon
  <2> QED
    BY <1>8, <2>1, <2>2, <2>3, Zenon DEF TreeShape
<1>13. EntryShape(blobs', op')
  <2>1. \A d \in DOMAIN blobs : \A e \in blobs[d].entries :
           /\ blobs[d].type = "DIR" /\ e.id \in DOMAIN blobs \ {RootBlobId} /\ e.id # op.id
           /\ e.type = blobs[e.id].type /\ d = blobs[e.id].parent
    BY <1>1, <1>3, <1>9 DEF DevInv, EntryShape
  <2>2. \A d \in DOMAIN blobs : \A e1, e2 \in blobs[d].entries :
           e1.name = e2.name \/ e1.id = e2.id => e1 = e2
    BY Zenon DEF DevInv, EntryShape
  <2>3. \A e \in blobs[op.dir].entries : e.name # op.name
    BY <1>2, Zenon DEF FindByName
  <2>4. new.type = blobs[op.id].type /\ op.dir = blobs[op.id].parent /\ op.dir \in DOMAIN blobs
    BY <1>2, <1>3
  <2> QED
    BY <1>1, <1>2, <1>7, <1>8, <2>1, <2>2, <2>3, <2>4 DEF EntryShape
<1>14. CallFacts(blobs', op', opened') /\ FileFacts(blobs', op', openFiles')
  BY <1>1, <1>7, <1>8, <1>10, Zenon DEF CallFacts, FileFacts
<1> QED
  BY <1>11, <1>12, <1>13, <1>14, Zenon DEF DevInv

-----------------------------------------------------------------------------
(* remove *)

LEMMA RemoveChildStep ==
    ASSUME DevInv, RemoveChild
    PROVE  DevInv'
<1> USE DeviceAssumption
<1>1. op = Idle /\ UNCHANGED <<openFiles, opened>>
  BY Zenon DEF RemoveChild
<1>2. PICK d \in LoadableDirs : \E e \in Entries(d) :
         /\ NotOpen(e.id)
         /\ e.type = "DIR" => e.id \in LoadableDirs /\ Entries(e.id) = {}
         /\ blobs' = SetEntries(blobs, d, Entries(d) \ FindById(Entries(d), e.id))
         /\ op' = [call |-> "remove", step |-> "removeBlob", dir |-> d, id |-> e.id,
                   to |-> d, name |-> e.name, victim |-> None]
  BY Zenon DEF RemoveChild
<1>3. d \in DOMAIN blobs /\ DOMAIN blobs \subseteq BlockIds
  BY Zenon DEF LoadableDirs, LoadableBlobs, DevInv, TypeOK
<1>4. PICK e \in blobs[d].entries :
         /\ NotOpen(e.id)
         /\ e.type = "DIR" => blobs[e.id].entries = {}
         /\ blobs' = SetEntries(blobs, d, {x \in blobs[d].entries : x.id # e.id})
         /\ op' = [call |-> "remove", step |-> "removeBlob", dir |-> d, id |-> e.id,
                   to |-> d, name |-> e.name, victim |-> None]
  <2>1. \A e \in blobs[d].entries :
          blobs[d].entries \ FindById(blobs[d].entries, e.id) = {x \in blobs[d].entries : x.id # e.id}
    BY Zenon DEF FindById
  <2> QED
    BY <1>2, <2>1, Zenon DEF Entries
<1> DEFINE es == {x \in blobs[d].entries : x.id # e.id}
<1>5. e \in DirEntry /\ es \in SUBSET DirEntry
  BY <1>3, Zenon DEF DevInv, TypeOK, Blob
<1>6. /\ DOMAIN blobs' = DOMAIN blobs
      /\ \A i \in DOMAIN blobs :
           /\ blobs'[i].type = blobs[i].type /\ blobs'[i].parent = blobs[i].parent
           /\ blobs'[i].entries = IF i = d THEN es ELSE blobs[i].entries
           /\ blobs'[i] \in Blob
  BY <1>3, <1>4, <1>5, SetEntriesView DEF DevInv, TypeOK
<1>7. op' \in Call /\ Step(op') = "removeBlob" /\ op'.id = e.id /\ op'.dir = d /\ op'.call = "remove"
  BY <1>3, <1>4, <1>5, Zenon DEF Call, Calls, Steps, Step, DirEntry
<1>8. e.id \in DOMAIN blobs \ {RootBlobId} /\ blobs[e.id].entries = {} /\ e.id # d
  BY <1>1, <1>3, <1>4, IdleTree
<1>9. /\ Nodes(blobs', op') = DOMAIN blobs \ {e.id}
      /\ \A i \in DOMAIN blobs \ {e.id} : Up(blobs', op')[i] = blobs[i].parent
  BY <1>6, <1>7, Zenon DEF Nodes, Up
<1>10. \A i \in DOMAIN blobs : blobs[i].parent # e.id
  <2>1. ASSUME NEW i \in DOMAIN blobs, i # RootBlobId PROVE blobs[i].parent # e.id
    BY <1>1, <1>8, <2>1, IdleTree, Zenon
  <2>2. blobs[RootBlobId].parent = None
    BY Zenon DEF DevInv, TreeShape
  <2> QED
    BY <1>3, <1>8, <2>1, <2>2, Zenon
<1>11. TypeOK'
  BY <1>1, <1>6, <1>7, Zenon DEF TypeOK, DevInv
<1>12. TreeShape(blobs', op')
  <2>1. Rooted(DOMAIN blobs \ {e.id}, Up(blobs', op'))
    <3>1. Rooted(DOMAIN blobs, Up(blobs, op)) /\ \A i \in DOMAIN blobs : Up(blobs, op)[i] = blobs[i].parent
      BY <1>1, IdleTree, Zenon DEF DevInv, TreeShape
    <3> QED
      BY <1>8, <1>9, <1>10, <3>1, RootedRemove
  <2>2. blobs'[RootBlobId].parent = None /\ RootBlobId \in DOMAIN blobs \ {e.id}
    BY <1>1, <1>6, <1>8, IdleTree, Zenon DEF DevInv, TreeShape
  <2>3. ASSUME NEW i \in DOMAIN blobs \ {RootBlobId, e.id}
        PROVE  blobs[i].parent \in DOMAIN blobs \ {e.id} /\ \E x \in blobs'[blobs[i].parent].entries : x.id = i
    <3>1. blobs[i].parent \in DOMAIN blobs \ {e.id}
      BY <1>1, <1>10, IdleTree, Zenon
    <3>2. PICK x \in blobs[blobs[i].parent].entries : x.id = i
      BY <1>1, IdleTree, Zenon
    <3> QED
      BY <1>6, <3>1, <3>2, Zenon
  <2> QED
    BY <1>9, <2>1, <2>2, <2>3, Zenon DEF TreeShape
<1>13. EntryShape(blobs', op')
  <2>1. \A c \in DOMAIN blobs : \A x \in blobs'[c].entries :
          x \in blobs[c].entries /\ x.id # e.id
    <3> SUFFICES ASSUME NEW c \in DOMAIN blobs, NEW x \in blobs'[c].entries
                 PROVE  x \in blobs[c].entries /\ x.id # e.id
      BY Zenon
    <3>1. CASE c = d
      BY <1>6, <3>1, Zenon
    <3>2. CASE c # d
      <4>1. x \in blobs[c].entries
        BY <1>6, <3>2, Zenon
      <4>2. c = blobs[x.id].parent /\ d = blobs[e.id].parent
        BY <1>1, <1>3, <4>1, IdleTree, Zenon
      <4> QED
        BY <3>2, <4>1, <4>2, Zenon
    <3> QED
      BY <3>1, <3>2, Zenon
  <2>2. \A c \in DOMAIN blobs : \A e1, e2 \in blobs[c].entries :
           e1.name = e2.name \/ e1.id = e2.id => e1 = e2
    BY Zenon DEF DevInv, EntryShape
  <2>3. ASSUME NEW c \in DOMAIN blobs, NEW x \in blobs'[c].entries
        PROVE  /\ blobs'[c].type = "DIR" /\ x.id \in DOMAIN blobs \ {RootBlobId, e.id}
               /\ x.type = blobs'[x.id].type /\ c = blobs[x.id].parent
    <3>1. x \in blobs[c].entries /\ x.id # e.id
      BY <2>1, Zenon
    <3>2. /\ blobs[c].type = "DIR" /\ x.id \in DOMAIN blobs \ {RootBlobId}
          /\ x.type = blobs[x.id].type /\ c = blobs[x.id].parent
      BY <1>1, <3>1, IdleTree, Zenon
    <3> QED
      BY <1>6, <3>1, <3>2, Zenon
  <2> HIDE DEF es
  <2> QED
    BY <1>6, <1>9, <2>1, <2>2, <2>3 DEF EntryShape
<1>14. CallFacts(blobs', op', opened')
  BY <1>3, <1>6, <1>7, <1>8, <1>9, Zenon DEF CallFacts
<1>15. FileFacts(blobs', op', openFiles')
  BY <1>1, <1>4, <1>6, <1>9, IdleTree, Zenon DEF FileFacts, DevInv, NotOpen
<1> QED
  BY <1>11, <1>12, <1>13, <1>14, <1>15, Zenon DEF DevInv

LEMMA RemoveBlobStep ==
    ASSUME DevInv, RemoveBlob
    PROVE  DevInv'
<1> USE DeviceAssumption
<1>1. op \in Call /\ Step(op) = "removeBlob" /\ op' = Idle /\ Step(op') = "none"
  BY IdleView, Zenon DEF RemoveBlob, DevInv, Step, Idle
<1>2. op.id \in DOMAIN blobs \ {RootBlobId} /\ blobs[op.id].entries = {}
  BY <1>1, Zenon DEF DevInv, CallFacts
<1>3. /\ DOMAIN blobs' = DOMAIN blobs \ {op.id}
      /\ \A i \in DOMAIN blobs' : blobs'[i] = blobs[i]
      /\ UNCHANGED <<openFiles, opened>>
  BY RemoveView, Zenon DEF RemoveBlob
<1>4. Nodes(blobs, op) = DOMAIN blobs' /\ Nodes(blobs', op') = DOMAIN blobs'
  BY <1>1, <1>3, Zenon DEF Nodes
<1>5. \A i \in DOMAIN blobs' : Up(blobs', op')[i] = blobs[i].parent /\ Up(blobs, op)[i] = blobs[i].parent
  BY <1>1, <1>3, <1>4, Zenon DEF Up
<1>6. TypeOK'
  BY <1>1, <1>3, Zenon DEF TypeOK, DevInv
<1>7. TreeShape(blobs', op')
  <2>1. Rooted(DOMAIN blobs', Up(blobs', op'))
    BY <1>4, <1>5, RootedSame DEF DevInv, TreeShape
  <2> QED
    BY <1>3, <1>4, <1>5, <2>1 DEF DevInv, TreeShape
<1>8. EntryShape(blobs', op')
  BY <1>1, <1>3, <1>4, <1>5 DEF DevInv, EntryShape
<1>9. CallFacts(blobs', op', opened')
  BY <1>1, Zenon DEF CallFacts
<1>10. FileFacts(blobs', op', openFiles')
  BY <1>3, <1>4, Zenon DEF FileFacts, DevInv, RemoveBlob, IsReferenced
<1> QED
  BY <1>6, <1>7, <1>8, <1>9, <1>10, Zenon DEF DevInv

-----------------------------------------------------------------------------
(* rename *)

\* While no call runs, SelfAndAncestors follows the parents of the nodes.
LEMMA IdleAbove ==
    ASSUME DevInv, op = Idle, NEW i
    PROVE  SelfAndAncestors(i) = Above(DOMAIN blobs, Up(blobs, op), i)
<1>1. \A b \in DOMAIN blobs : Up(blobs, op)[b] = blobs[b].parent
  BY IdleTree, Zenon
<1> QED
  BY <1>1, Zenon DEF SelfAndAncestors, Above

LEMMA SelfIsAbove ==
    ASSUME NEW D, NEW U, NEW i \in D
    PROVE  i \in Above(D, U, i)
BY Zenon DEF Above

\* The victims of a rename: none, or a blob without entries.
Victims(bs, V) ==
    V = {} \/ \E v \in DOMAIN bs \ {RootBlobId} : V = {v} /\ bs[v].entries = {}

\* The rest of the tree does not need the victims.
LEMMA PrunedTree ==
    ASSUME DevInv, Step(op) \in {"none", "overwrite"}, NEW V, Victims(blobs, V)
    PROVE  /\ Rooted(DOMAIN blobs \ V, Up(blobs, op))
           /\ RootBlobId \in DOMAIN blobs \ V
           /\ \A i \in DOMAIN blobs \ {RootBlobId} :
                blobs[i].parent \in DOMAIN blobs \ V /\ \E x \in blobs[blobs[i].parent].entries : x.id = i
<1> USE DeviceAssumption
<1>1. CASE V = {}
  <2>1. DOMAIN blobs \ V = DOMAIN blobs
    BY <1>1, Zenon
  <2> QED
    BY <2>1, SettledTree
<1>2. ASSUME NEW v \in DOMAIN blobs \ {RootBlobId}, V = {v}, blobs[v].entries = {}
      PROVE  /\ Rooted(DOMAIN blobs \ V, Up(blobs, op))
             /\ RootBlobId \in DOMAIN blobs \ V
             /\ \A i \in DOMAIN blobs \ {RootBlobId} :
                  blobs[i].parent \in DOMAIN blobs \ V /\ \E x \in blobs[blobs[i].parent].entries : x.id = i
  <2>1. \A i \in DOMAIN blobs \ {RootBlobId} :
          blobs[i].parent \in DOMAIN blobs /\ \E x \in blobs[blobs[i].parent].entries : x.id = i
    BY SettledTree, Zenon
  <2>2. \A i \in DOMAIN blobs \ {RootBlobId} : blobs[i].parent # v
    BY <1>2, <2>1, Zenon
  <2>3. \A i \in DOMAIN blobs : Up(blobs, op)[i] # v
    <3>1. v \in BlockIds /\ blobs[RootBlobId].parent = None /\ v # None
      BY SettledTree DEF DevInv, TypeOK
    <3> QED
      BY <2>2, <3>1, SettledTree
  <2>4. Rooted(DOMAIN blobs, Up(blobs, op)) /\ RootBlobId \in DOMAIN blobs
    BY SettledTree, Zenon
  <2>5. Rooted(DOMAIN blobs \ {v}, Up(blobs, op))
    BY <2>3, <2>4, RootedRemove, Zenon
  <2> QED
    BY <1>2, <2>1, <2>2, <2>4, <2>5, Zenon
<1> QED
  BY <1>1, <1>2, Zenon DEF Victims

\* What a new name in the same directory does, with or without a victim.
InPlace(V, d, e, new) ==
    /\ Step(op) \in {"none", "overwrite"} /\ Victims(blobs, V)
    /\ d \in DOMAIN blobs \ V /\ e \in blobs[d].entries /\ e.id \notin V
    /\ new \in DirEntry /\ new.id = e.id /\ new.type = e.type
    /\ \A x \in blobs[d].entries \ {e} : x.name = new.name => x.id \in V
    /\ DOMAIN blobs' = DOMAIN blobs \ V
    /\ \A i \in DOMAIN blobs' :
         /\ blobs'[i].type = blobs[i].type /\ blobs'[i].parent = blobs[i].parent
         /\ blobs'[i].entries = IF i = d THEN {x \in blobs[d].entries \ {e} : x.id \notin V} \cup {new}
                                         ELSE blobs[i].entries
         /\ blobs'[i] \in Blob
    /\ \A c \in DOMAIN blobs' \ {d} : \A x \in blobs[c].entries : x.id \notin V
    /\ \A f \in DOMAIN openFiles : openFiles[f].id \notin V /\ openFiles[f].parent \notin V
    /\ op' = Idle /\ UNCHANGED <<openFiles, opened>>

LEMMA RenameInPlace ==
    ASSUME DevInv, NEW V, NEW d, NEW e, NEW new, InPlace(V, d, e, new)
    PROVE  DevInv'
<1> SUFFICES ASSUME Step(op) \in {"none", "overwrite"}, Victims(blobs, V),
                    d \in DOMAIN blobs \ V, e \in blobs[d].entries, e.id \notin V,
                    new \in DirEntry, new.id = e.id, new.type = e.type,
                    \A x \in blobs[d].entries \ {e} : x.name = new.name => x.id \in V,
                    DOMAIN blobs' = DOMAIN blobs \ V,
                    \A i \in DOMAIN blobs' :
                       /\ blobs'[i].type = blobs[i].type /\ blobs'[i].parent = blobs[i].parent
                       /\ blobs'[i].entries = IF i = d THEN {x \in blobs[d].entries \ {e} : x.id \notin V} \cup {new}
                                                       ELSE blobs[i].entries
                       /\ blobs'[i] \in Blob,
                    \A c \in DOMAIN blobs' \ {d} : \A x \in blobs[c].entries : x.id \notin V,
                    \A f \in DOMAIN openFiles : openFiles[f].id \notin V /\ openFiles[f].parent \notin V,
                    op' = Idle, UNCHANGED <<openFiles, opened>>
             PROVE  DevInv'
  BY Zenon DEF InPlace
<1> USE DeviceAssumption
<1>1. /\ Step(op') = "none" /\ Nodes(blobs', op') = DOMAIN blobs'
      /\ \A i \in DOMAIN blobs' : Up(blobs', op')[i] = blobs[i].parent /\ Up(blobs, op)[i] = blobs[i].parent
  <2>1. Step(op') = "none"
    BY Zenon DEF Step, Idle
  <2>2. Nodes(blobs', op') = DOMAIN blobs'
    BY <2>1, Zenon DEF Nodes
  <2>3. \A i \in DOMAIN blobs' : Up(blobs', op')[i] = blobs[i].parent
    BY <2>1, <2>2, Zenon DEF Up
  <2>4. \A i \in DOMAIN blobs : Up(blobs, op)[i] = blobs[i].parent
    BY SettledTree, Zenon
  <2> QED
    BY <2>1, <2>2, <2>3, <2>4, Zenon
<1>2. TypeOK'
  BY Zenon DEF TypeOK, DevInv
<1>3. TreeShape(blobs', op')
  <2>1. Rooted(DOMAIN blobs', Up(blobs', op'))
    <3>1. \A i \in DOMAIN blobs' : Up(blobs', op')[i] = Up(blobs, op)[i]
      BY <1>1
    <3>2. Rooted(DOMAIN blobs', Up(blobs, op))
      BY PrunedTree
    <3> QED
      BY <3>1, <3>2, RootedSame
  <2>2. RootBlobId \in DOMAIN blobs' /\ blobs'[RootBlobId].parent = None
    BY SettledTree, PrunedTree, Zenon
  <2>3. ASSUME NEW i \in DOMAIN blobs' \ {RootBlobId}
        PROVE  blobs[i].parent \in DOMAIN blobs' /\ \E x \in blobs'[blobs[i].parent].entries : x.id = i
    <3>1. blobs[i].parent \in DOMAIN blobs'
      BY PrunedTree, Zenon
    <3>2. PICK x \in blobs[blobs[i].parent].entries : x.id = i
      BY PrunedTree, Zenon
    <3>3. CASE x = e /\ blobs[i].parent = d
      <4>1. blobs'[d].entries = {y \in blobs[d].entries \ {e} : y.id \notin V} \cup {new}
        BY <3>1, <3>3, Zenon
      <4>2. new \in blobs'[d].entries /\ new.id = i
        BY <3>2, <3>3, <4>1, Zenon
      <4> QED
        BY <3>1, <3>3, <4>2, Zenon
    <3>4. CASE ~(x = e /\ blobs[i].parent = d)
      <4>1. x \in blobs'[blobs[i].parent].entries
        BY <3>1, <3>2, <3>4, Zenon
      <4> QED
        BY <3>1, <3>2, <4>1, Zenon
    <3> QED
      BY <3>3, <3>4, Zenon
  <2> QED
    BY <1>1, <2>1, <2>2, <2>3 DEF TreeShape
<1>4. EntryShape(blobs', op')
  <2>1. ASSUME NEW c \in DOMAIN blobs', NEW x \in blobs'[c].entries
        PROVE  /\ blobs[c].type = "DIR" /\ x.id \in DOMAIN blobs' \ {RootBlobId}
               /\ x.type = blobs[x.id].type /\ c = blobs[x.id].parent
    <3>1. PICK y \in blobs[c].entries : y.id = x.id /\ y.type = x.type /\ y.id \notin V
      <4>1. CASE c = d /\ x = new
        BY <4>1, Zenon
      <4>2. CASE ~(c = d /\ x = new)
        <5>1. x \in blobs[c].entries /\ x.id \notin V
          <6>1. CASE c = d
            <7>1. x \in {y \in blobs[d].entries \ {e} : y.id \notin V} \cup {new}
              BY <6>1, Zenon
            <7> QED
              BY <4>2, <6>1, <7>1, Zenon
          <6>2. CASE c # d
            BY <6>2, Zenon
          <6> QED
            BY <6>1, <6>2, Zenon
        <5> QED
          BY <5>1, Zenon
      <4> QED
        BY <4>1, <4>2, Zenon
    <3> QED
      BY <3>1, SettledTree
  <2>2. \A c \in DOMAIN blobs' : \A e1, e2 \in blobs[c].entries :
           e1.name = e2.name \/ e1.id = e2.id => e1 = e2
    BY Zenon DEF DevInv, EntryShape
  <2>3. ASSUME NEW c \in DOMAIN blobs', NEW e1 \in blobs'[c].entries, NEW e2 \in blobs'[c].entries,
               e1.name = e2.name \/ e1.id = e2.id
        PROVE  e1 = e2
    <3>1. CASE c # d
      BY <2>2, <2>3, <3>1, Zenon
    <3>2. CASE c = d
      <4> DEFINE es == {x \in blobs[d].entries \ {e} : x.id \notin V}
      <4>1. e1 \in es \cup {new} /\ e2 \in es \cup {new}
        BY <3>2, Zenon
      <4>2. \A x \in es : x \in blobs[d].entries /\ x.name # new.name /\ x.id # new.id
        BY <2>2
      <4> HIDE DEF es
      <4> QED
        BY <2>2, <2>3, <4>1, <4>2
    <3> QED
      BY <3>1, <3>2, Zenon
  <2>4. \A i \in DOMAIN blobs' : blobs'[i].type = blobs[i].type
    BY Zenon
  <2> QED
    BY <1>1, <2>1, <2>3, <2>4 DEF EntryShape
<1>5. CallFacts(blobs', op', opened')
  BY <1>1, Zenon DEF CallFacts
<1>6. FileFacts(blobs', op', openFiles')
  <2>1. \A f \in DOMAIN openFiles :
           openFiles[f].id \in Nodes(blobs, op) \ {RootBlobId} /\ openFiles[f].parent \in DOMAIN blobs
    BY Zenon DEF FileFacts, DevInv
  <2>2. Nodes(blobs, op) = DOMAIN blobs
    BY SettledTree, Zenon
  <2> QED
    BY <1>1, <2>1, <2>2, Zenon DEF FileFacts
<1> QED
  BY <1>2, <1>3, <1>4, <1>5, <1>6, Zenon DEF DevInv

----------------------------------------------------------------------------

\* What a second entry in another directory does, with or without a victim there.
Moves(V, d, t, e, new) ==
    /\ Step(op) \in {"none", "overwrite"} /\ Victims(blobs, V)
    /\ d \in DOMAIN blobs \ V /\ t \in DOMAIN blobs \ V /\ d # t /\ blobs[t].type = "DIR"
    /\ e \in blobs[d].entries /\ e.id \notin V
    /\ e.id \notin Above(DOMAIN blobs, Up(blobs, op), t)
    /\ new \in DirEntry /\ new.id = e.id /\ new.type = e.type
    /\ \A x \in blobs[t].entries : x.name = new.name => x.id \in V
    /\ DOMAIN blobs' = DOMAIN blobs \ V
    /\ \A i \in DOMAIN blobs' :
         /\ blobs'[i].type = blobs[i].type /\ blobs'[i].parent = blobs[i].parent
         /\ blobs'[i].entries = IF i = t THEN {x \in blobs[t].entries : x.id \notin V} \cup {new}
                                         ELSE blobs[i].entries
         /\ blobs'[i] \in Blob
    /\ \A c \in DOMAIN blobs' \ {t} : \A x \in blobs[c].entries : x.id \notin V
    /\ \A f \in DOMAIN openFiles : openFiles[f].id \notin V /\ openFiles[f].parent \notin V
    /\ op' \in Call /\ op'.call = "rename" /\ op'.step = "removeOld"
    /\ op'.dir = d /\ op'.to = t /\ op'.id = e.id
    /\ UNCHANGED <<openFiles, opened>>

LEMMA MoveEntry ==
    ASSUME DevInv, NEW V, NEW d, NEW t, NEW e, NEW new, Moves(V, d, t, e, new)
    PROVE  DevInv'
<1> SUFFICES ASSUME Step(op) \in {"none", "overwrite"}, Victims(blobs, V),
                    d \in DOMAIN blobs \ V, t \in DOMAIN blobs \ V, d # t, blobs[t].type = "DIR",
                    e \in blobs[d].entries, e.id \notin V,
                    e.id \notin Above(DOMAIN blobs, Up(blobs, op), t),
                    new \in DirEntry, new.id = e.id, new.type = e.type,
                    \A x \in blobs[t].entries : x.name = new.name => x.id \in V,
                    DOMAIN blobs' = DOMAIN blobs \ V,
                    \A i \in DOMAIN blobs' :
                       /\ blobs'[i].type = blobs[i].type /\ blobs'[i].parent = blobs[i].parent
                       /\ blobs'[i].entries = IF i = t THEN {x \in blobs[t].entries : x.id \notin V} \cup {new}
                                                       ELSE blobs[i].entries
                       /\ blobs'[i] \in Blob,
                    \A c \in DOMAIN blobs' \ {t} : \A x \in blobs[c].entries : x.id \notin V,
                    \A f \in DOMAIN openFiles : openFiles[f].id \notin V /\ openFiles[f].parent \notin V,
                    op' \in Call, op'.call = "rename", op'.step = "removeOld",
                    op'.dir = d, op'.to = t, op'.id = e.id,
                    UNCHANGED <<openFiles, opened>>
             PROVE  DevInv'
  BY Zenon DEF Moves
<1> USE DeviceAssumption
<1>0. e.id \in DOMAIN blobs' \ {RootBlobId} /\ blobs[e.id].parent = d /\ e.type = blobs[e.id].type
  BY SettledTree
<1>1. /\ Step(op') = "removeOld" /\ Nodes(blobs', op') = DOMAIN blobs'
      /\ \A i \in DOMAIN blobs' : Up(blobs, op)[i] = blobs[i].parent
      /\ \A i \in DOMAIN blobs' : Up(blobs', op')[i] = IF i = e.id THEN t ELSE blobs[i].parent
  <2>1. Step(op') = "removeOld"
    BY Zenon DEF Step
  <2>2. Nodes(blobs', op') = DOMAIN blobs'
    BY <2>1, Zenon DEF Nodes
  <2>3. \A i \in DOMAIN blobs' : Up(blobs', op')[i] = IF i = e.id THEN t ELSE blobs[i].parent
    BY <2>1, <2>2, Zenon DEF Up
  <2>4. \A i \in DOMAIN blobs : Up(blobs, op)[i] = blobs[i].parent
    BY SettledTree, Zenon
  <2> QED
    BY <2>1, <2>2, <2>3, <2>4, Zenon
<1>2. TypeOK'
  BY Zenon DEF TypeOK, DevInv
<1>3. Rooted(DOMAIN blobs', Up(blobs', op'))
  <2> DEFINE W == [i \in DOMAIN blobs |-> IF i = e.id THEN t ELSE blobs[i].parent]
  <2>1. Rooted(DOMAIN blobs, W)
    <3>1. Rooted(DOMAIN blobs, Up(blobs, op)) /\ RootBlobId \in DOMAIN blobs
      BY SettledTree, Zenon
    <3>2. None \notin DOMAIN blobs
      BY Zenon DEF DevInv, TypeOK
    <3>3. W[e.id] = t /\ \A j \in DOMAIN blobs \ {e.id} : W[j] = Up(blobs, op)[j]
      BY <1>0, SettledTree, Zenon
    <3> HIDE DEF W
    <3> QED
      BY <1>0, <3>1, <3>2, <3>3, RootedMove
  <2>2. Rooted(DOMAIN blobs \ V, W)
    <3>1. CASE V = {}
      <4>1. DOMAIN blobs \ V = DOMAIN blobs
        BY <3>1, Zenon
      <4> QED
        BY <2>1, <4>1, Zenon
    <3>2. ASSUME NEW v \in DOMAIN blobs \ {RootBlobId}, V = {v}
          PROVE  Rooted(DOMAIN blobs \ V, W)
      <4>1. v # None
        BY DEF DevInv, TypeOK
      <4>2. \A i \in DOMAIN blobs \ {RootBlobId} : blobs[i].parent # v
        BY <3>2, PrunedTree, Zenon
      <4>3. blobs[RootBlobId].parent = None /\ t # v
        BY <3>2, SettledTree, Zenon
      <4>4. \A i \in DOMAIN blobs : W[i] # v
        BY <4>1, <4>2, <4>3, Zenon
      <4> HIDE DEF W
      <4>5. Rooted(DOMAIN blobs \ {v}, W)
        BY <2>1, <4>4, RootedRemove, Zenon
      <4> QED
        BY <3>2, <4>5, Zenon
    <3> QED
      BY <3>1, <3>2, Zenon DEF Victims
  <2>3. \A i \in DOMAIN blobs' : Up(blobs', op')[i] = W[i]
    BY <1>1, Zenon
  <2> HIDE DEF W
  <2> QED
    BY <2>2, <2>3, RootedSame
<1>4. TreeShape(blobs', op')
  <2>1. RootBlobId \in DOMAIN blobs' /\ blobs'[RootBlobId].parent = None
    <3>1. RootBlobId \in DOMAIN blobs'
      BY PrunedTree, Zenon
    <3>2. blobs[RootBlobId].parent = None
      BY SettledTree, Zenon
    <3> QED
      BY <3>1, <3>2, Zenon
  <2>2. ASSUME NEW i \in DOMAIN blobs' \ {RootBlobId}
        PROVE  /\ Up(blobs', op')[i] \in DOMAIN blobs'
               /\ \E x \in blobs'[Up(blobs', op')[i]].entries : x.id = i
    <3>1. CASE i = e.id
      <4>1. Up(blobs', op')[i] = t /\ t \in DOMAIN blobs' /\ new \in blobs'[t].entries
        BY <1>1, <3>1, Zenon
      <4> QED
        BY <3>1, <4>1, Zenon
    <3>2. CASE i # e.id
      <4>1. Up(blobs', op')[i] = blobs[i].parent
        BY <1>1, <3>2, Zenon
      <4>2. blobs[i].parent \in DOMAIN blobs'
        BY PrunedTree, Zenon
      <4>3. PICK x \in blobs[blobs[i].parent].entries : x.id = i
        BY PrunedTree, Zenon
      <4>4. x \in blobs'[blobs[i].parent].entries
        BY <4>2, <4>3, Zenon
      <4> QED
        BY <4>1, <4>2, <4>3, <4>4, Zenon
    <3> QED
      BY <3>1, <3>2, Zenon
  <2> QED
    BY <1>1, <1>3, <2>1, <2>2 DEF TreeShape
<1>5. EntryShape(blobs', op')
  <2>1. ASSUME NEW c \in DOMAIN blobs', NEW x \in blobs'[c].entries
        PROVE  /\ blobs'[c].type = "DIR" /\ x.id \in DOMAIN blobs' \ {RootBlobId}
               /\ x.type = blobs'[x.id].type
               /\ c = Up(blobs', op')[x.id] \/ (x.id = e.id /\ c = d)
    <3>1. CASE c = t /\ x = new
      <4>1. t \in DOMAIN blobs' /\ blobs'[t].type = "DIR"
        BY Zenon
      <4>2. blobs'[e.id].type = e.type
        BY <1>0, Zenon
      <4>3. Up(blobs', op')[e.id] = t
        BY <1>0, <1>1, Zenon
      <4> QED
        BY <1>0, <3>1, <4>1, <4>2, <4>3, Zenon
    <3>2. CASE ~(c = t /\ x = new)
      <4>1. x \in blobs[c].entries /\ x.id \notin V
        <5>1. CASE c = t
          <6>1. x \in {y \in blobs[t].entries : y.id \notin V} \cup {new}
            BY <5>1, Zenon
          <6> QED
            BY <3>2, <5>1, <6>1, Zenon
        <5>2. CASE c # t
          BY <5>2, Zenon
        <5> QED
          BY <5>1, <5>2, Zenon
      <4>2. /\ blobs[c].type = "DIR" /\ x.id \in DOMAIN blobs \ {RootBlobId}
            /\ x.type = blobs[x.id].type /\ c = blobs[x.id].parent
        BY <4>1, SettledTree
      <4> QED
        BY <1>0, <1>1, <4>1, <4>2, Zenon
    <3> QED
      BY <3>1, <3>2, Zenon
  <2>2. \A c \in DOMAIN blobs' : \A e1, e2 \in blobs[c].entries :
           e1.name = e2.name \/ e1.id = e2.id => e1 = e2
    BY Zenon DEF DevInv, EntryShape
  <2>3. ASSUME NEW c \in DOMAIN blobs', NEW e1 \in blobs'[c].entries, NEW e2 \in blobs'[c].entries,
               e1.name = e2.name \/ e1.id = e2.id
        PROVE  e1 = e2
    <3>1. CASE c # t
      BY <2>2, <2>3, <3>1, Zenon
    <3>2. CASE c = t
      <4> DEFINE es == {x \in blobs[t].entries : x.id \notin V}
      <4>1. e1 \in es \cup {new} /\ e2 \in es \cup {new}
        BY <3>2, Zenon
      <4>2. \A x \in es : x \in blobs[t].entries /\ x.name # new.name
        BY Zenon
      <4>3. \A x \in blobs[t].entries : x.id # new.id
        BY <1>0, SettledTree
      <4> HIDE DEF es
      <4> QED
        BY <2>2, <2>3, <4>1, <4>2, <4>3
    <3> QED
      BY <3>1, <3>2, Zenon
  <2> QED
    BY <1>1, <2>1, <2>3 DEF EntryShape
<1>6. CallFacts(blobs', op', opened')
  <2>1. e \in blobs'[d].entries
    BY Zenon
  <2>2. blobs'[e.id].parent = d /\ d \in DOMAIN blobs' /\ t \in DOMAIN blobs'
    BY <1>0, Zenon
  <2>3. Step(op') = "removeOld"
    BY <1>1, Zenon
  <2> QED
    BY <1>0, <2>1, <2>2, <2>3, Zenon DEF CallFacts
<1>7. FileFacts(blobs', op', openFiles')
  <2>1. \A f \in DOMAIN openFiles :
           openFiles[f].id \in Nodes(blobs, op) \ {RootBlobId} /\ openFiles[f].parent \in DOMAIN blobs
    BY Zenon DEF FileFacts, DevInv
  <2>2. Nodes(blobs, op) = DOMAIN blobs
    BY SettledTree, Zenon
  <2> QED
    BY <1>1, <2>1, <2>2, Zenon DEF FileFacts
<1> QED
  BY <1>2, <1>4, <1>5, <1>6, <1>7, Zenon DEF DevInv

\* A renamed entry differs in its name only.
LEMMA Renamed ==
    ASSUME NEW e \in DirEntry, NEW n \in Names
    PROVE  LET new == [e EXCEPT !.name = n] IN
           new \in DirEntry /\ new.id = e.id /\ new.type = e.type /\ new.name = n
BY Zenon DEF DirEntry

\* A rename that has found an entry to overwrite.
LEMMA OverwriteBegins ==
    ASSUME DevInv, op = Idle, ~OverwriteNonEmptyDirs,
           NEW d \in DOMAIN blobs, NEW t \in DOMAIN blobs, NEW n \in Names,
           NEW e \in blobs[d].entries, NEW v \in blobs[t].entries,
           KernelRenames(d, e, t, n), v.name = n, v # e,
           MovedTo(d, e, t, n, "overwrite", v.id), UNCHANGED <<blobs, openFiles, opened>>
    PROVE  DevInv'
<1> USE DeviceAssumption
<1>1. /\ e.id \in DOMAIN blobs \ {RootBlobId} /\ blobs[e.id].parent = d /\ e.type = blobs[e.id].type
      /\ v.id \in DOMAIN blobs \ {RootBlobId} /\ blobs[v.id].parent = t /\ v.type = blobs[v.id].type
  BY IdleTree
<1>2. DOMAIN blobs \subseteq BlockIds
  BY Zenon DEF DevInv, TypeOK
<1>3. op' \in Call /\ op'.call = "rename" /\ op'.dir = d /\ op'.id = e.id /\ op'.to = t
      /\ op'.name = n /\ op'.victim = v.id /\ Step(op') = "overwrite"
  BY <1>1, <1>2, Zenon DEF MovedTo, Call, Calls, Steps, Step
<1>4. /\ e.id \notin Above(DOMAIN blobs, Up(blobs, op), t)
      /\ v.id \notin Above(DOMAIN blobs, Up(blobs, op), d)
      /\ AllowedOverwrite(v.type, e.type)
      /\ v.type # "DIR" \/ blobs[v.id].entries = {}
  BY IdleAbove, Zenon DEF KernelRenames, FindByName, Entries
<1>5. v.id # d
  BY <1>4, SelfIsAbove, Zenon
<1>6. v.id # t
  <2>1. Up(blobs, op)[v.id] = t /\ Rooted(DOMAIN blobs, Up(blobs, op)) /\ RootBlobId \in DOMAIN blobs
    BY <1>1, IdleTree, Zenon
  <2> QED
    BY <1>1, <2>1, NotOwnParent, Zenon
<1>7. v.id # e.id
  <2>1. \A e1, e2 \in blobs[d].entries : e1.id = e2.id => e1 = e2
    BY Zenon DEF DevInv, EntryShape
  <2> QED
    BY <1>1, <2>1, Zenon
<1>8. blobs[v.id].entries = {}
  BY <1>1, <1>4, IdleTree, Zenon
<1>9. /\ Nodes(blobs', op') = Nodes(blobs, op)
      /\ Up(blobs', op') = Up(blobs, op)
      /\ Nodes(blobs, op) = DOMAIN blobs
  BY <1>3, IdleTree, Zenon DEF Nodes, Up
<1>10. TypeOK'
  BY <1>3, Zenon DEF DevInv, TypeOK
<1>11. TreeShape(blobs', op')
  BY <1>9, Zenon DEF DevInv, TreeShape
<1>12. EntryShape(blobs', op')
  BY <1>3, <1>9, IdleTree DEF DevInv, EntryShape
<1>13. CallFacts(blobs', op', opened')
  BY <1>1, <1>3, <1>4, <1>5, <1>6, <1>7, <1>8, <1>9, Zenon DEF CallFacts
<1>14. FileFacts(blobs', op', openFiles')
  BY <1>9, Zenon DEF FileFacts, DevInv
<1> QED
  BY <1>10, <1>11, <1>12, <1>13, <1>14, Zenon DEF DevInv

LEMMA RenameStep ==
    ASSUME DevInv, ~OverwriteNonEmptyDirs, Rename
    PROVE  DevInv'
<1> USE DeviceAssumption
<1>1. op = Idle /\ UNCHANGED <<openFiles, opened>>
  BY Zenon DEF Rename
<1>2. PICK d \in LoadableDirs, t \in LoadableDirs, n \in Names : \E e \in Entries(d) :
         /\ KernelRenames(d, e, t, n)
         /\ IF t = d THEN RenameChild(d, e, n) ELSE AddOrOverwriteChild(d, e, t, n)
  BY Zenon DEF Rename
<1>3. PICK e \in blobs[d].entries :
         /\ KernelRenames(d, e, t, n)
         /\ IF t = d THEN RenameChild(d, e, n) ELSE AddOrOverwriteChild(d, e, t, n)
  BY <1>2, Zenon DEF Entries
<1>4. d \in DOMAIN blobs /\ t \in DOMAIN blobs /\ blobs[t].type = "DIR" /\ DOMAIN blobs \subseteq BlockIds
  BY Zenon DEF LoadableDirs, LoadableBlobs, DevInv, TypeOK
<1>5. e \in DirEntry /\ blobs[t].entries \in SUBSET DirEntry /\ blobs[d].entries \in SUBSET DirEntry
      /\ e.id \in DOMAIN blobs
  BY <1>1, <1>4, IdleTree, Zenon DEF DevInv, TypeOK, Blob
<1>6. PICK new \in DirEntry : new = [e EXCEPT !.name = n] /\ new.id = e.id /\ new.type = e.type /\ new.name = n
  BY <1>5, Renamed, Zenon
<1>7. CASE t = d /\ FindByName(blobs[d].entries, n) \ {e} = {}
  <2> DEFINE es == (blobs[d].entries \ {e}) \cup {new}
  <2>1. blobs' = SetEntries(blobs, d, es) /\ op' = Idle
    BY <1>1, <1>3, <1>6, <1>7, Zenon DEF RenameChild, Entries
  <2>2. es \in SUBSET DirEntry /\ \A i \in DOMAIN blobs : blobs[i] \in Blob
    BY <1>5, Zenon DEF DevInv, TypeOK
  <2>3. /\ DOMAIN blobs' = DOMAIN blobs
        /\ \A i \in DOMAIN blobs :
             /\ blobs'[i].type = blobs[i].type /\ blobs'[i].parent = blobs[i].parent
             /\ blobs'[i].entries = IF i = d THEN es ELSE blobs[i].entries
             /\ blobs'[i] \in Blob
    BY <1>4, <2>1, <2>2, SetEntriesView
  <2>0. PICK V : V = {}
    BY Zenon
  <2>4. Victims(blobs, V) /\ Step(op) \in {"none", "overwrite"}
    BY <1>1, <2>0, IdleTree, Zenon DEF Victims
  <2>5. es = {x \in blobs[d].entries \ {e} : x.id \notin V} \cup {new}
    BY <2>0, Zenon
  <2>6. \A x \in blobs[d].entries \ {e} : x.name = new.name => x.id \in V
    BY <1>6, <1>7, Zenon DEF FindByName
  <2> HIDE DEF es
  <2>7. op' = Idle
    BY <2>1, Zenon
  <2>8. /\ DOMAIN blobs' = DOMAIN blobs \ V
        /\ \A i \in DOMAIN blobs' :
              /\ blobs'[i].type = blobs[i].type /\ blobs'[i].parent = blobs[i].parent
              /\ blobs'[i].entries = IF i = d THEN {x \in blobs[d].entries \ {e} : x.id \notin V} \cup {new}
                                              ELSE blobs[i].entries
              /\ blobs'[i] \in Blob
    BY <2>0, <2>3, <2>5, Zenon
  <2>9. /\ d \in DOMAIN blobs \ V /\ e.id \notin V
        /\ \A c \in DOMAIN blobs' \ {d} : \A x \in blobs[c].entries : x.id \notin V
        /\ \A f \in DOMAIN openFiles : openFiles[f].id \notin V /\ openFiles[f].parent \notin V
    BY <1>4, <2>0, Zenon
  <2>10. new.id = e.id /\ new.type = e.type
    BY <1>6, Zenon
  <2>11. InPlace(V, d, e, new)
    BY <1>1, <2>4, <2>6, <2>7, <2>8, <2>9, <2>10, Zenon DEF InPlace
  <2> QED
    BY <2>11, RenameInPlace, Zenon
<1>8. CASE t # d /\ FindByName(blobs[t].entries, n) = {}
  <2> DEFINE es == blobs[t].entries \cup {new}
  <2>1. blobs' = SetEntries(blobs, t, es) /\ MovedTo(d, e, t, n, "removeOld", None)
    BY <1>3, <1>6, <1>8, Zenon DEF AddOrOverwriteChild, Entries
  <2>2. es \in SUBSET DirEntry /\ \A i \in DOMAIN blobs : blobs[i] \in Blob
    BY <1>5, Zenon DEF DevInv, TypeOK
  <2>3. /\ DOMAIN blobs' = DOMAIN blobs
        /\ \A i \in DOMAIN blobs :
             /\ blobs'[i].type = blobs[i].type /\ blobs'[i].parent = blobs[i].parent
             /\ blobs'[i].entries = IF i = t THEN es ELSE blobs[i].entries
             /\ blobs'[i] \in Blob
    BY <1>4, <2>1, <2>2, SetEntriesView
  <2>0. PICK V : V = {}
    BY Zenon
  <2>4. Victims(blobs, V) /\ Step(op) \in {"none", "overwrite"}
    BY <1>1, <2>0, IdleTree, Zenon DEF Victims
  <2>5. es = {x \in blobs[t].entries : x.id \notin V} \cup {new}
    BY <2>0, Zenon
  <2>6. \A x \in blobs[t].entries : x.name = new.name => x.id \in V
    BY <1>6, <1>8, Zenon DEF FindByName
  <2>7. op' \in Call /\ op'.call = "rename" /\ op'.step = "removeOld" /\ op'.dir = d /\ op'.to = t /\ op'.id = e.id
    BY <1>4, <1>5, <2>1, Zenon DEF MovedTo, Call, Calls, Steps
  <2>8. e.id \notin Above(DOMAIN blobs, Up(blobs, op), t)
    BY <1>1, <1>3, IdleAbove, Zenon DEF KernelRenames
  <2> HIDE DEF es
  <2>9. /\ DOMAIN blobs' = DOMAIN blobs \ V
        /\ \A i \in DOMAIN blobs' :
              /\ blobs'[i].type = blobs[i].type /\ blobs'[i].parent = blobs[i].parent
              /\ blobs'[i].entries = IF i = t THEN {x \in blobs[t].entries : x.id \notin V} \cup {new}
                                              ELSE blobs[i].entries
              /\ blobs'[i] \in Blob
    BY <2>0, <2>3, <2>5, Zenon
  <2>10. /\ d \in DOMAIN blobs \ V /\ t \in DOMAIN blobs \ V /\ e.id \notin V
         /\ \A c \in DOMAIN blobs' \ {t} : \A x \in blobs[c].entries : x.id \notin V
         /\ \A f \in DOMAIN openFiles : openFiles[f].id \notin V /\ openFiles[f].parent \notin V
    BY <1>4, <2>0, Zenon
  <2>11. new.id = e.id /\ new.type = e.type
    BY <1>6, Zenon
  <2>12. Moves(V, d, t, e, new)
    BY <1>1, <1>4, <1>8, <2>4, <2>6, <2>7, <2>8, <2>9, <2>10, <2>11, Zenon DEF Moves
  <2> QED
    BY <2>12, MoveEntry, Zenon
<1>9. CASE t = d /\ FindByName(blobs[d].entries, n) \ {e} # {}
  <2>1. PICK v \in FindByName(blobs[t].entries, n) \ {e} : MovedTo(d, e, t, n, "overwrite", v.id) /\ UNCHANGED blobs
    BY <1>3, <1>9, Zenon DEF RenameChild, Entries
  <2>2. v \in blobs[t].entries /\ v.name = n /\ v # e
    BY <2>1, Zenon DEF FindByName
  <2> QED
    BY <1>1, <1>3, <1>4, <2>1, <2>2, OverwriteBegins, Zenon
<1>10. CASE t # d /\ FindByName(blobs[t].entries, n) # {}
  <2>1. PICK v \in FindByName(blobs[t].entries, n) : MovedTo(d, e, t, n, "overwrite", v.id) /\ UNCHANGED blobs
    BY <1>3, <1>10, Zenon DEF AddOrOverwriteChild, Entries
  <2>2. v \in blobs[t].entries /\ v.name = n
    BY <2>1, Zenon DEF FindByName
  <2>3. v # e
    BY <1>1, <1>4, <1>10, <2>2, IdleTree
  <2> QED
    BY <1>1, <1>3, <1>4, <2>1, <2>2, <2>3, OverwriteBegins, Zenon
<1> QED
  BY <1>7, <1>8, <1>9, <1>10, Zenon

LEMMA OverwriteStep ==
    ASSUME DevInv, Overwrite
    PROVE  DevInv'
<1> USE DeviceAssumption
<1>1. op \in Call /\ Step(op) = "overwrite" /\ op.step = "overwrite"
  BY IdleView, Zenon DEF Overwrite, DevInv
<1>2. /\ op.call = "rename"
      /\ op.dir \in DOMAIN blobs /\ op.to \in DOMAIN blobs
      /\ op.victim \in DOMAIN blobs \ {op.dir, op.to, op.id, RootBlobId}
      /\ blobs[op.victim].entries = {}
      /\ op.dir # op.to => op.id \notin Above(DOMAIN blobs, Up(blobs, op), op.to)
      /\ \E e \in blobs[op.dir].entries, v \in blobs[op.to].entries :
              /\ e.id = op.id /\ v.id = op.victim /\ v.name = op.name
              /\ AllowedOverwrite(v.type, e.type)
  BY <1>1, Zenon DEF DevInv, CallFacts
<1>3. PICK e \in blobs[op.dir].entries, v \in blobs[op.to].entries :
              /\ e.id = op.id /\ v.id = op.victim /\ v.name = op.name
              /\ AllowedOverwrite(v.type, e.type)
  BY <1>2, Zenon
<1>4. /\ \A x \in blobs[op.dir].entries : x.id = op.id => x = e
      /\ \A x \in blobs[op.to].entries : x.id = op.victim \/ x.name = op.name => x = v
  <2>1. \A c \in DOMAIN blobs : \A e1, e2 \in blobs[c].entries :
           e1.name = e2.name \/ e1.id = e2.id => e1 = e2
    BY Zenon DEF DevInv, EntryShape
  <2> QED
    BY <1>2, <1>3, <2>1
<1>5. /\ e = CHOOSE x \in blobs[op.dir].entries : x.id = op.id
      /\ v = CHOOSE x \in blobs[op.to].entries : x.id = op.victim
  BY <1>3, <1>4, Zenon
<1>6. e \in DirEntry /\ blobs[op.to].entries \in SUBSET DirEntry
      /\ \A i \in DOMAIN blobs : blobs[i] \in Blob
  BY <1>2, Zenon DEF DevInv, TypeOK, Blob
<1>7. PICK new \in DirEntry : new = [e EXCEPT !.name = op.name] /\ new.id = e.id /\ new.type = e.type /\ new.name = op.name
  <2>1. op.name \in Names
    BY <1>1, Zenon DEF Call
  <2>2. LET new == [e EXCEPT !.name = op.name] IN
        new \in DirEntry /\ new.id = e.id /\ new.type = e.type /\ new.name = op.name
    BY <1>6, <2>1, Zenon DEF DirEntry
  <2> QED
    BY <2>2, Zenon
<1> DEFINE removed == RemoveFromStore(blobs, op.victim)
           kept == blobs[op.to].entries \ (IF op.to = op.dir THEN {v, e} ELSE {v})
           es == kept \cup {new}
<1>8. /\ blobs' = SetEntries(removed, op.to, es)
      /\ op' = IF op.to = op.dir THEN Idle ELSE [op EXCEPT !.step = "removeOld", !.victim = None]
      /\ UNCHANGED <<openFiles, opened>>
  BY <1>3, <1>5, <1>7, Zenon DEF Overwrite, Entries
<1>9. es \in SUBSET DirEntry
  BY <1>6, Zenon
<1>10. DOMAIN removed = DOMAIN blobs \ {op.victim} /\ \A i \in DOMAIN removed : removed[i] = blobs[i]
  BY RemoveView, Zenon
<1>11. PICK V : V = {op.victim}
  BY Zenon
<1>12. /\ DOMAIN blobs' = DOMAIN blobs \ V
       /\ \A i \in DOMAIN blobs' :
            /\ blobs'[i].type = blobs[i].type /\ blobs'[i].parent = blobs[i].parent
            /\ blobs'[i].entries = IF i = op.to THEN es ELSE blobs[i].entries
            /\ blobs'[i] \in Blob
  <2>1. op.to \in DOMAIN removed /\ \A i \in DOMAIN removed : removed[i] \in Blob
    BY <1>2, <1>6, <1>10, Zenon
  <2> HIDE DEF removed, es
  <2>2. /\ DOMAIN blobs' = DOMAIN removed
        /\ \A i \in DOMAIN removed :
            /\ blobs'[i].type = removed[i].type /\ blobs'[i].parent = removed[i].parent
            /\ blobs'[i].entries = IF i = op.to THEN es ELSE removed[i].entries
            /\ blobs'[i] \in Blob
    BY <1>8, <1>9, <2>1, SetEntriesView
  <2> QED
    BY <1>10, <1>11, <2>2, Zenon
<1>13. Victims(blobs, V)
  BY <1>2, <1>11, Zenon DEF Victims
<1>14. /\ op.dir \in DOMAIN blobs \ V /\ op.to \in DOMAIN blobs \ V /\ e.id \notin V
       /\ \A x \in blobs[op.to].entries : x.name = new.name => x.id \in V
  BY <1>2, <1>3, <1>4, <1>7, <1>11, Zenon
<1>15. \A c \in DOMAIN blobs' \ {op.to} : \A x \in blobs[c].entries : x.id \notin V
  <2>1. \A c \in DOMAIN blobs : \A x \in blobs[c].entries : x.id = op.victim => c = op.to
    <3>1. blobs[op.victim].parent = op.to
      BY <1>1, <1>2, <1>3, SettledTree
    <3> QED
      BY <1>1, <3>1, SettledTree
  <2> QED
    BY <1>11, <1>12, <2>1, Zenon
<1>16. \A f \in DOMAIN openFiles : openFiles[f].id \notin V /\ openFiles[f].parent \notin V
  BY <1>11, Zenon DEF Overwrite, IsReferenced
<1>17. new.id = e.id /\ new.type = e.type /\ UNCHANGED <<openFiles, opened>>
  BY <1>7, <1>8, Zenon
<1>18. CASE op.to = op.dir
  <2>1. es = {x \in blobs[op.dir].entries \ {e} : x.id \notin V} \cup {new}
    BY <1>3, <1>4, <1>11, <1>18, Zenon
  <2>2. op' = Idle
    BY <1>8, <1>18, Zenon
  <2> HIDE DEF es
  <2>3. \A i \in DOMAIN blobs' :
            /\ blobs'[i].type = blobs[i].type /\ blobs'[i].parent = blobs[i].parent
            /\ blobs'[i].entries = IF i = op.dir THEN {x \in blobs[op.dir].entries \ {e} : x.id \notin V} \cup {new}
                                                 ELSE blobs[i].entries
            /\ blobs'[i] \in Blob
    BY <1>12, <1>18, <2>1, Zenon
  <2>4. InPlace(V, op.dir, e, new)
    BY <1>1, <1>12, <1>13, <1>14, <1>15, <1>16, <1>17, <1>18, <2>2, <2>3, Zenon DEF InPlace
  <2> QED
    BY <2>4, RenameInPlace, Zenon
<1>19. CASE op.to # op.dir
  <2>1. es = {x \in blobs[op.to].entries : x.id \notin V} \cup {new}
    BY <1>3, <1>4, <1>11, <1>19, Zenon
  <2>2. op' \in Call /\ op'.call = "rename" /\ op'.step = "removeOld"
        /\ op'.dir = op.dir /\ op'.to = op.to /\ op'.id = e.id
    BY <1>1, <1>2, <1>3, <1>8, <1>19, Zenon DEF Call, Steps
  <2> HIDE DEF es
  <2>3. \A i \in DOMAIN blobs' :
            /\ blobs'[i].type = blobs[i].type /\ blobs'[i].parent = blobs[i].parent
            /\ blobs'[i].entries = IF i = op.to THEN {x \in blobs[op.to].entries : x.id \notin V} \cup {new}
                                                ELSE blobs[i].entries
            /\ blobs'[i] \in Blob
    BY <1>12, <2>1, Zenon
  <2>4. blobs[op.to].type = "DIR" /\ e.id \notin Above(DOMAIN blobs, Up(blobs, op), op.to)
    BY <1>1, <1>2, <1>3, <1>19, SettledTree, Zenon
  <2>5. Moves(V, op.dir, op.to, e, new)
    BY <1>1, <1>12, <1>13, <1>14, <1>15, <1>16, <1>17, <1>19, <2>2, <2>3, <2>4, Zenon DEF Moves
  <2> QED
    BY <2>5, MoveEntry, Zenon
<1> QED
  BY <1>18, <1>19, Zenon

LEMMA RemoveOldEntryStep ==
    ASSUME DevInv, RemoveOldEntry
    PROVE  DevInv'
<1> USE DeviceAssumption
<1>1. op \in Call /\ Step(op) = "removeOld" /\ op.step = "removeOld"
  BY IdleView, Zenon DEF RemoveOldEntry, DevInv
<1>2. /\ op.call = "rename" /\ op.dir # op.to
      /\ op.id \in DOMAIN blobs \ {RootBlobId} /\ op.dir \in DOMAIN blobs /\ op.to \in DOMAIN blobs
      /\ blobs[op.id].parent = op.dir
      /\ \E e \in blobs[op.dir].entries : e.id = op.id
  BY <1>1, Zenon DEF DevInv, CallFacts
<1>3. PICK e \in blobs[op.dir].entries : e.id = op.id
  BY <1>2, Zenon
<1>4. \A e1, e2 \in blobs[op.dir].entries : e1.name = e2.name \/ e1.id = e2.id => e1 = e2
  BY <1>2, Zenon DEF DevInv, EntryShape
<1>5. e = CHOOSE x \in blobs[op.dir].entries : x.id = op.id
  BY <1>3, <1>4, Zenon
<1> DEFINE es == blobs[op.dir].entries \ {e}
<1>6. es = blobs[op.dir].entries \ FindByName(blobs[op.dir].entries, e.name)
  BY <1>4, Zenon DEF FindByName
<1>7. /\ blobs' = SetEntries(blobs, op.dir, es)
      /\ op' = [op EXCEPT !.step = "setParent"]
      /\ UNCHANGED <<openFiles, opened>>
  BY <1>5, <1>6, Zenon DEF RemoveOldEntry, Entries
<1>8. es \in SUBSET DirEntry /\ \A i \in DOMAIN blobs : blobs[i] \in Blob
  BY <1>2, Zenon DEF DevInv, TypeOK, Blob
<1>9. /\ DOMAIN blobs' = DOMAIN blobs
      /\ \A i \in DOMAIN blobs :
           /\ blobs'[i].type = blobs[i].type /\ blobs'[i].parent = blobs[i].parent
           /\ blobs'[i].entries = IF i = op.dir THEN es ELSE blobs[i].entries
           /\ blobs'[i] \in Blob
  <2> HIDE DEF es
  <2> QED
    BY <1>2, <1>7, <1>8, SetEntriesView
<1>10. /\ op' \in Call /\ op'.call = op.call /\ op'.dir = op.dir /\ op'.to = op.to /\ op'.id = op.id
       /\ Step(op') = "setParent"
  BY <1>1, <1>2, <1>7, Zenon DEF Call, Steps, Step
<1>11. /\ Nodes(blobs, op) = DOMAIN blobs /\ Nodes(blobs', op') = DOMAIN blobs
       /\ \A i \in DOMAIN blobs : Up(blobs, op)[i] = IF i = op.id THEN op.to ELSE blobs[i].parent
       /\ \A i \in DOMAIN blobs : Up(blobs', op')[i] = Up(blobs, op)[i]
  <2>1. Nodes(blobs, op) = DOMAIN blobs /\ Nodes(blobs', op') = DOMAIN blobs
    BY <1>1, <1>9, <1>10, Zenon DEF Nodes
  <2>2. \A i \in DOMAIN blobs : Up(blobs, op)[i] = IF i = op.id THEN op.to ELSE blobs[i].parent
    BY <1>1, <2>1, Zenon DEF Up
  <2>3. \A i \in DOMAIN blobs : Up(blobs', op')[i] = IF i = op.id THEN op.to ELSE blobs[i].parent
    BY <1>9, <1>10, <2>1, Zenon DEF Up
  <2> QED
    BY <2>1, <2>2, <2>3, Zenon
<1>12. TypeOK'
  BY <1>7, <1>9, <1>10, Zenon DEF TypeOK, DevInv
<1>13. TreeShape(blobs', op')
  <2>1. Rooted(DOMAIN blobs, Up(blobs', op'))
    <3>1. Rooted(DOMAIN blobs, Up(blobs, op))
      BY <1>11, Zenon DEF DevInv, TreeShape
    <3> QED
      BY <1>11, <3>1, RootedSame
  <2>2. RootBlobId \in DOMAIN blobs /\ blobs'[RootBlobId].parent = None
    BY <1>9, <1>11, Zenon DEF DevInv, TreeShape
  <2>3. ASSUME NEW i \in DOMAIN blobs \ {RootBlobId}
        PROVE  Up(blobs, op)[i] \in DOMAIN blobs /\ \E x \in blobs'[Up(blobs, op)[i]].entries : x.id = i
    <3>1. Up(blobs, op)[i] \in DOMAIN blobs
      BY <1>11, Zenon DEF DevInv, TreeShape
    <3>2. PICK x \in blobs[Up(blobs, op)[i]].entries : x.id = i
      BY <1>11, Zenon DEF DevInv, TreeShape
    <3>3. x # e \/ Up(blobs, op)[i] # op.dir
      BY <1>2, <1>3, <1>11, <3>2, Zenon
    <3>4. x \in blobs'[Up(blobs, op)[i]].entries
      BY <1>9, <3>1, <3>2, <3>3, Zenon
    <3> QED
      BY <3>1, <3>2, <3>4, Zenon
  <2> QED
    BY <1>9, <1>11, <2>1, <2>2, <2>3 DEF TreeShape
<1>14. EntryShape(blobs', op')
  <2>1. ASSUME NEW c \in DOMAIN blobs, NEW x \in blobs'[c].entries
        PROVE  /\ blobs'[c].type = "DIR" /\ x.id \in DOMAIN blobs \ {RootBlobId}
               /\ x.type = blobs'[x.id].type /\ c = Up(blobs', op')[x.id]
    <3>1. x \in blobs[c].entries /\ (c = op.dir => x # e)
      BY <1>9, Zenon
    <3>2. /\ blobs[c].type = "DIR" /\ x.id \in DOMAIN blobs \ {RootBlobId}
          /\ x.type = blobs[x.id].type
          /\ c = Up(blobs, op)[x.id] \/ (x.id = op.id /\ c = op.dir)
      BY <1>11, <3>1 DEF DevInv, EntryShape
    <3>3. ~(x.id = op.id /\ c = op.dir)
      BY <1>3, <1>4, <3>1, Zenon
    <3> QED
      BY <1>9, <1>11, <3>2, <3>3, Zenon
  <2>2. \A c \in DOMAIN blobs : \A e1, e2 \in blobs[c].entries :
           e1.name = e2.name \/ e1.id = e2.id => e1 = e2
    BY Zenon DEF DevInv, EntryShape
  <2>3. \A c \in DOMAIN blobs : \A e1, e2 \in blobs'[c].entries :
           e1.name = e2.name \/ e1.id = e2.id => e1 = e2
    BY <1>9, <2>2
  <2> QED
    BY <1>9, <1>11, <2>1, <2>3 DEF EntryShape
<1>15. CallFacts(blobs', op', opened')
  BY <1>2, <1>9, <1>10, Zenon DEF CallFacts
<1>16. FileFacts(blobs', op', openFiles')
  BY <1>7, <1>9, <1>11, Zenon DEF FileFacts, DevInv
<1> QED
  BY <1>12, <1>13, <1>14, <1>15, <1>16, Zenon DEF DevInv

LEMMA SetParentPointerStep ==
    ASSUME DevInv, SetParentPointer
    PROVE  DevInv'
<1> USE DeviceAssumption
<1>1. op \in Call /\ Step(op) = "setParent" /\ op' = Idle /\ Step(op') = "none"
  BY IdleView, Zenon DEF SetParentPointer, DevInv, Step, Idle
<1>2. op.id \in DOMAIN blobs \ {RootBlobId} /\ op.to \in DOMAIN blobs
  BY <1>1, Zenon DEF DevInv, CallFacts
<1>3. /\ DOMAIN blobs' = DOMAIN blobs
      /\ \A i \in DOMAIN blobs :
           /\ blobs'[i].type = blobs[i].type /\ blobs'[i].entries = blobs[i].entries
           /\ blobs'[i].parent = IF i = op.id THEN op.to ELSE blobs[i].parent
           /\ blobs'[i] \in Blob
      /\ UNCHANGED <<openFiles, opened>>
  BY <1>2, Zenon DEF SetParentPointer, DevInv, TypeOK, Blob
<1>4. /\ Nodes(blobs, op) = DOMAIN blobs /\ Nodes(blobs', op') = DOMAIN blobs
      /\ \A i \in DOMAIN blobs : Up(blobs', op')[i] = Up(blobs, op)[i]
  <2>1. Nodes(blobs, op) = DOMAIN blobs /\ Nodes(blobs', op') = DOMAIN blobs
    BY <1>1, <1>3, Zenon DEF Nodes
  <2>2. \A i \in DOMAIN blobs : Up(blobs, op)[i] = IF i = op.id THEN op.to ELSE blobs[i].parent
    BY <1>1, <2>1, Zenon DEF Up
  <2>3. \A i \in DOMAIN blobs : Up(blobs', op')[i] = blobs'[i].parent
    BY <1>1, <1>3, <2>1, Zenon DEF Up
  <2> QED
    BY <1>3, <2>1, <2>2, <2>3
<1>5. TypeOK'
  BY <1>1, <1>3, Zenon DEF TypeOK, DevInv
<1>6. TreeShape(blobs', op')
  <2>1. Rooted(DOMAIN blobs, Up(blobs', op'))
    <3>1. Rooted(DOMAIN blobs, Up(blobs, op))
      BY <1>4, Zenon DEF DevInv, TreeShape
    <3> QED
      BY <1>4, <3>1, RootedSame, Zenon
  <2>2. RootBlobId \in DOMAIN blobs /\ blobs'[RootBlobId].parent = None
    BY <1>2, <1>3, <1>4, Zenon DEF DevInv, TreeShape
  <2>3. \A i \in DOMAIN blobs \ {RootBlobId} :
          Up(blobs, op)[i] \in DOMAIN blobs /\ \E x \in blobs[Up(blobs, op)[i]].entries : x.id = i
    BY <1>4, Zenon DEF DevInv, TreeShape
  <2> QED
    BY <1>3, <1>4, <2>1, <2>2, <2>3 DEF TreeShape
<1>7. EntryShape(blobs', op')
  <2>1. \A c \in DOMAIN blobs : \A x \in blobs[c].entries :
           /\ blobs[c].type = "DIR" /\ x.id \in DOMAIN blobs \ {RootBlobId}
           /\ x.type = blobs[x.id].type /\ c = Up(blobs, op)[x.id]
    BY <1>1, <1>4, Zenon DEF DevInv, EntryShape
  <2>2. \A c \in DOMAIN blobs : \A e1, e2 \in blobs[c].entries :
           e1.name = e2.name \/ e1.id = e2.id => e1 = e2
    BY Zenon DEF DevInv, EntryShape
  <2> QED
    BY <1>3, <1>4, <2>1, <2>2 DEF EntryShape
<1>8. CallFacts(blobs', op', opened')
  BY <1>1, Zenon DEF CallFacts
<1>9. FileFacts(blobs', op', openFiles')
  BY <1>3, <1>4, Zenon DEF FileFacts, DevInv
<1> QED
  BY <1>5, <1>6, <1>7, <1>8, <1>9, Zenon DEF DevInv

-----------------------------------------------------------------------------
(* The invariant and what follows from it *)

LEMMA NextInv ==
    ASSUME ~OverwriteNonEmptyDirs, DevInv, [Next]_vars
    PROVE  DevInv'
<1>1. CASE UNCHANGED vars
  <2>1. blobs' = blobs /\ op' = op /\ openFiles' = openFiles /\ opened' = opened
    BY <1>1, Zenon DEF vars
  <2> QED
    BY <2>1, Zenon DEF DevInv, TypeOK
<1>2. CASE \E call \in DOMAIN TypeOfNew : CreateBlob(call)
  BY <1>2, CreateBlobStep, Zenon
<1>3. CASE AddChild
  BY <1>3, AddChildStep, Zenon
<1>4. CASE RemoveChild
  BY <1>4, RemoveChildStep, Zenon
<1>5. CASE RemoveBlob
  BY <1>5, RemoveBlobStep, Zenon
<1>6. CASE Rename
  BY <1>6, RenameStep, Zenon
<1>7. CASE Overwrite
  BY <1>7, OverwriteStep, Zenon
<1>8. CASE RemoveOldEntry
  BY <1>8, RemoveOldEntryStep, Zenon
<1>9. CASE SetParentPointer
  BY <1>9, SetParentPointerStep, Zenon
<1>10. CASE Open
  BY <1>10, OpenStep, Zenon
<1>11. CASE \E f \in DOMAIN openFiles : BeginCall(f) \/ EndCall(f) \/ BeginClose(f) \/ EndClose(f)
  BY <1>11, DescriptorSteps, Zenon
<1> QED
  BY <1>1, <1>2, <1>3, <1>4, <1>5, <1>6, <1>7, <1>8, <1>9, <1>10, <1>11, Zenon DEF Next

LEMMA Invariance ==
    ASSUME ~OverwriteNonEmptyDirs
    PROVE  Spec => []DevInv
BY InitInv, NextInv, PTL DEF Spec

LEMMA WholeWhenIdle == DevInv => TreeIsWhole
<1> SUFFICES ASSUME DevInv, op = Idle
             PROVE  /\ DOMAIN blobs = LoadableBlobs
                    /\ \A i \in DOMAIN blobs \ {RootBlobId} :
                         Cardinality({x \in AllEntries : x[2].id = i /\ x[2].type = blobs[i].type}) = 1
                    /\ \A x \in AllEntries, y \in AllEntries :
                         x[1] = y[1] /\ x[2].name = y[2].name => x = y
                    /\ \A x \in AllEntries : x[2].id \in DOMAIN blobs
  BY Zenon DEF TreeIsWhole
<1>1. DOMAIN blobs = LoadableBlobs
  <2> SUFFICES ASSUME NEW S \in SUBSET DOMAIN blobs, RootBlobId \in S, ClosedDownwards(S)
               PROVE  S = DOMAIN blobs
    BY Zenon DEF LoadableBlobs
  <2>1. ASSUME NEW i \in DOMAIN blobs, Up(blobs, op)[i] \in S
        PROVE  i \in S
    <3>1. blobs[i].parent \in S
      BY <2>1, IdleTree, Zenon
    <3>2. CASE i = RootBlobId
      BY <3>2, Zenon
    <3>3. CASE i # RootBlobId
      <4>1. FindById(Entries(blobs[i].parent), i) # {}
        BY <3>3, IdleTree, Zenon DEF FindById, Entries
      <4> QED
        BY <3>1, <4>1, Zenon DEF ClosedDownwards
    <3> QED
      BY <3>2, <3>3, Zenon
  <2>2. Rooted(DOMAIN blobs, Up(blobs, op))
    BY IdleTree, Zenon
  <2> QED
    BY <2>1, <2>2, Zenon DEF Rooted
<1>2. \A x : x \in AllEntries <=> \E d \in DOMAIN blobs : \E e \in blobs[d].entries : x = <<d, e>>
  BY DEF AllEntries, Entries
<1>3. \A d \in DOMAIN blobs : \A e1, e2 \in blobs[d].entries :
         e1.name = e2.name \/ e1.id = e2.id => e1 = e2
  BY Zenon DEF DevInv, EntryShape
<1>4. ASSUME NEW i \in DOMAIN blobs \ {RootBlobId}
      PROVE  Cardinality({x \in AllEntries : x[2].id = i /\ x[2].type = blobs[i].type}) = 1
  <2>1. blobs[i].parent \in DOMAIN blobs
    BY IdleTree, Zenon
  <2>2. PICK e \in blobs[blobs[i].parent].entries : e.id = i
    BY IdleTree, Zenon
  <2>3. e.type = blobs[i].type
    BY <2>1, <2>2, IdleTree
  <2>4. {x \in AllEntries : x[2].id = i /\ x[2].type = blobs[i].type} = {<<blobs[i].parent, e>>}
    <3>1. <<blobs[i].parent, e>> \in AllEntries
      BY <1>2, <2>1, <2>2, Zenon
    <3>2. ASSUME NEW x \in AllEntries, x[2].id = i
          PROVE  x = <<blobs[i].parent, e>>
      <4>0d. PICK d \in DOMAIN blobs : \E y \in blobs[d].entries : x = <<d, y>>
        BY <1>2, Zenon
      <4>1. PICK y \in blobs[d].entries : x = <<d, y>>
        BY <4>0d, Zenon
      <4>2. y.id = i
        BY <3>2, <4>1, Zenon
      <4>3. d = blobs[i].parent
        BY <4>1, <4>2, IdleTree, Zenon
      <4>4. y = e
        BY <1>3, <2>1, <2>2, <4>2, <4>3, Zenon
      <4> QED
        BY <4>1, <4>3, <4>4, Zenon
    <3> QED
      BY <2>2, <2>3, <3>1, <3>2
  <2> QED
    BY <2>4, FS_Singleton, Zenon
<1>5. ASSUME NEW x \in AllEntries, NEW y \in AllEntries, x[1] = y[1], x[2].name = y[2].name
      PROVE  x = y
  <2>0d. PICK d \in DOMAIN blobs : \E e \in blobs[d].entries : x = <<d, e>>
    BY <1>2, Zenon
  <2>1. PICK e \in blobs[d].entries : x = <<d, e>>
    BY <2>0d, Zenon
  <2>0c. PICK c \in DOMAIN blobs : \E g \in blobs[c].entries : y = <<c, g>>
    BY <1>2, Zenon
  <2>2. PICK g \in blobs[c].entries : y = <<c, g>>
    BY <2>0c, Zenon
  <2>3. c = d /\ e.name = g.name
    BY <1>5, <2>1, <2>2, Zenon
  <2> QED
    BY <1>3, <2>1, <2>2, <2>3, Zenon
<1>6. ASSUME NEW x \in AllEntries
      PROVE  x[2].id \in DOMAIN blobs
  <2>0d. PICK d \in DOMAIN blobs : \E e \in blobs[d].entries : x = <<d, e>>
    BY <1>2, Zenon
  <2>1. PICK e \in blobs[d].entries : x = <<d, e>>
    BY <2>0d, Zenon
  <2> QED
    BY <2>1, IdleTree, Zenon
<1> QED
  BY <1>1, <1>4, <1>5, <1>6, Zenon

LEMMA FilesSafe == DevInv => OpenFilesAreSafe
<1> SUFFICES ASSUME DevInv PROVE OpenFilesAreSafe
  BY Zenon
<1>1. TypeOK
  BY Zenon DEF DevInv
<1>2. EntriesHaveBlobs
  <2> SUFFICES ASSUME NEW x \in AllEntries PROVE x[2].id \in DOMAIN blobs
    BY Zenon DEF EntriesHaveBlobs
  <2>1. PICK d \in DOMAIN blobs : \E e \in blobs[d].entries : x = <<d, e>>
    BY Zenon DEF AllEntries, Entries
  <2>2. PICK e \in blobs[d].entries : x = <<d, e>>
    BY <2>1, Zenon
  <2> QED
    BY <2>2, Zenon DEF DevInv, EntryShape, Nodes
<1>3. OpenFilesKeepTheirBlobs
  BY Zenon DEF OpenFilesKeepTheirBlobs, DevInv, FileFacts, Nodes
<1>4. OpenFilesFindTheirEntry
  <2> SUFFICES ASSUME NEW f \in DOMAIN openFiles,
                      blobs[openFiles[f].id].parent = openFiles[f].parent,
                      ~(op # Idle /\ op.step = "setParent" /\ op.id = openFiles[f].id)
               PROVE  \E e \in blobs[openFiles[f].parent].entries : e.id = openFiles[f].id
    BY Zenon DEF OpenFilesFindTheirEntry, FindById, Entries
  <2> DEFINE i == openFiles[f].id
  <2>1. i \in Nodes(blobs, op) \ {RootBlobId}
    BY Zenon DEF DevInv, FileFacts
  <2>2. Step(op) = "setParent" => op.id # i
    BY IdleView, Zenon DEF DevInv, Step, Idle
  <2>3. \E e \in blobs[Up(blobs, op)[i]].entries : e.id = i
    BY <2>1, Zenon DEF DevInv, TreeShape
  <2>4. CASE Step(op) = "removeOld" /\ op.id = i
    BY <2>4, Zenon DEF DevInv, CallFacts
  <2>5. CASE ~(Step(op) = "removeOld" /\ op.id = i)
    <3>1. Up(blobs, op)[i] = blobs[i].parent
      BY <2>1, <2>2, <2>5, Zenon DEF Up
    <3> QED
      BY <2>3, <3>1, Zenon
  <2> QED
    BY <2>4, <2>5, Zenon
<1> QED
  BY <1>1, <1>2, <1>3, <1>4, Zenon DEF OpenFilesAreSafe

(* TreeIsWhole for every tree: whatever calls create, remove and rename    *)
(* nodes, CryDevice finds entries, parent pointers and blobs in agreement  *)
(* when none of them is running, unless rename overwrites a directory that *)
(* is not empty.                                                           *)
THEOREM DirectoryTreeStaysWhole ==
    ASSUME ~OverwriteNonEmptyDirs
    PROVE  Spec => []TreeIsWhole
BY Invariance, WholeWhenIdle, PTL

(* OpenFilesAreSafe for any number of descriptors and calls: at every step *)
(* of CryNode's calls lookups end at existing blobs and the remover leaves *)
(* the blobs of open files alone.                                          *)
THEOREM OpenFilesStaySafe ==
    ASSUME ~OverwriteNonEmptyDirs
    PROVE  Spec => []OpenFilesAreSafe
BY Invariance, FilesSafe, PTL

(* NodesStayLinked for every tree: no step of CryNode::rename or of        *)
(* another call leaves a node without an entry, except that of the node    *)
(* that is being removed.                                                  *)
THEOREM LinksArePermanent ==
    ASSUME ~OverwriteNonEmptyDirs
    PROVE  Spec => NodesStayLinked
<1>1. ASSUME DevInv, DevInv', [Next]_vars, NEW x \in AllEntries
      PROVE  \/ \E y \in AllEntries' : y[2].id = x[2].id
             \/ x[2].id \notin DOMAIN blobs'
             \/ op'.call = "remove" /\ op'.id = x[2].id
  <2>1. PICK d \in DOMAIN blobs : \E e \in blobs[d].entries : x = <<d, e>>
    BY Zenon DEF AllEntries, Entries
  <2>2. PICK e \in blobs[d].entries : x = <<d, e>>
    BY <2>1, Zenon
  <2>3. e.id \in Nodes(blobs, op) \ {RootBlobId}
    BY <1>1, Zenon DEF DevInv, EntryShape
  <2>4. CASE e.id \in Nodes(blobs', op')
    <3>1. PICK c : c = Up(blobs', op')[e.id]
      BY Zenon
    <3>2. c \in DOMAIN blobs' /\ \E y \in blobs'[c].entries : y.id = e.id
      BY <1>1, <2>3, <2>4, <3>1, Zenon DEF DevInv, TreeShape, Nodes
    <3>3. PICK y \in blobs'[c].entries : y.id = e.id
      BY <3>2, Zenon
    <3>4. <<c, y>> \in AllEntries'
      BY <3>2, <3>3 DEF AllEntries, Entries
    <3> QED
      BY <2>2, <3>3, <3>4, Zenon
  <2>5. CASE e.id \in DOMAIN blobs' \ Nodes(blobs', op')
    <3>1. Step(op') \in {"add", "removeBlob"} /\ op'.id = e.id
      BY <2>5, Zenon DEF Nodes
    <3>2. CASE Step(op') = "removeBlob"
      BY <1>1, <2>2, <3>1, <3>2, Zenon DEF DevInv, CallFacts
    <3>3. CASE Step(op') = "add"
      <4>1. op' = op \/ op'.id \notin DOMAIN blobs
        <5>1. CASE UNCHANGED vars
          BY <5>1, Zenon DEF vars
        <5>2. CASE \E call \in DOMAIN TypeOfNew : CreateBlob(call)
          BY <5>2 DEF CreateBlob
        <5>3. CASE AddChild \/ RemoveBlob \/ SetParentPointer
          BY <3>3, <5>3 DEF AddChild, RemoveBlob, SetParentPointer, Step, Idle
        <5>4. CASE RemoveChild
          BY <3>3, <5>4 DEF RemoveChild, Step
        <5>5. CASE Rename
          BY <3>3, <5>5 DEF Rename, RenameChild, AddOrOverwriteChild, MovedTo, Step
        <5>6. CASE Overwrite
          <6>1. op \in Call
            BY <1>1, <5>6, IdleView, Zenon DEF Overwrite, DevInv
          <6>2. op' = Idle \/ op' = [op EXCEPT !.step = "removeOld", !.victim = None]
            BY <5>6, Zenon DEF Overwrite
          <6>3. op' = [op EXCEPT !.step = "removeOld", !.victim = None] => op'.step = "removeOld"
            BY <6>1, Zenon DEF Call
          <6> QED
            BY <3>3, <6>2, <6>3 DEF Step, Idle
        <5>7. CASE RemoveOldEntry
          BY <1>1, <3>3, <5>7, IdleView, Zenon DEF RemoveOldEntry, Step, DevInv, Call
        <5>8. CASE Open
          BY <5>8, Zenon DEF Open
        <5>9. CASE \E f \in DOMAIN openFiles : BeginCall(f) \/ EndCall(f) \/ BeginClose(f) \/ EndClose(f)
          BY <5>9, Zenon DEF BeginCall, EndCall, BeginClose, EndClose
        <5> QED
          BY <1>1, <5>1, <5>2, <5>3, <5>4, <5>5, <5>6, <5>7, <5>8, <5>9, Zenon DEF Next
      <4>2. op' # op
        BY <2>3, <3>1, <3>3, Zenon DEF Nodes
      <4> QED
        BY <2>3, <3>1, <4>1, <4>2, Zenon DEF Nodes
    <3> QED
      BY <3>1, <3>2, <3>3, Zenon
  <2> QED
    BY <2>2, <2>4, <2>5, Zenon
<1>2. ASSUME DevInv, DevInv', [Next]_vars
      PROVE  [ \A x \in AllEntries :
                  \/ \E y \in AllEntries' : y[2].id = x[2].id
                  \/ x[2].id \notin DOMAIN blobs'
                  \/ op'.call = "remove" /\ op'.id = x[2].id ]_vars
  BY <1>1, <1>2, Zenon
<1> QED
  BY <1>2, Invariance, PTL DEF Spec, NodesStayLinked

(* NoCallLosesItsFile for any number of descriptors and calls: only        *)
(* FuseOpenFileList::close ends a descriptor, and it waits for the calls.  *)
THEOREM CloseWaitsForCalls == Spec => NoCallLosesItsFile
<1>1. ASSUME [Next]_vars
      PROVE  [ \A f \in DOMAIN openFiles \ DOMAIN openFiles' : openFiles[f].refcount = 0 ]_vars
  <2>1. CASE UNCHANGED vars
    BY <2>1, Zenon
  <2>2. CASE \E call \in DOMAIN TypeOfNew : CreateBlob(call)
    BY <2>2, Zenon DEF CreateBlob
  <2>3. CASE AddChild
    BY <2>3, Zenon DEF AddChild, AddOpenFile, Put
  <2>4. CASE RemoveChild \/ RemoveBlob \/ Rename \/ Overwrite \/ RemoveOldEntry \/ SetParentPointer
    BY <2>4, Zenon DEF RemoveChild, RemoveBlob, Rename, Overwrite, RemoveOldEntry, SetParentPointer
  <2>5. CASE Open
    BY <2>5, Zenon DEF Open, AddOpenFile, Put
  <2>6. ASSUME NEW f \in DOMAIN openFiles, BeginCall(f) \/ EndCall(f) \/ BeginClose(f) \/ EndClose(f)
        PROVE  \A g \in DOMAIN openFiles \ DOMAIN openFiles' : openFiles[g].refcount = 0
    BY <2>6, Zenon DEF BeginCall, EndCall, BeginClose, EndClose, Restrict
  <2> QED
    BY <1>1, <2>1, <2>2, <2>3, <2>4, <2>5, <2>6, Zenon DEF Next
<1> QED
  BY <1>1, PTL DEF Spec, NoCallLosesItsFile

=============================================================================
