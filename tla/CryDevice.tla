------------------------------ MODULE CryDevice ------------------------------
(***************************************************************************)
(* The directory tree of a mounted file system: CryDevice, CryNode and its *)
(* subclasses, DirBlob with its DirEntryList, and fspp's FilesystemImpl     *)
(* with its FuseOpenFileList.                                               *)
(*                                                                         *)
(* A blob is a directory, a file or a symlink.  It knows its parent        *)
(* directory, and the parent has an entry with its name, id and type.      *)
(* These facts are stored in different blobs, so each call changes them in *)
(* several steps: op is the call in progress.  The model runs one call     *)
(* that changes the tree at a time: the kernel locks the directories of a  *)
(* call, so that only calls in different directories are missed.  Calls on *)
(* open files interleave with it.                                          *)
(*                                                                         *)
(* Left out: file contents, modes, owners, timestamps and symlink targets. *)
(* Blob objects and their reference counts are those of                    *)
(* ParallelAccessFsBlobStore, which is used here through its promise: the  *)
(* remover of a blob waits for every other reference to it.                *)
(***************************************************************************)
EXTENDS Naturals, FiniteSets, Functions

CONSTANTS
    BlockIds,               \* the ids blobs may get
    RootBlobId,             \* the root directory
    Names,                  \* file names
    MaxOpens,               \* bound: descriptors handed out
    MaxCalls,               \* bound: calls on one open file at a time
    OverwriteNonEmptyDirs,  \* whether rename may be called over a non-empty directory
    None

ASSUME DeviceAssumption ==
    /\ RootBlobId \in BlockIds
    /\ MaxOpens \in Nat /\ MaxCalls \in Nat
    /\ OverwriteNonEmptyDirs \in BOOLEAN
    /\ None \notin BlockIds \cup Names

VARIABLES
    blobs,      \* the stored blobs: id -> [type, parent, entries]
    op,         \* the call that is changing the tree, or Idle
    openFiles,  \* FuseOpenFileList: descriptor -> [id, parent, refcount, closing]
    opened      \* IdList's _id_counter: the number of descriptors handed out

vars == <<blobs, op, openFiles, opened>>

EntryTypes == {"DIR", "FILE", "SYMLINK"}
DirEntry == [name : Names, id : BlockIds, type : EntryTypes]
Blob == [type : EntryTypes, parent : BlockIds \cup {None}, entries : SUBSET DirEntry]
Descriptors == 1..MaxOpens
OpenFile == [id : BlockIds, parent : BlockIds, refcount : 0..MaxCalls, closing : BOOLEAN]
Calls == {"createAndOpenFile", "createDir", "createSymlink", "remove", "rename"}
Steps == {"add", "removeBlob", "overwrite", "removeOld", "setParent"}
Idle == [call |-> "none"]
Call == [call : Calls, step : Steps, dir : BlockIds, id : BlockIds,
         to : BlockIds, name : Names, victim : BlockIds \cup {None}]

-----------------------------------------------------------------------------
(* DirEntryList: entries sorted by id, here the set of them. *)

FindByName(es, n) == {e \in es : e.name = n}
FindById(es, i) == {e \in es : e.id = i}

\* The check before an entry of type old is replaced by one of type new.
AllowedOverwrite(old, new) == old = new \/ (old # "DIR" /\ new # "DIR")

Entries(d) == blobs[d].entries
Put(f, k, v) == [x \in DOMAIN f \cup {k} |-> IF x = k THEN v ELSE f[x]]
SetEntries(bs, d, es) == [bs EXCEPT ![d].entries = es]
RemoveFromStore(bs, i) == Restrict(bs, DOMAIN bs \ {i})

(* CryDevice::LoadBlobWithParent: the blobs some path leads to, which is   *)
(* the smallest set with the root that contains every entry of its         *)
(* directories.  A blob whose parent pointer is not the directory it was   *)
(* found in is not loaded: the assertion throws.                           *)
ClosedDownwards(S) ==
    \A i \in DOMAIN blobs :
       blobs[i].parent \in S /\ FindById(Entries(blobs[i].parent), i) # {} => i \in S

LoadableBlobs ==
    LET closed == {S \in SUBSET DOMAIN blobs : RootBlobId \in S /\ ClosedDownwards(S)}
    IN {i \in DOMAIN blobs : \A S \in closed : i \in S}

LoadableDirs == {d \in LoadableBlobs : blobs[d].type = "DIR"}

\* References counted with the remover's own.
CountsOwnReference(i) == op # Idle \/ \E f \in DOMAIN openFiles : openFiles[f].id = i

\* References to a blob that open files hold, as the file or as its directory.
IsReferenced(i) == \E f \in DOMAIN openFiles : i \in {openFiles[f].id, openFiles[f].parent}

\* AddOrOverwriteChild and RenameChild hold the directory's mutex while they
\* remove the blob of the overwritten entry.
MutexHeld(d) == op # Idle /\ op.step = "overwrite" /\ op.to = d

\* The path lock that libfuse holds on the nodes a call changes.
PathLocked(i) == op # Idle /\ i \in {op.id, op.victim}

AddOpenFile(i, d) ==
    /\ openFiles' = Put(openFiles, opened + 1, [id |-> i, parent |-> d, refcount |-> 0, closing |-> FALSE])
    /\ opened' = opened + 1

-----------------------------------------------------------------------------
(* CryDir::createAndOpenFile, createDir, createSymlink *)

TypeOfNew == [createAndOpenFile |-> "FILE", createDir |-> "DIR", createSymlink |-> "SYMLINK"]

\* The kernel sends a create call only for a name it has just found missing.
KernelCreates(d, n) == FindByName(Entries(d), n) = {}

\* The blob is created first, with a fresh id.
CreateBlob(call) ==
    /\ op = Idle
    /\ call = "createAndOpenFile" => opened < MaxOpens
    /\ \E d \in LoadableDirs, n \in Names, i \in BlockIds \ DOMAIN blobs :
         /\ KernelCreates(d, n)
         /\ blobs' = Put(blobs, i, [type |-> TypeOfNew[call], parent |-> d, entries |-> {}])
         /\ op' = [call |-> call, step |-> "add", dir |-> d, id |-> i, to |-> d, name |-> n, victim |-> None]
    /\ UNCHANGED <<openFiles, opened>>

\* Then the directory gets its entry, or add throws EEXIST.
AddChild ==
    /\ op # Idle /\ op.step = "add"
    /\ op' = Idle
    /\ IF FindByName(Entries(op.dir), op.name) # {}
       THEN UNCHANGED <<blobs, openFiles, opened>>
       ELSE /\ blobs' = SetEntries(blobs, op.dir, Entries(op.dir) \cup
                          {[name |-> op.name, id |-> op.id, type |-> TypeOfNew[op.call]]})
            /\ IF op.call = "createAndOpenFile"
               THEN AddOpenFile(op.id, op.dir)
               ELSE UNCHANGED <<openFiles, opened>>

-----------------------------------------------------------------------------
(* CryDir::remove, CryFile::remove, CrySymlink::remove and CryNode::removeNode *)

\* libfuse does not pass on an unlink of an open file: it renames it.
NotOpen(i) == \A f \in DOMAIN openFiles : openFiles[f].id # i

\* The entry goes first.  A directory must be empty (ENOTEMPTY).
RemoveChild ==
    /\ op = Idle
    /\ \E d \in LoadableDirs : \E e \in Entries(d) :
         /\ NotOpen(e.id)
         /\ e.type = "DIR" => e.id \in LoadableDirs /\ Entries(e.id) = {}
         /\ blobs' = SetEntries(blobs, d, Entries(d) \ FindById(Entries(d), e.id))
         /\ op' = [call |-> "remove", step |-> "removeBlob", dir |-> d, id |-> e.id,
                   to |-> d, name |-> e.name, victim |-> None]
    /\ UNCHANGED <<openFiles, opened>>

\* A removal that does not wait for the other references.
DoesNotWait ==
    /\ op # Idle /\ op.step = "removeBlob"
    /\ blobs' = RemoveFromStore(blobs, op.id)
    /\ op' = Idle
    /\ UNCHANGED <<openFiles, opened>>

\* Then the blob, once nobody else refers to it.
RemoveBlob ==
    /\ op # Idle /\ op.step = "removeBlob"
    /\ ~IsReferenced(op.id)
    /\ blobs' = RemoveFromStore(blobs, op.id)
    /\ op' = Idle
    /\ UNCHANGED <<openFiles, opened>>

-----------------------------------------------------------------------------
(* CryNode::rename *)

\* A blob and the directories above it.
SelfAndAncestors(i) ==
    LET closed == {S \in SUBSET DOMAIN blobs :
                     i \in S /\ \A a \in S : blobs[a].parent \in S \cup {None}}
    IN {a \in DOMAIN blobs : \A S \in closed : a \in S}

(* What the kernel and libfuse let through: no directory is moved below    *)
(* itself, and what is overwritten is not above the source, is not open    *)
(* (libfuse renames it first) and is a directory iff the source is one.    *)
(* The kernel does not look whether that directory is empty.               *)
KernelRenames(d, e, to, n) ==
    /\ e.id \notin SelfAndAncestors(to)
    /\ \A v \in FindByName(Entries(to), n) :
         v = e \/ /\ v.id \notin SelfAndAncestors(d)
                  /\ NotOpen(v.id)
                  /\ AllowedOverwrite(v.type, e.type)
                  /\ OverwriteNonEmptyDirs \/ v.type # "DIR" \/ Entries(v.id) = {}

MovedTo(d, e, to, n, step, victim) ==
    op' = [call |-> "rename", step |-> step, dir |-> d, id |-> e.id, to |-> to, name |-> n, victim |-> victim]

\* A rename that does not see that the entry with the new name is the renamed one.
OverwritesItself(d, e, n) ==
    LET same == FindByName(Entries(d), n) IN
    IF same = {}
    THEN /\ blobs' = SetEntries(blobs, d, (Entries(d) \ {e}) \cup {[e EXCEPT !.name = n]})
         /\ UNCHANGED op
    ELSE \E v \in same : MovedTo(d, e, d, n, "overwrite", v.id) /\ UNCHANGED blobs

\* DirEntryList::rename in one directory: the entry gets a new name, after
\* the blob of an entry that already has it was removed.
RenameChild(d, e, n) ==
    LET same == FindByName(Entries(d), n) \ {e} IN
    IF same = {}
    THEN /\ blobs' = SetEntries(blobs, d, (Entries(d) \ {e}) \cup {[e EXCEPT !.name = n]})
         /\ UNCHANGED op
    ELSE \E v \in same :
         /\ AllowedOverwrite(v.type, e.type)
         /\ MovedTo(d, e, d, n, "overwrite", v.id)
         /\ UNCHANGED blobs

\* A move that forgets the entry in the target directory.
ForgetsToAdd(d, e, to, n) ==
    /\ FindByName(Entries(to), n) = {}
    /\ MovedTo(d, e, to, n, "removeOld", None)
    /\ UNCHANGED blobs

\* DirEntryList::addOrOverwrite in another directory: there, the node gets a
\* second entry, after the blob of an entry with that name was removed.
AddOrOverwriteChild(d, e, to, n) ==
    LET same == FindByName(Entries(to), n) IN
    IF same = {}
    THEN /\ blobs' = SetEntries(blobs, to, Entries(to) \cup {[e EXCEPT !.name = n]})
         /\ MovedTo(d, e, to, n, "removeOld", None)
    ELSE \E v \in same :
         /\ MovedTo(d, e, to, n, "overwrite", v.id)
         /\ UNCHANGED blobs

Rename ==
    /\ op = Idle
    /\ \E d \in LoadableDirs, to \in LoadableDirs, n \in Names : \E e \in Entries(d) :
         /\ KernelRenames(d, e, to, n)
         /\ IF to = d THEN RenameChild(d, e, n) ELSE AddOrOverwriteChild(d, e, to, n)
    /\ UNCHANGED <<openFiles, opened>>

(* onOverwritten removes the blob of the overwritten entry, once nobody    *)
(* else refers to it.  Then that entry makes room for the renamed one.     *)
(* addOrOverwrite checks only now whether it may be overwritten.           *)
Overwrite ==
    /\ op # Idle /\ op.step = "overwrite"
    /\ ~IsReferenced(op.victim)
    /\ LET removed == RemoveFromStore(blobs, op.victim)
           e == CHOOSE x \in Entries(op.dir) : x.id = op.id
           v == CHOOSE x \in Entries(op.to) : x.id = op.victim
           kept == Entries(op.to) \ (IF op.to = op.dir THEN {v, e} ELSE {v})
       IN IF AllowedOverwrite(v.type, e.type)
          THEN /\ blobs' = SetEntries(removed, op.to, kept \cup {[e EXCEPT !.name = op.name]})
               /\ op' = IF op.to = op.dir THEN Idle
                        ELSE [op EXCEPT !.step = "removeOld", !.victim = None]
          ELSE blobs' = removed /\ op' = Idle
    /\ UNCHANGED <<openFiles, opened>>

\* The entry in the old directory goes.
RemoveOldEntry ==
    /\ op # Idle /\ op.step = "removeOld"
    /\ LET old == CHOOSE x \in Entries(op.dir) : x.id = op.id
       IN blobs' = SetEntries(blobs, op.dir, Entries(op.dir) \ FindByName(Entries(op.dir), old.name))
    /\ op' = [op EXCEPT !.step = "setParent"]
    /\ UNCHANGED <<openFiles, opened>>

\* The moved blob learns its new directory.
SetParentPointer ==
    /\ op # Idle /\ op.step = "setParent"
    /\ blobs' = [blobs EXCEPT ![op.id].parent = op.to]
    /\ op' = Idle
    /\ UNCHANGED <<openFiles, opened>>

-----------------------------------------------------------------------------
(* FilesystemImpl::openFile, the calls on a descriptor, and closeFile *)

\* CryFile::open keeps references to the file and to the directory it was found in.
Open ==
    /\ opened < MaxOpens - (IF op.call = "createAndOpenFile" THEN 1 ELSE 0)
    /\ \E d \in LoadableDirs : \E e \in Entries(d) :
         /\ e.type = "FILE" /\ e.id \in LoadableBlobs
         /\ ~PathLocked(e.id) /\ ~MutexHeld(d)
         /\ AddOpenFile(e.id, d)
    /\ UNCHANGED <<blobs, op>>

\* FuseOpenFileList::load counts the call.  The kernel sends no call after release.
BeginCall(f) ==
    /\ ~openFiles[f].closing /\ openFiles[f].refcount < MaxCalls
    /\ openFiles' = [openFiles EXCEPT ![f].refcount = @ + 1]
    /\ UNCHANGED <<blobs, op, opened>>

\* CryOpenFile::read, write, truncate, stat, flush and fsync all lock the
\* entries of the remembered directory.  All but the last two look up the
\* file's entry there and throw ENOENT if it has none.
EndCall(f) ==
    LET file == openFiles[f] IN
    /\ file.refcount > 0 /\ ~MutexHeld(file.parent)
    /\ openFiles' = [openFiles EXCEPT ![f].refcount = @ - 1]
    /\ UNCHANGED <<blobs, op, opened>>

\* The kernel's release reaches FuseOpenFileList::close ...
BeginClose(f) ==
    /\ ~openFiles[f].closing
    /\ openFiles' = [openFiles EXCEPT ![f].closing = TRUE]
    /\ UNCHANGED <<blobs, op, opened>>

\* A close that does not wait for the calls in progress.
ClosesAtOnce(f) ==
    /\ openFiles[f].closing
    /\ openFiles' = Restrict(openFiles, DOMAIN openFiles \ {f})
    /\ UNCHANGED <<blobs, op, opened>>

\* ... which destroys the open file when no call uses it any more.
EndClose(f) ==
    /\ openFiles[f].closing /\ openFiles[f].refcount = 0
    /\ openFiles' = Restrict(openFiles, DOMAIN openFiles \ {f})
    /\ UNCHANGED <<blobs, op, opened>>

-----------------------------------------------------------------------------
\* CryDevice::CreateRootBlobAndReturnId: an empty root directory.
Init ==
    /\ blobs = [i \in {RootBlobId} |-> [type |-> "DIR", parent |-> None, entries |-> {}]]
    /\ op = Idle
    /\ openFiles = << >> /\ opened = 0

FinishCall == AddChild \/ RemoveBlob \/ Overwrite \/ RemoveOldEntry \/ SetParentPointer

Next ==
    \/ \E call \in DOMAIN TypeOfNew : CreateBlob(call)
    \/ AddChild
    \/ RemoveChild
    \/ RemoveBlob
    \/ Rename
    \/ Overwrite
    \/ RemoveOldEntry
    \/ SetParentPointer
    \/ Open
    \/ \E f \in DOMAIN openFiles : BeginCall(f) \/ EndCall(f) \/ BeginClose(f) \/ EndClose(f)

Spec == Init /\ [][Next]_vars

(* A call that was begun is run to its end, and every application closes   *)
(* its files some day.                                                     *)
Fairness ==
    /\ WF_vars(FinishCall)
    /\ \A f \in Descriptors :
         /\ WF_vars(f \in DOMAIN openFiles /\ EndCall(f))
         /\ WF_vars(f \in DOMAIN openFiles /\ BeginClose(f))
         /\ WF_vars(f \in DOMAIN openFiles /\ EndClose(f))

FairSpec == Spec /\ Fairness

-----------------------------------------------------------------------------
TypeOK ==
    /\ DOMAIN blobs \subseteq BlockIds
    /\ \A i \in DOMAIN blobs : blobs[i] \in Blob
    /\ op \in Call \cup {Idle}
    /\ DOMAIN openFiles \subseteq 1..opened
    /\ \A f \in DOMAIN openFiles : openFiles[f] \in OpenFile
    /\ opened \in 0..MaxOpens

AllEntries == UNION {{<<d, e>> : e \in Entries(d)} : d \in DOMAIN blobs}

(* Between two calls that change the tree, the three places that describe  *)
(* it agree: each blob but the root is loadable, has exactly one entry,    *)
(* in the directory its parent pointer names and with its own type; and a  *)
(* directory has no two entries of one name.  CryNode's calls update these *)
(* one by one, and CryDevice::LoadBlobWithParent asserts the outcome.      *)
TreeIsWhole ==
    op = Idle =>
      /\ DOMAIN blobs = LoadableBlobs
      /\ \A i \in DOMAIN blobs \ {RootBlobId} :
           Cardinality({x \in AllEntries : x[2].id = i /\ x[2].type = blobs[i].type}) = 1
      /\ \A x \in AllEntries, y \in AllEntries :
           x[1] = y[1] /\ x[2].name = y[2].name => x = y
      /\ \A x \in AllEntries : x[2].id \in DOMAIN blobs

(* At no moment does an entry that can be looked up lead to a missing      *)
(* blob: removeNode takes the entry away first, create adds it last, and   *)
(* an overwritten entry is dead only under its directory's mutex.          *)
EntriesHaveBlobs ==
    \A x \in AllEntries : x[2].id \in DOMAIN blobs \/ MutexHeld(x[1])

(* The blobs an open file refers to are never removed under it, and its    *)
(* descriptor stays until no call uses it: the remover in                  *)
(* CryDevice::RemoveBlob and FuseOpenFileList::close both wait.            *)
OpenFilesKeepTheirBlobs ==
    \A f \in DOMAIN openFiles : {openFiles[f].id, openFiles[f].parent} \subseteq DOMAIN blobs

(* A blob that has an entry keeps one until it is removed: in a rename     *)
(* across directories there is no moment in which the node is in neither.  *)
NodesStayLinked ==
    [][ \A x \in AllEntries :
          \/ \E y \in AllEntries' : y[2].id = x[2].id
          \/ x[2].id \notin DOMAIN blobs'
          \/ op'.call = "remove" /\ op'.id = x[2].id ]_vars

(* The calls of CryOpenFile find the file's entry in the directory it was  *)
(* opened in, unless the file was moved to another one while it was open:  *)
(* CryOpenFile does not follow the move, and its calls then throw ENOENT.  *)
OpenFilesFindTheirEntry ==
    \A f \in DOMAIN openFiles :
       LET file == openFiles[f] IN
       \/ FindById(Entries(file.parent), file.id) # {}
       \/ blobs[file.id].parent # file.parent
       \/ op # Idle /\ op.step = "setParent" /\ op.id = file.id

(* FuseOpenFileList::close frees an open file only when no call is using   *)
(* it: a step that ends a descriptor finds its refcount at zero.           *)
NoCallLosesItsFile ==
    [][ \A f \in DOMAIN openFiles \ DOMAIN openFiles' : openFiles[f].refcount = 0 ]_vars

(* Every call that changes the tree comes to its end, although rmdir and   *)
(* rename wait for open files that still refer to the directory (a file    *)
(* moved out of it keeps such a reference): they are closed some day.      *)
CallsTerminate == op # Idle ~> op = Idle

(* Open files and lookups stay safe while the tree changes: the three      *)
(* properties about entries and open files together, and the types.        *)
OpenFilesAreSafe ==
    TypeOK /\ EntriesHaveBlobs /\ OpenFilesKeepTheirBlobs /\ OpenFilesFindTheirEntry
=============================================================================
