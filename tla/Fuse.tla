-------------------------------- MODULE Fuse --------------------------------
(***************************************************************************)
(* The calls a mounted file system answers: Fuse's handlers, fspp's        *)
(* FilesystemImpl, the nodes of CryDevice and the directory entries with   *)
(* their attributes and timestamps, down to the bytes a DirBlob keeps in   *)
(* its base blob.                                                          *)
(*                                                                         *)
(* A call is one step here, because this module is about what each call    *)
(* computes, what it leaves behind when it throws half way, and what a     *)
(* directory writes when it is unloaded; CryDevice is about calls that     *)
(* overlap.  An outcome is the blobs a call leaves and its errno.  A call  *)
(* that would wait for another reference to a blob it removes is not taken.*)
(*                                                                         *)
(* Left out: names longer than one letter, group ids (treated exactly as   *)
(* user ids), symlink targets, and the numbers that statfs reports.        *)
(***************************************************************************)
EXTENDS Integers, Sequences, SequencesExt, FiniteSetsExt

CONSTANTS
    Paths,          \* the paths calls are made with: sequences of at most two names
    Ids,            \* the ids blobs may get, in their order: numbers
    RootId,         \* the root directory's id
    FirstByte,      \* the first byte of an id
    Options,        \* the sets of mount options to run with
    Trees,          \* the file systems to start from: id -> blob
    MaxChanges      \* bound: calls that change the file system

VARIABLES
    state,      \* "constructed", "context created", "running" or "stopped"
    _fs,        \* "InvalidFilesystem" or "FilesystemImpl"
    behavior,   \* the Context's TimestampUpdateBehavior
    blobs,      \* id -> [type, parent, entries, changed, stored, data]
    openFile,   \* the CryOpenFile behind the one descriptor in use, or NotOpen
    now,        \* the time
    changes,    \* the number of calls that changed the file system
    reply       \* the last call and its errno, until the kernel has taken it

vars == <<state, _fs, behavior, blobs, openFile, now, changes, reply>>

Null == -1
Day == 100
NotOpen == [id |-> Null, parent |-> Null]
NoReply == [call |-> "none", err |-> "ok"]

ParentPath(p) == SubSeq(p, 1, Len(p) - 1)

Ok(bs) == [bs |-> bs, err |-> "ok"]
Throw(bs, e) == [bs |-> bs, err |-> e]
Then(o, Op(_)) == IF o.err = "ok" THEN Op(o.bs) ELSE o

-----------------------------------------------------------------------------
(* DirEntryList: a vector of entries ordered by block id *)

ByName(es, n) == {i \in DOMAIN es : es[i].name = n}

\* get(name): the first entry with the name, if there is one
Get(es, n) == es[Min(ByName(es, n))]

\* A hinted search that does not look left of where it starts.
FindFirstToTheRight(es, hint, found) ==
    LET start == 1 + (FirstByte[hint] * (Len(es) - 1)) \div 255
        ahead == found \cap start..Len(es)
    IN IF es = << >> \/ ahead = {} THEN Len(es) + 1 ELSE Min(ahead)

\* _findFirst: start at a place the id's first byte suggests, walk left while
\* the predicate holds (found, the places where it does) and then right until
\* it does.  Len + 1 is end().
FindFirst(es, hint, found) ==
    LET start == 1 + (FirstByte[hint] * (Len(es) - 1)) \div 255
        left == Max({1} \cup (1..start \ found))
        ahead == found \cap left..Len(es)
    IN IF es = << >> \/ ahead = {} THEN Len(es) + 1 ELSE Min(ahead)

\* A lower bound that is only looked for to the right of the hint.
LowerBoundToTheRight(es, id) == FindFirstToTheRight(es, id, {i \in DOMAIN es : ~(es[i].id < id)})

LowerBound(es, id) == FindFirst(es, id, {i \in DOMAIN es : ~(es[i].id < id)})
UpperBound(es, id) == FindFirst(es, id, {i \in DOMAIN es : id < es[i].id})

\* _findById, which throws ENOENT when HasId is false
HasId(es, id) == LowerBound(es, id) <= Len(es) /\ es[LowerBound(es, id)].id = id

Add(es, entry) == InsertAt(es, UpperBound(es, entry.id), [entry EXCEPT !.ctime = now])

\* remove(blockId): from the lower bound to the first entry with another id
RemoveId(es, id) == IF HasId(es, id) THEN RemoveAt(es, LowerBound(es, id)) ELSE es

\* _checkAllowedOverwrite
OverwriteError(old, new) ==
    IF old # new /\ old = "DIR" THEN "EISDIR"
    ELSE IF old # new /\ new = "DIR" THEN "ENOTDIR" ELSE "ok"

\* serialize() and deserializeFrom() assert this order
Ordered(es) == \A i \in 1..(Len(es) - 1) : es[i].id < es[i + 1].id

-----------------------------------------------------------------------------
(* Context.h: whether a read moves the access time *)

Relatime(e) == e.atime < e.mtime \/ e.atime < now - Day

ShouldUpdateATimeOnFileRead(e) ==
    CASE behavior = "noatime" -> FALSE
      [] behavior \in {"strictatime", "nodiratime_strictatime"} -> TRUE
      [] behavior \in {"relatime", "nodiratime_relatime"} -> Relatime(e)

ShouldUpdateATimeOnDirectoryRead(e) ==
    CASE behavior \in {"noatime", "nodiratime_strictatime", "nodiratime_relatime"} -> FALSE
      [] behavior = "strictatime" -> TRUE
      [] behavior = "relatime" -> Relatime(e)

-----------------------------------------------------------------------------
(* DirBlob: each operation changes the entries and says so in _changed *)

SetEntries(bs, d, es) == [bs EXCEPT ![d].entries = es, ![d].changed = TRUE]

Child(bs, d, id) == bs[d].entries[LowerBound(bs[d].entries, id)]

\* the entry of child id is replaced if that is asked for; ENOENT without one
WithChild(bs, d, id, asked, entry) ==
    LET es == bs[d].entries
    IN CASE ~HasId(es, id) -> Throw(bs, "ENOENT")
         [] HasId(es, id) /\ ~asked -> Ok(bs)
         [] OTHER -> Ok(SetEntries(bs, d, [es EXCEPT ![LowerBound(es, id)] = entry]))

\* DirEntry's setters move the time of the last metadata change, except for the access time
setMode(e, mode) == [e EXCEPT !.mode = mode, !.ctime = now]
setUidGid(e, uid) == [e EXCEPT !.uid = uid, !.ctime = now]
setAccessTimes(e, atime, mtime) == [e EXCEPT !.atime = atime, !.mtime = mtime, !.ctime = now]
Modified(e) == [e EXCEPT !.mtime = now, !.ctime = now]
Accessed(e) == [e EXCEPT !.atime = now]

\* what DirEntryList::updateAccessTimestampForChild returns
AccessChanges(e) ==
    IF e.type = "DIR" THEN ShouldUpdateATimeOnDirectoryRead(e) ELSE ShouldUpdateATimeOnFileRead(e)

updateModificationTimestampForChild(bs, d, id) == WithChild(bs, d, id, TRUE, Modified(Child(bs, d, id)))

\* An access that marks the directory as changed even if the policy keeps the time.
AlwaysChanged(bs, d, id) ==
    LET e == Child(bs, d, id) IN WithChild(bs, d, id, TRUE, IF AccessChanges(e) THEN Accessed(e) ELSE e)

updateAccessTimestampForChild(bs, d, id) ==
    WithChild(bs, d, id, AccessChanges(Child(bs, d, id)), Accessed(Child(bs, d, id)))

chmodChild(bs, d, id, mode) == WithChild(bs, d, id, TRUE, setMode(Child(bs, d, id), mode))

\* uid -1 leaves the owner alone
chownChild(bs, d, id, uid) == WithChild(bs, d, id, uid # -1, setUidGid(Child(bs, d, id), uid))

utimensChild(bs, d, id, atime, mtime) ==
    WithChild(bs, d, id, TRUE, setAccessTimes(Child(bs, d, id), atime, mtime))

\* statChildWithKnownSize; statChild asks for the size first, which asserts that the blob is there
statChildWithKnownSize(bs, d, id) == IF HasId(bs[d].entries, id) THEN Ok(bs) ELSE Throw(bs, "ENOENT")
statChild(bs, d, id) == IF id \in DOMAIN bs THEN statChildWithKnownSize(bs, d, id) ELSE Throw(bs, "EIO")

\* DirEntryList::add: the names are looked through before the entry is inserted
AddError(es, entry) == IF ByName(es, entry.name) # {} THEN "EEXIST" ELSE "ok"

\* A new child is appended to the list.
AppendsChild(bs, d, entry) ==
    IF AddError(bs[d].entries, entry) # "ok" THEN Throw(bs, AddError(bs[d].entries, entry))
    ELSE Ok(SetEntries(bs, d, Append(bs[d].entries, [entry EXCEPT !.ctime = now])))

AddChild(bs, d, entry) ==
    IF AddError(bs[d].entries, entry) # "ok" THEN Throw(bs, AddError(bs[d].entries, entry))
    ELSE Ok(SetEntries(bs, d, Add(bs[d].entries, entry)))

RemoveChildById(bs, d, id) == Ok(SetEntries(bs, d, RemoveId(bs[d].entries, id)))

RemoveChildByName(bs, d, n) ==
    LET found == ByName(bs[d].entries, n) IN
    IF found = {} THEN Throw(bs, "ENOENT")
    ELSE Ok(SetEntries(bs, d, RemoveAt(bs[d].entries, Min(found))))

-----------------------------------------------------------------------------
(* CryDevice: from a path to a node.  A node knows its parent and          *)
(* grandparent, Null above the root.                                       *)

Node(err, id, parent, grandparent, type) ==
    [err |-> err, id |-> id, parent |-> parent, grandparent |-> grandparent, type |-> type]
NoNode(err) == Node(err, Null, Null, Null, "none")

\* One component of LoadBlobWithParent's loop.
LoadChild(dir, n) ==
    LET found == ByName(blobs[dir.id].entries, n)
        child == Get(blobs[dir.id].entries, n).id
    IN CASE dir.err # "ok" -> dir
         [] dir.type # "DIR" -> NoNode("ENOTDIR")
         [] found = {} \/ child \notin DOMAIN blobs -> NoNode("ENOENT")
         [] blobs[child].parent # dir.id -> NoNode("EIO")
         [] OTHER -> Node("ok", child, dir.id, dir.parent, blobs[child].type)

LoadDirBlobWithParent(p) ==
    LET Walk[k \in 0..Len(p)] ==
          IF k = 0 THEN Node("ok", RootId, Null, Null, "DIR") ELSE LoadChild(Walk[k - 1], p[k])
    IN IF Walk[Len(p)].err = "ok" /\ Walk[Len(p)].type # "DIR" THEN NoNode("ENOTDIR") ELSE Walk[Len(p)]

\* The last component is only looked up, "none" if it is missing; its blob is not loaded.
Load(p) ==
    LET dir == LoadDirBlobWithParent(ParentPath(p))
        found == ByName(blobs[dir.id].entries, p[Len(p)])
    IN CASE p = << >> -> Node("ok", RootId, Null, Null, "DIR")
         [] p # << >> /\ dir.err # "ok" -> dir
         [] p # << >> /\ dir.err = "ok" /\ found = {} -> NoNode("none")
         [] OTHER -> LET e == Get(blobs[dir.id].entries, p[Len(p)])
                     IN Node("ok", e.id, dir.id, dir.parent, e.type)

OfType(n, type, errno) == IF n.err = "ok" /\ n.type # type THEN NoNode(errno) ELSE n

DeviceLoadFile(p) == OfType(Load(p), "FILE", "EISDIR")
DeviceLoadDir(p) == OfType(Load(p), "DIR", "ENOTDIR")
DeviceLoadSymlink(p) == OfType(Load(p), "SYMLINK", "ENOTDIR")

\* FilesystemImpl: a missing file, directory or symlink is EIO, a missing node ENOENT
NoneIs(n, errno) == IF n.err = "none" THEN NoNode(errno) ELSE n
LoadFile(p) == NoneIs(DeviceLoadFile(p), "EIO")
LoadDir(p) == NoneIs(DeviceLoadDir(p), "EIO")
LoadSymlink(p) == NoneIs(DeviceLoadSymlink(p), "EIO")
OnNode(n, outcome) == IF n.err = "ok" THEN outcome ELSE Throw(blobs, n.err)

\* CryNode::LoadBlob: a missing blob is EIO, a wrong parent pointer asserts
LoadNodeBlob(bs, n) ==
    IF n.id \in DOMAIN bs /\ bs[n.id].parent = n.parent THEN Ok(bs) ELSE Throw(bs, "EIO")

\* its overrides in CryDir, CryFile and CrySymlink assert the type
BlobOfType(bs, n, type) ==
    Then(LoadNodeBlob(bs, n), LAMBDA b : IF b[n.id].type = type THEN Ok(b) ELSE Throw(b, "EIO"))
LoadDirBlob(bs, n) == BlobOfType(bs, n, "DIR")
LoadFileBlob(bs, n) == BlobOfType(bs, n, "FILE")
LoadSymlinkBlob(bs, n) == BlobOfType(bs, n, "SYMLINK")

\* CryDevice::RemoveBlob: waits for open files that refer to the blob
RemoveBlob(bs, id) ==
    CASE id \notin DOMAIN bs -> Throw(bs, "EIO")
      [] id \in {openFile.id, openFile.parent} -> Throw(bs, "waits")
      [] OTHER -> Ok([i \in DOMAIN bs \ {id} |-> bs[i]])

-----------------------------------------------------------------------------
(* CryNode and its subclasses *)

\* The modification time of the directory d, which is kept in its parent's
\* entries; the root directory has none.
Touch(bs, d, parent) ==
    IF parent = Null THEN Ok(bs) ELSE updateModificationTimestampForChild(bs, parent, d)

NewBlob(type, parent) ==
    [type |-> type, parent |-> parent, entries |-> << >>, changed |-> FALSE, stored |-> << >>, data |-> 0]

\* CryDevice::CreateFileBlob, CreateDirBlob and CreateSymlinkBlob
CreateBlob(bs, id, type, parent) ==
    Ok([i \in DOMAIN bs \cup {id} |-> IF i = id THEN NewBlob(type, parent) ELSE bs[i]])

NewEntry(n, id, type) ==
    [type |-> type, name |-> n, id |-> id, mode |-> 0, uid |-> 0, atime |-> now, mtime |-> now, ctime |-> now]

\* CryDir::createDir and createSymlink: the time, the directory, the new blob and then the entry
CreateChild(dir, n, id, type) ==
    LET touched == Then(Touch(blobs, dir.id, dir.parent), LAMBDA bs : LoadDirBlob(bs, dir))
        created == Then(touched, LAMBDA bs : CreateBlob(bs, id, type, dir.id))
    IN Then(created, LAMBDA bs : AddChild(bs, dir.id, NewEntry(n, id, type)))
createDir(dir, n, id) == CreateChild(dir, n, id, "DIR")
createSymlink(dir, n, id) == CreateChild(dir, n, id, "SYMLINK")

\* CryDir::createAndOpenFile creates the blob before it loads the directory
createAndOpenFile(dir, n, id) ==
    LET touched == Touch(blobs, dir.id, dir.parent)
        created == Then(touched, LAMBDA bs : CreateBlob(bs, id, "FILE", dir.id))
    IN Then(Then(created, LAMBDA bs : LoadDirBlob(bs, dir)),
            LAMBDA bs : AddChild(bs, dir.id, NewEntry(n, id, "FILE")))

\* CryDir::children
Children(dir) ==
    LET accessed == IF dir.parent = Null THEN Ok(blobs)
                    ELSE updateAccessTimestampForChild(blobs, dir.parent, dir.id)
    IN Then(accessed, LAMBDA bs : LoadDirBlob(bs, dir))

\* CryNode::removeNode
RemoveNode(bs, n) ==
    IF n.parent = Null THEN Throw(bs, "EIO")
    ELSE Then(RemoveChildById(bs, n.parent, n.id), LAMBDA b : RemoveBlob(b, n.id))

\* the time of the directory that loses the node, unless that is the root directory
TouchParent(n) == IF n.grandparent = Null THEN Ok(blobs) ELSE Touch(blobs, n.parent, n.grandparent)

RemoveFile(n) == Then(TouchParent(n), LAMBDA bs : RemoveNode(bs, n))
RemoveSymlink(n) == Then(TouchParent(n), LAMBDA bs : RemoveNode(bs, n))

\* CryDir::remove checks between the two that the directory is empty
RemoveDir(n) ==
    LET loaded == Then(TouchParent(n), LAMBDA bs : LoadDirBlob(bs, n))
        checked == Then(loaded, LAMBDA bs : IF bs[n.id].entries = << >> THEN Ok(bs) ELSE Throw(bs, "ENOTEMPTY"))
    IN Then(checked, LAMBDA bs : RemoveNode(bs, n))

Remove_(n) == CASE n.type = "DIR" -> RemoveDir(n) [] n.type = "FILE" -> RemoveFile(n) [] OTHER -> RemoveSymlink(n)

\* DirEntryList::rename: the check comes before the blob of the overwritten entry is removed
RenameChild(bs, d, id, name) ==
    LET es == bs[d].entries
        same == ByName(es, name) \ {LowerBound(es, id)}
        other == es[Min(same)]
        error == OverwriteError(other.type, es[LowerBound(es, id)].type)
        Renamed(b, list) == Ok(SetEntries(b, d, [list EXCEPT ![LowerBound(list, id)] =
                                  [@ EXCEPT !.name = name, !.ctime = now]]))
    IN CASE same = {} -> Renamed(bs, es)
         [] same # {} /\ error # "ok" -> Throw(bs, error)
         [] OTHER -> Then(RemoveBlob(bs, other.id), LAMBDA b : Renamed(b, RemoveAt(es, Min(same))))

\* DirEntryList::addOrOverwrite: the blob is removed before the check
AddOrOverwriteChild(bs, d, entry) ==
    LET es == bs[d].entries
        same == ByName(es, entry.name)
        old == es[Min(same)]
        Overwrite(b) == IF OverwriteError(old.type, entry.type) # "ok"
                        THEN Throw(b, OverwriteError(old.type, entry.type))
                        ELSE Ok(SetEntries(b, d, Add(RemoveAt(es, Min(same)), entry)))
    IN IF same = {} THEN Ok(SetEntries(bs, d, Add(es, entry)))
       ELSE Then(RemoveBlob(bs, old.id), Overwrite)

\* A target directory that keeps its modification time.
ForgetsTargetDir(bs, dir) == Ok(bs)

UpdateTargetDirModificationTimestamp(bs, dir) ==
    IF dir.parent = Null THEN Ok(bs) ELSE updateModificationTimestampForChild(bs, dir.parent, dir.id)

\* CryNode::rename: the modification times are set before anything can fail; then
\* the entry is renamed, or added to the other directory, removed from the old one,
\* and the blob gets its new parent pointer.
Rename(n, to) ==
    LET dir == LoadDirBlobWithParent(ParentPath(to))
        name == to[Len(to)]
        old == blobs[n.parent].entries[LowerBound(blobs[n.parent].entries, n.id)]
        touched == Touch(blobs, n.parent, n.grandparent)
        both == Then(touched, LAMBDA bs : UpdateTargetDirModificationTimestamp(bs, dir))
        added == Then(both, LAMBDA bs : AddOrOverwriteChild(bs, dir.id, [old EXCEPT !.name = name]))
        removed == Then(added, LAMBDA bs : RemoveChildByName(bs, n.parent, old.name))
        moved == Then(Then(removed, LAMBDA bs : LoadNodeBlob(bs, n)), LAMBDA bs : Ok([bs EXCEPT ![n.id].parent = dir.id]))
    IN CASE n.parent = Null -> Throw(blobs, "EBUSY")
         [] n.parent # Null /\ dir.err # "ok" -> Throw(blobs, dir.err)
         [] n.parent # Null /\ dir.id = n.parent -> Then(touched, LAMBDA bs : RenameChild(bs, dir.id, n.id, name))
         [] OTHER -> moved

\* CryNode::stat; the root directory has fixed attributes
Stat(n) == IF n.parent = Null THEN Ok(blobs) ELSE statChild(blobs, n.parent, n.id)

\* CryNode::access allows everything
Access(n) == Ok(blobs)

\* CryFile::open
OpenNode(n) == LoadFileBlob(blobs, n)

\* CryDevice::statfs only reads the block stores' counters
Statfs == Ok(blobs)

\* CryNode::chmod, chown and utimens ignore the root directory
Chmod(n, mode) == IF n.parent = Null THEN Ok(blobs) ELSE chmodChild(blobs, n.parent, n.id, mode)
Chown(n, uid) == IF n.parent = Null THEN Ok(blobs) ELSE chownChild(blobs, n.parent, n.id, uid)
Utimens(n, times) == IF n.parent = Null THEN Ok(blobs)
                     ELSE utimensChild(blobs, n.parent, n.id, times[1], times[2])

\* CryFile::truncate
TruncateFile(n, size) ==
    Then(Then(LoadFileBlob(blobs, n), LAMBDA bs : Ok([bs EXCEPT ![n.id].data = size])),
         LAMBDA bs : updateModificationTimestampForChild(bs, n.parent, n.id))

\* CrySymlink::target
Target(n) == Then(updateAccessTimestampForChild(blobs, n.parent, n.id), LAMBDA bs : LoadSymlinkBlob(bs, n))

-----------------------------------------------------------------------------
(* CryOpenFile: it uses the directory the file was opened in *)

OpenStat == statChildWithKnownSize(blobs, openFile.parent, openFile.id)

\* resizes before it looks for the entry
OpenTruncate(size) ==
    updateModificationTimestampForChild([blobs EXCEPT ![openFile.id].data = size], openFile.parent, openFile.id)

OpenRead == updateAccessTimestampForChild(blobs, openFile.parent, openFile.id)

\* A write that looks for the entry afterwards, as truncate does.
WritesFirst(data) ==
    updateModificationTimestampForChild([blobs EXCEPT ![openFile.id].data = data], openFile.parent, openFile.id)

\* looks for the entry before it writes
OpenWrite(data) ==
    Then(updateModificationTimestampForChild(blobs, openFile.parent, openFile.id),
         LAMBDA bs : Ok([bs EXCEPT ![openFile.id].data = data]))

\* DirBlob::_writeEntriesToBlob
WriteEntriesToBlob(bs, d) ==
    CASE ~bs[d].changed -> Ok(bs)
      [] bs[d].changed /\ Ordered(bs[d].entries) ->
           Ok([bs EXCEPT ![d].stored = bs[d].entries, ![d].changed = FALSE])
      [] OTHER -> Throw(bs, "EIO")

\* flush() and fsync() write the file and the directory; fdatasync() only the file
OpenFlush == WriteEntriesToBlob(blobs, openFile.parent)
OpenFsync == WriteEntriesToBlob(blobs, openFile.parent)
OpenFdatasync == Ok(blobs)

-----------------------------------------------------------------------------
(* FilesystemImpl: load the node of the path, then one call on it *)

Existing(p) == NoneIs(Load(p), "ENOENT")

fs_lstat(p) == LET n == Existing(p) IN OnNode(n, Stat(n))
fs_chmod(p, mode) == LET n == Existing(p) IN OnNode(n, Chmod(n, mode))
fs_chown(p, uid) == LET n == Existing(p) IN OnNode(n, Chown(n, uid))
fs_utimens(p, times) == LET n == Existing(p) IN OnNode(n, Utimens(n, times))
fs_access(p) == LET n == Existing(p) IN OnNode(n, Access(n))
fs_rmdir(p) == LET n == Existing(p) IN OnNode(n, Remove_(n))
fs_unlink(p) == LET n == Existing(p) IN OnNode(n, Remove_(n))
fs_rename(from, to) == LET n == Existing(from) IN OnNode(n, Rename(n, to))
fs_truncate(p, size) == LET n == LoadFile(p) IN OnNode(n, TruncateFile(n, size))
fs_readSymlink(p) == LET n == LoadSymlink(p) IN OnNode(n, Target(n))
fs_readDir(p) == LET n == LoadDir(p) IN OnNode(n, Children(n))
fs_statfs == Statfs
fs_mkdir(p, id) == LET dir == LoadDir(ParentPath(p)) IN OnNode(dir, createDir(dir, p[Len(p)], id))
fs_createSymlink(p, id) == LET dir == LoadDir(ParentPath(p)) IN OnNode(dir, createSymlink(dir, p[Len(p)], id))
fs_createAndOpenFile(p, id) == LET dir == LoadDir(ParentPath(p)) IN OnNode(dir, createAndOpenFile(dir, p[Len(p)], id))
fs_openFile(p) == LET n == LoadFile(p) IN OnNode(n, OpenNode(n))

fs_flush == OpenFlush

\* what FuseOpenFileList keeps under the descriptor
Opened(n) == [id |-> n.id, parent |-> n.parent]

-----------------------------------------------------------------------------
(* Fuse's handlers.  FuseErrnoExceptions become their errno, every other   *)
(* exception EIO.                                                          *)

\* While no file system is there every call throws a logic_error.
InvalidFilesystem == Throw(blobs, "EIO")

Answer(call, o, opened) ==
    LET out == IF _fs = "InvalidFilesystem" THEN InvalidFilesystem ELSE o IN
    /\ state \in {"context created", "running"} /\ reply = NoReply
    /\ out.err # "waits"
    /\ out.bs # blobs => changes < MaxChanges
    /\ blobs' = out.bs
    /\ openFile' = IF _fs = "FilesystemImpl" /\ out.err = "ok" THEN opened ELSE openFile
    /\ changes' = IF out.bs # blobs THEN changes + 1 ELSE changes
    /\ now' = IF out.bs # blobs THEN now + 1 ELSE now
    /\ reply' = [call |-> call, err |-> out.err]
    /\ UNCHANGED <<state, _fs, behavior>>

Call(call, o) == Answer(call, o, openFile)

getattr(p) == Call("getattr", fs_lstat(p))
readlink(p) == Call("readlink", fs_readSymlink(p))
chmod(p, mode) == Call("chmod", fs_chmod(p, mode))
chown(p, uid) == Call("chown", fs_chown(p, uid))
utimens(p, times) == Call("utimens", fs_utimens(p, times))
truncate(p, size) == Call("truncate", fs_truncate(p, size))
readdir(p) == Call("readdir", fs_readDir(p))
access(p) == Call("access", fs_access(p))
statfs == Call("statfs", fs_statfs)
unlink(p) == Call("unlink", fs_unlink(p))
rmdir(p) == Call("rmdir", fs_rmdir(p))

\* mkdir("/") is ignored
mkdir(p, id) == Call("mkdir", IF p = << >> THEN Ok(blobs) ELSE fs_mkdir(p, id))
symlink(p, id) == p # << >> /\ Call("symlink", fs_createSymlink(p, id))

\* The kernel moves no directory below itself and replaces none above the source.
KernelRenames(from, to) == to # << >> /\ (from = to \/ (~IsPrefix(from, to) /\ ~IsPrefix(to, from)))

rename(from, to) == KernelRenames(from, to) /\ Call("rename", fs_rename(from, to))

\* one file is open at a time
open(p) == openFile = NotOpen /\ Answer("open", fs_openFile(p), Opened(LoadFile(p)))

create(p, id) ==
    /\ p # << >> /\ openFile = NotOpen
    /\ Answer("create", fs_createAndOpenFile(p, id), [id |-> id, parent |-> LoadDir(ParentPath(p)).id])

\* The kernel calls these only with a descriptor it was given.
OnOpenFile(call, o) == openFile # NotOpen /\ Call(call, o)

fgetattr == OnOpenFile("fgetattr", OpenStat)
ftruncate(size) == OnOpenFile("ftruncate", OpenTruncate(size))
read == OnOpenFile("read", OpenRead)
write(data) == OnOpenFile("write", OpenWrite(data))
flush == OnOpenFile("flush", fs_flush)
fsync(datasync) == OnOpenFile("fsync", IF datasync THEN OpenFdatasync ELSE OpenFsync)
release == openFile # NotOpen /\ Answer("release", Ok(blobs), NotOpen)

\* The kernel takes the answer before it sends the next call.
TakeReply ==
    /\ reply # NoReply /\ reply' = NoReply
    /\ UNCHANGED <<state, _fs, behavior, blobs, openFile, now, changes>>

-----------------------------------------------------------------------------
(* Mounting and unmounting *)

\* the options that are about access times; libfuse is given the others, atime and noatime
AtimeOptions(options) == options \cap {"atime", "noatime", "strictatime", "relatime", "nodiratime"}

\* _createContext, "assert" for flags that exclude each other
CreateContext(flags) ==
    CASE "noatime" \in flags ->
           IF flags \cap {"atime", "relatime", "strictatime"} # {} THEN "assert" ELSE "noatime"
      [] "noatime" \notin flags /\ flags \cap {"atime", "relatime"} # {} ->
           IF "strictatime" \in flags THEN "assert"
           ELSE IF "nodiratime" \in flags THEN "nodiratime_relatime" ELSE "relatime"
      [] OTHER -> IF "strictatime" \in flags
                  THEN IF "nodiratime" \in flags THEN "nodiratime_strictatime" ELSE "strictatime"
                  ELSE "noatime"

\* An assertion leaves Fuse as it was: cryfs ends without a mount.
Run(options) ==
    /\ state = "constructed"
    /\ CreateContext(AtimeOptions(options)) # "assert"
    /\ behavior' = CreateContext(AtimeOptions(options))
    /\ state' = "context created"
    /\ UNCHANGED <<_fs, blobs, openFile, now, changes, reply>>

init ==
    /\ state = "context created"
    /\ state' = "running" /\ _fs' = "FilesystemImpl"
    /\ UNCHANGED <<behavior, blobs, openFile, now, changes, reply>>

\* the FilesystemImpl goes, with its open files and with its directories, which are written
destroy ==
    /\ state = "running" /\ reply = NoReply
    /\ state' = "stopped" /\ _fs' = "InvalidFilesystem"
    /\ openFile' = NotOpen
    /\ blobs' = [i \in DOMAIN blobs |-> WriteEntriesToBlob(blobs, i).bs[i]]
    /\ UNCHANGED <<behavior, now, changes, reply>>

\* Unload(bs, d) is DirBlob's destructor and the constructor of the next one.
Unload(bs, d) ==
    LET written == WriteEntriesToBlob(bs, d).bs[d]
    IN [written EXCEPT !.entries = IF Ordered(written.stored) THEN written.stored ELSE << >>, !.changed = FALSE]

\* The directories that nobody refers to are unloaded, and written if they were changed;
\* the next call reads them again.
Reload ==
    /\ state = "running" /\ reply = NoReply
    /\ blobs' = [d \in DOMAIN blobs |->
                   IF blobs[d].type = "DIR" /\ d # openFile.parent THEN Unload(blobs, d) ELSE blobs[d]]
    /\ UNCHANGED <<state, _fs, behavior, openFile, now, changes, reply>>

Init ==
    /\ state = "constructed" /\ _fs = "InvalidFilesystem" /\ behavior = "noatime"
    /\ blobs \in Trees /\ openFile = NotOpen
    /\ now = 2 * Day /\ changes = 0 /\ reply = NoReply

\* ids are random: a new one is in no directory's entries
FreshIds == Ids \ (DOMAIN blobs \cup UNION {{e.id : e \in ToSet(blobs[d].entries)} : d \in DOMAIN blobs})

PathCall(p) ==
    \/ getattr(p) \/ readlink(p) \/ readdir(p) \/ access(p) \/ unlink(p) \/ rmdir(p) \/ open(p)
    \/ chmod(p, 1) \/ truncate(p, 1) \/ utimens(p, <<0, 0>>)
    \/ \E uid \in {-1, 1} : chown(p, uid)
    \/ \E id \in FreshIds : mkdir(p, id) \/ symlink(p, id) \/ create(p, id)
    \/ \E to \in Paths : rename(p, to)

FileCall ==
    \/ fgetattr \/ read \/ flush \/ release \/ ftruncate(1) \/ write(2)
    \/ \E datasync \in BOOLEAN : fsync(datasync)

Next ==
    \/ \E options \in Options : Run(options)
    \/ init \/ destroy
    \/ \E p \in Paths : PathCall(p)
    \/ FileCall \/ statfs
    \/ TakeReply
    \/ Reload

Spec == Init /\ [][Next]_vars

-----------------------------------------------------------------------------
(* Properties *)

Dirs == {d \in DOMAIN blobs : blobs[d].type = "DIR"}

\* _findFirst's hinted search finds the first entry for which the predicate holds, for
\* every id and from wherever the id's first byte makes it start.
HintedSearchFindsTheFirst ==
    \A d \in Dirs, id \in Ids :
       LET es == blobs[d].entries IN
       /\ LowerBound(es, id) = Min({k \in DOMAIN es : es[k].id >= id} \cup {Len(es) + 1})
       /\ UpperBound(es, id) = Min({k \in DOMAIN es : es[k].id > id} \cup {Len(es) + 1})

\* What a directory has in memory is what comes back when it is unloaded and loaded
\* again: every operation of DirBlob that changes an entry also sets _changed, and the
\* list stays in the order that serialize() and deserializeFrom() assert.
ReloadIsInvisible ==
    \A d \in Dirs :
       /\ Ordered(blobs[d].entries)
       /\ ~blobs[d].changed => blobs[d].stored = blobs[d].entries

EntryOf(bs, id) ==
    {e \in UNION {ToSet(bs[d].entries) : d \in DOMAIN bs} : e.id = id}

Links(es) == {<<e.name, e.id>> : e \in ToSet(es)}

\* A call that succeeds and changes a file's contents, or which names a directory holds,
\* sets the modification and the change time of that file or directory, in whichever
\* directory its entry is.  The root directory has no entry and no times.
ModificationTimesMove ==
    [][ reply' # NoReply /\ reply'.err = "ok" =>
          \A id \in DOMAIN blobs \cap DOMAIN blobs' :
             \/ blobs'[id].data # blobs[id].data
             \/ Links(blobs'[id].entries) # Links(blobs[id].entries)
             => \A e \in EntryOf(blobs', id) : e.mtime = now /\ e.ctime = now ]_vars

ReadOnlyCalls == {"getattr", "fgetattr", "readlink", "readdir", "access", "statfs", "read", "open", "release"}

\* With noatime, the default "reduces the probability for synchronization conflicts":
\* no call that only reads marks a directory as changed.
ReadsWriteNothing ==
    [][ behavior = "noatime" /\ reply'.call \in ReadOnlyCalls => blobs' = blobs ]_vars

Kept(b) ==
    [type |-> b.type, parent |-> b.parent, data |-> b.data,
     entries |-> {<<e.name, e.id, e.type, e.mode, e.uid>> : e \in {x \in ToSet(b.entries) : x.id \in DOMAIN blobs}}]

\* A call that fails leaves all names, types, contents, modes and owners as they were,
\* apart from an entry that had no blob.
\* There are two exceptions: ftruncate on a file that was moved to another directory has
\* cut it before CryOpenFile misses its entry, and a rename to another directory has
\* removed the blob it may not overwrite.
FailedCallsKeepTheTree ==
    [][ reply' # NoReply /\ reply'.err # "ok" =>
          \A id \in DOMAIN blobs :
             \/ id \in DOMAIN blobs' /\ Kept(blobs'[id]) = Kept(blobs[id])
             \/ reply' = [call |-> "ftruncate", err |-> "ENOENT"] /\ id = openFile.id
             \/ reply'.call = "rename" /\ reply'.err \in {"EISDIR", "ENOTDIR"} /\ id \notin DOMAIN blobs' ]_vars

=============================================================================
