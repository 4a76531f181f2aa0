---------------------------- MODULE BlockStores ----------------------------
(***************************************************************************)
(* The lower end of the block store stack: EncryptedBlockStore2 over       *)
(* OnDiskBlockStore2 (each block a file in a directory named after the     *)
(* first characters of its id) or over InMemoryBlockStore2.  Threads call  *)
(* it for different blocks at the same time; each call on the file system  *)
(* is a step.  The process may die at any step and is started again.       *)
(*                                                                         *)
(* A file is described by what was written, by the format of the encrypted *)
(* block and by where a write was cut off.                                 *)
(***************************************************************************)
EXTENDS Naturals

CONSTANTS
    Threads, Blocks, Contents,
    Prefixes,       \* names of prefix directories
    PrefixOf,       \* [Blocks -> Prefixes]
    Backends,       \* the base stores to consider: "ondisk", "inmemory"
    Ciphers,        \* the cipher classes to consider: "AEAD_Cipher", "CFB_Cipher"
    None,
    MaxCrashes      \* bound on the number of times the process dies

VARIABLES
    backend, cipher,
    dirs,           \* the prefix directories under _rootDir
    files,          \* the file of each block, or NoFile
    call,           \* what each thread is doing
    kept,           \* history: what the last write to each block left behind
    present,        \* history: the blocks that existed all through a thread's forEachBlock
    crashes

\* the cipher classes, and names that stand for data are not names of outcomes
StoresAssumption ==
    /\ PrefixOf \in [Blocks -> Prefixes]
    /\ Ciphers \subseteq {"AEAD_Cipher", "CFB_Cipher"}
    /\ None \notin Blocks
    /\ {None, "cut", "none", "true", "false", "throws", "a part of the data", "error writing", "is_empty throws",
        "remove throws", "could not open file", "directory_iterator throws"} \cap Contents = {}
    /\ None \notin {"cut", "is_empty throws", "remove throws", "could not open file", "directory_iterator throws"}

svars == <<backend, cipher, dirs, files, call, kept, present, crashes>>

NoFile == [part |-> "no file", format |-> "none", val |-> None]
Parts == {"all", "cut in file header", "cut in format header", "cut in ciphertext"}
File(format, v, part) == [part |-> part, format |-> format, val |-> v]

Idle == [op |-> "idle", block |-> None, val |-> None, pc |-> "idle", todo |-> {}, visited |-> {}, out |-> None]
At(t, op, pc) == call[t].op = op /\ call[t].pc = pc
Exists(b) == files[b] # NoFile

StoresInit ==
    /\ backend \in Backends
    /\ cipher \in Ciphers
    /\ backend = "inmemory" => cipher = "AEAD_Cipher"
    /\ kept \in [Blocks -> {None} \cup Contents]
    /\ \E format \in {"FORMAT_VERSION_HEADER", "FORMAT_VERSION_HEADER_OLD"} :
          files = [b \in Blocks |-> IF kept[b] = None THEN NoFile ELSE File(format, kept[b], "all")]
    /\ dirs = {PrefixOf[b] : b \in {x \in Blocks : kept[x] # None}}
    /\ call = [t \in Threads |-> Idle]
    /\ present = [t \in Threads |-> {}]
    /\ crashes = 0

Goto(t, pc) == call' = [call EXCEPT ![t].pc = pc]
Return(t, out) == call' = [call EXCEPT ![t].pc = "returned", ![t].out = out]
InMemory == backend = "inmemory"

\* what forEachBlock callers rely on: a block that is gone at any moment need not be visited
Still(newFiles) == present' = [t \in Threads |-> {b \in present[t] : newFiles[b] # NoFile}]

\* The layers above keep calls for one block apart: CachingBlockStore2 runs them under the cache's lock of that key.
Free(b) == \A t \in Threads : call[t].block # b

(***************************************************************************)
(* store() and tryCreate(): encrypt with the current format header, create *)
(* the prefix directory, open the file with ios::trunc and write it.       *)
(***************************************************************************)
encryptedFile(v, part) == File("FORMAT_VERSION_HEADER", v, part)

Begin(t, op, b, v) ==
    /\ call[t] = Idle
    /\ Free(b)
    /\ call' = [call EXCEPT ![t] = [op |-> op, block |-> b, val |-> v, pc |-> "begin", todo |-> {}, visited |-> {}, out |-> None]]
    /\ UNCHANGED <<backend, cipher, dirs, files, kept, present, crashes>>

BeginStore(t) == \E b \in Blocks, v \in Contents : Begin(t, "store", b, v)
BeginTryCreate(t) == \E b \in Blocks, v \in Contents : Begin(t, "tryCreate", b, v)
BeginRemove(t) == \E b \in Blocks : Begin(t, "remove", b, None)
BeginLoad(t) == \E b \in Blocks : Begin(t, "load", b, None)

\* InMemoryBlockStore2: every operation runs under _mutex
InMemoryCall(t) ==
    /\ InMemory
    /\ call[t].pc = "begin"
    /\ call[t].op \in {"store", "tryCreate", "remove"}
    /\ LET b == call[t].block
           refused == \/ call[t].op = "tryCreate" /\ Exists(b)
                      \/ call[t].op = "remove" /\ ~Exists(b)
           new == IF refused THEN files[b]
                  ELSE IF call[t].op = "remove" THEN NoFile
                  ELSE encryptedFile(call[t].val, "all")
       IN  /\ files' = [files EXCEPT ![b] = new]
           /\ kept' = [kept EXCEPT ![b] = new.val]
           /\ Still(files')
           /\ Return(t, IF refused THEN "false" ELSE "true")
    /\ UNCHANGED <<backend, cipher, dirs, crashes>>

\* tryCreate: boost::filesystem::exists
CheckExists(t) ==
    /\ ~InMemory
    /\ At(t, "tryCreate", "begin")
    /\ IF Exists(call[t].block) THEN Return(t, "false") ELSE Goto(t, "create directory")
    /\ UNCHANGED <<backend, cipher, dirs, files, kept, present, crashes>>

\* boost::filesystem::create_directory: no error when it exists
CreateDirectory(t) ==
    /\ ~InMemory
    /\ At(t, "store", "begin") \/ At(t, "tryCreate", "create directory")
    /\ dirs' = dirs \cup {PrefixOf[call[t].block]}
    /\ Goto(t, "open")
    /\ UNCHANGED <<backend, cipher, files, kept, present, crashes>>

\* Data::StoreToFile opens and truncates the file; it throws when the directory is gone again
OpenForWriting(t) ==
    /\ call[t].pc = "open"
    /\ LET b == call[t].block
       IN  IF PrefixOf[b] \notin dirs
           THEN Return(t, "could not open file") /\ UNCHANGED <<files, kept>>
           ELSE /\ files' = [files EXCEPT ![b] = encryptedFile(None, "cut in file header")]
                /\ kept' = [kept EXCEPT ![b] = "cut"]
                /\ Goto(t, "write")
    /\ UNCHANGED <<backend, cipher, dirs, present, crashes>>

\* the write reaches the disk in parts; ~part = "all" is also where an error of the disk leaves it
Write(t) ==
    /\ call[t].pc = "write"
    /\ \E part \in Parts :
          /\ files' = [files EXCEPT ![call[t].block] = encryptedFile(IF part = "all" THEN call[t].val ELSE None, part)]
          /\ IF part = "all"
             THEN kept' = [kept EXCEPT ![call[t].block] = call[t].val] /\ Return(t, "true")
             ELSE Return(t, "error writing") /\ UNCHANGED kept
    /\ UNCHANGED <<backend, cipher, dirs, present, crashes>>

(***************************************************************************)
(* remove(): remove the file, then the directory if it looks empty.        *)
(* boost's is_empty throws for a directory that is gone; its remove throws *)
(* for a directory that is not empty.                                      *)
(***************************************************************************)
InDirectory(p) == {b \in Blocks : PrefixOf[b] = p /\ Exists(b)}

RemoveFile(t) ==
    /\ ~InMemory
    /\ At(t, "remove", "begin")
    /\ LET b == call[t].block
       IN  IF ~Exists(b) THEN Return(t, "false") /\ UNCHANGED <<files, kept, present>>
           ELSE /\ files' = [files EXCEPT ![b] = NoFile]
                /\ kept' = [kept EXCEPT ![b] = None]
                /\ Still(files')
                /\ Goto(t, "is empty")
    /\ UNCHANGED <<backend, cipher, dirs, crashes>>

CheckIsEmpty(t) ==
    /\ At(t, "remove", "is empty")
    /\ LET p == PrefixOf[call[t].block]
       IN  IF p \notin dirs THEN Return(t, "is_empty throws")
           ELSE IF InDirectory(p) = {} THEN Goto(t, "remove directory")
           ELSE Return(t, "true")
    /\ UNCHANGED <<backend, cipher, dirs, files, kept, present, crashes>>

\* a mutant: remove_all
RemoveDirectoryAll(t) ==
    /\ At(t, "remove", "remove directory")
    /\ dirs' = dirs \ {PrefixOf[call[t].block]}
    /\ files' = [b \in Blocks |-> IF PrefixOf[b] = PrefixOf[call[t].block] THEN NoFile ELSE files[b]]
    /\ Still(files')
    /\ Return(t, "true")
    /\ UNCHANGED <<backend, cipher, kept, crashes>>

RemoveDirectory(t) ==
    /\ At(t, "remove", "remove directory")
    /\ LET p == PrefixOf[call[t].block]
       IN  IF InDirectory(p) # {} THEN Return(t, "remove throws") /\ UNCHANGED dirs
           ELSE dirs' = dirs \ {p} /\ Return(t, "true")
    /\ UNCHANGED <<backend, cipher, files, kept, present, crashes>>

(***************************************************************************)
(* load().  A file that was cut is shorter than the code expects.  The     *)
(* comparison of the file's header reads past the end of a short buffer:   *)
(* it differs, or what lies there matches and the size of the rest         *)
(* underflows so that its allocation throws.  The format header behind it  *)
(* is read past the end in the same way; if it matches, the size of the    *)
(* ciphertext underflows and the cipher is run over foreign memory, which  *)
(* kills the process or fails the authentication.                          *)
(***************************************************************************)
\* EncryptedBlockStore2::_tryDecrypt with an AEAD_Cipher or a CFB_Cipher; a block in the old
\* format names its block, and that is the one it was stored for
DecryptOutcomes(f) ==
    CASE f.part = "all" -> {f.val}
      [] f.part = "cut in format header" -> {"throws", "dies", "none"}
      [] f.part = "cut in ciphertext" -> IF cipher = "AEAD_Cipher" THEN {"none"} ELSE {"none", "a part of the data"}
      [] OTHER -> {}

\* a mutant: a ciphertext whose tag is missing is decrypted all the same
DecryptsWhatIsThere(f) ==
    IF f.part = "cut in ciphertext" THEN {"a part of the data"} ELSE DecryptOutcomes(f)

_tryDecrypt(f) == DecryptOutcomes(f)

LoadOutcomes(f) ==
    IF f = NoFile THEN {"none"}
    ELSE IF f.part = "cut in file header" THEN {"throws"}
    ELSE _tryDecrypt(f)

Load(t) ==
    /\ At(t, "load", "begin")
    /\ \E out \in LoadOutcomes(files[call[t].block]) \ {"dies"} : Return(t, out)
    /\ UNCHANGED <<backend, cipher, dirs, files, kept, present, crashes>>

(***************************************************************************)
(* forEachBlock(): the entries of _rootDir in any order, among them the    *)
(* file cryfs.config; then the files of each prefix directory.             *)
(***************************************************************************)
BeginForEachBlock(t) ==
    /\ ~InMemory
    /\ call[t] = Idle
    /\ call' = [call EXCEPT ![t] = [Idle EXCEPT !.op = "forEachBlock", !.pc = "iterate", !.todo = dirs \cup {"cryfs.config"}]]
    /\ present' = [present EXCEPT ![t] = {b \in Blocks : Exists(b)}]
    /\ UNCHANGED <<backend, cipher, dirs, files, kept, crashes>>

Visit(t, todo, blocks) == call' = [call EXCEPT ![t].todo = todo, ![t].visited = @ \cup blocks]

\* an entry that is no directory, or no longer exists, is skipped
VisitEntry(t, entry) ==
    IF entry \notin dirs THEN Visit(t, call[t].todo \ {entry}, {})
    ELSE Visit(t, call[t].todo \ {entry}, InDirectory(entry))

IterateEntry(t) ==
    /\ At(t, "forEachBlock", "iterate")
    /\ \/ \E entry \in call[t].todo : VisitEntry(t, entry)
       \/ \* the directory vanishes between is_directory and directory_iterator
          \E entry \in call[t].todo \ dirs : entry # "cryfs.config" /\ Return(t, "directory_iterator throws")
       \/ call[t].todo = {} /\ Goto(t, "returned")
    /\ UNCHANGED <<backend, cipher, dirs, files, kept, present, crashes>>

\* the caller takes the result
Returned(t) ==
    /\ call[t].pc = "returned"
    /\ call' = [call EXCEPT ![t] = Idle]
    /\ present' = [present EXCEPT ![t] = {}]
    /\ UNCHANGED <<backend, cipher, dirs, files, kept, crashes>>

\* the process dies, also in a load of a cut file, and is started again; a file being written stays cut anywhere
Crash ==
    /\ crashes < MaxCrashes
    /\ ~InMemory
    /\ crashes' = crashes + 1
    /\ call' = [t \in Threads |-> Idle]
    /\ present' = [t \in Threads |-> {}]
    /\ LET writing == {call[t].block : t \in {x \in Threads : call[x].pc = "write"}}
       IN  \E part \in Parts \ {"all"} :
              files' = [b \in Blocks |-> IF b \in writing THEN [files[b] EXCEPT !.part = part] ELSE files[b]]
    /\ UNCHANGED <<backend, cipher, dirs, kept>>

Step(t) ==
    \/ BeginStore(t) \/ BeginTryCreate(t) \/ BeginRemove(t) \/ BeginLoad(t)
    \/ InMemoryCall(t) \/ CheckExists(t) \/ CreateDirectory(t) \/ OpenForWriting(t) \/ Write(t)
    \/ RemoveFile(t) \/ CheckIsEmpty(t) \/ RemoveDirectory(t)
    \/ Load(t) \/ BeginForEachBlock(t) \/ IterateEntry(t) \/ Returned(t)

StoresNext == Crash \/ \E t \in Threads : Step(t)
StoresSpec == StoresInit /\ [][StoresNext]_svars

(***************************************************************************)
(* Properties                                                              *)
(***************************************************************************)
Out(t, op) == call[t].op = op /\ call[t].pc = "returned"

\* load() returns the data of the last store to that block or, when that store was cut off by an error
\* or by the end of the process, nothing or an exception, but never older or partial data.  It
\* misses no block that was stored.  CFB_Cipher has no tag and may return a part.
LoadReturnsTheLastStore ==
    \A t \in Threads : Out(t, "load") =>
        IF kept[call[t].block] \in Contents THEN call[t].out = kept[call[t].block]
        ELSE \/ call[t].out = "none"
             \/ kept[call[t].block] = "cut" /\ call[t].out = "throws"
             \/ kept[call[t].block] = "cut" /\ cipher = "CFB_Cipher" /\ call[t].out = "a part of the data"

\* forEachBlock() visits every block that exists from its beginning to its end, also while other
\* threads create and remove blocks and their directories.
EnumerationMissesNoBlock ==
    \A t \in Threads : Out(t, "forEachBlock") /\ call[t].out # "directory_iterator throws" => present[t] \subseteq call[t].visited

\* Calls that fail because another thread works in the same prefix directory have still done
\* their part or nothing: a remove() that throws has removed its block, a store() that cannot open its
\* file has left the block as it was, and an enumeration that ends has missed no block.
DirectoryRacesLoseNothing ==
    /\ EnumerationMissesNoBlock
    /\ \A t \in Threads :
          /\ call[t].out \in {"is_empty throws", "remove throws"} => ~Exists(call[t].block)
          /\ call[t].out = "could not open file" => ~Exists(call[t].block) /\ kept[call[t].block] = None
=============================================================================
