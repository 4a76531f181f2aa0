------------------------------- MODULE Mount -------------------------------
(***************************************************************************)
(* Starting CryFS on a base directory, from Cli::main to the mounted file  *)
(* system: the questions asked, the order of the writes to the config file *)
(* and to the local state of the machine, the creation of a file system    *)
(* and its migration from an older format.  A process can be killed        *)
(* between any two writes, and in the middle of writing a file (every file *)
(* is written by truncating it).  Machines share the base directory and    *)
(* use it one after the other; each has its own local state.               *)
(*                                                                         *)
(* A question is answered with yes or no; NoninteractiveConsole gives the  *)
(* default answer, which is no for every question a property is about.     *)
(***************************************************************************)
EXTENDS Integers, FiniteSets

CONSTANTS
    Machines,       \* the machines that mount the base directory
    FsIds,          \* random file system ids
    ClientIds,      \* random client ids
    Roots,          \* block ids for new root blobs
    Passwords,      \* what the user may enter
    MaxCrashes,     \* bound on killed processes
    MaxReplaced,    \* bound on replacements of the base directory's content
    None

VARIABLES
    file,           \* cryfs.config: [state, format, password, config]
    disk,           \* the blocks in the base directory
    metadata,       \* per machine and file system id: the file "metadata"
    legacy,         \* per machine and file system id: the file "myClientId" of older versions
    basedirs,       \* per machine: the entry of the base directory in the file "basedirs"
    violated,       \* per machine: file systems whose integrity data is marked as violated
    machine,        \* the machine the running process is on
    proc,           \* the running process
    crashes, replaced,      \* counters for the bounds
    original,       \* history: the config the base directory had when it was put there
    agreed,         \* history: what users agreed to do with this file system
    consents,       \* history: per machine, the ids accepted since the last mount
    seen,           \* history: per machine, the id mounted last
    keys, ids,      \* history: per machine and id, the key and the client id it was mounted with
    lostLegacy,     \* history: a process was killed between removing "myClientId" and writing "metadata"
    halfWritten     \* history: a process was killed with a blob's migration partly written back

disks == <<file, disk, metadata, legacy, basedirs, violated>>
history == <<original, agreed, consents, seen, keys, ids, lostLegacy, halfWritten>>
vars == <<disks, machine, proc, crashes, replaced, history>>

(***************************************************************************)
(* CryConfig, its serialisation and its encryption.  The key derived from  *)
(* the password stands for the outer and the inner encryption.             *)
(***************************************************************************)
NewConfig == [fsid |-> None, key |-> None, version |-> "current", opened |-> TRUE, exclusive |-> None,
              root |-> None, versions |-> TRUE, parents |-> FALSE, blocksize |-> 0]

NoFile == [state |-> "missing", format |-> "scrypt", password |-> None, config |-> NewConfig]
TornFile == [NoFile EXCEPT !.state = "torn"]

\* CryConfig::load: a config without file system id gets a random one each time it is loaded
LoadConfigData(config, random) == IF config.fsid = None THEN [config EXCEPT !.fsid = random] ELSE config

\* CryConfigFile::save writes the current format, encrypted with the key of the running process
Encrypt(password, config) == [state |-> "whole", format |-> "scrypt", password |-> password, config |-> config]

\* OuterConfig and InnerConfig can be deserialised, and the ciphers authenticate them
Decryptable(f, password) == f.state = "whole" /\ f.password = password

(***************************************************************************)
(* Content of a base directory: a root directory and, in the old file      *)
(* system, a file.  A block has a number of version headers; a blob has a  *)
(* format header (0: without parent pointer) and counts how often its data *)
(* was moved to make room for the pointer.                                 *)
(***************************************************************************)
OldBlob == [versions |-> 0, header |-> 0, moved |-> 0]
NewBlob == [versions |-> 1, header |-> 1, moved |-> 1]
AlphaBlob == [versions |-> 1, header |-> 0, moved |-> 0]

Stored(config, password, format) == [state |-> "whole", format |-> format, password |-> password, config |-> config]

\* a file system of CryFS 0.9, one of a 0.10 pre-release, a current one, one of a later version
OldConfig == [NewConfig EXCEPT !.key = "k", !.version = "old", !.opened = FALSE, !.root = "r", !.versions = FALSE]
AlphaConfig(f) == [NewConfig EXCEPT !.fsid = f, !.key = "k", !.opened = FALSE, !.root = "r"]
CurrentConfig(f, k, v, c) == [NewConfig EXCEPT !.fsid = f, !.key = k, !.version = v, !.exclusive = c,
                                               !.root = "r", !.parents = TRUE]

Contents(f, c, password) ==
    {<<NoFile, <<>>>>,
     <<Stored(OldConfig, password, "deprecated"), [b \in {"r", "f"} |-> OldBlob]>>,
     <<Stored(AlphaConfig(f), password, "scrypt"), [b \in {"r", "f"} |-> AlphaBlob]>>}
    \cup {<<Stored(config, password, "scrypt"), [b \in {"r"} |-> NewBlob]>> : config \in
            {CurrentConfig(f, k, "current", x) : k \in {"k", "l"}, x \in {None, c}}
            \cup {CurrentConfig(f, "k", v, None) : v \in {"ancient", "newer"}}}

(***************************************************************************)
(* Initial state: a base directory as above; a machine may have the legacy *)
(* client id of the 0.10 pre-release's file system.                        *)
(***************************************************************************)
Idle == [pc |-> "idle", then |-> "idle", config |-> NewConfig, password |-> None, client |-> None,
         creating |-> FALSE, allowReplaced |-> FALSE, dirty |-> {}, exit |-> "none"]

NoMetadata == [state |-> "missing", client |-> None, key |-> None]

Init ==
    /\ \E f \in FsIds, c \in ClientIds, p \in Passwords, first \in Machines :
        /\ \E content \in Contents(f, c, p) :
            /\ file = content[1]
            /\ disk = content[2]
            /\ legacy = [m \in Machines |-> [g \in FsIds |->
                            IF m = first /\ g = f /\ content[1].config = AlphaConfig(f) THEN c ELSE None]]
            /\ original = content[1].config
        /\ machine = first
    /\ ids = legacy
    /\ metadata = [m \in Machines |-> [g \in FsIds |-> NoMetadata]]
    /\ basedirs = [m \in Machines |-> [state |-> "whole", fsid |-> None]]
    /\ violated = [m \in Machines |-> {}]
    /\ proc = Idle
    /\ crashes = 0 /\ replaced = 0
    /\ agreed = {} /\ lostLegacy = FALSE /\ halfWritten = FALSE
    /\ consents = [m \in Machines |-> {}]
    /\ seen = [m \in Machines |-> None]
    /\ keys = [m \in Machines |-> [g \in FsIds |-> None]]

(***************************************************************************)
(* Steps of the process                                                    *)
(***************************************************************************)
At(pc) == proc.pc = pc
Config == proc.config
Goto(pc) == proc' = [proc EXCEPT !.pc = pc]
Bounds == <<machine, crashes, replaced>>

\* the process ends; before a device exists nothing is cached
Exit(code) == proc' = [Idle EXCEPT !.exit = code]

\* the stores are destructed first, which writes the cache back
Unwind(code) == proc' = [proc EXCEPT !.pc = "unwind", !.exit = code]

\* an exception that is not a CryfsException is logged as a crash and main() returns Success
Crashed == "Success"

\* CryConfigFile::save: truncate, then write; the next step is "then"
Save(config, then) ==
    /\ file' = TornFile
    /\ proc' = [proc EXCEPT !.pc = "save", !.then = then, !.config = config]

FinishSave ==
    /\ At("save")
    /\ file' = Encrypt(proc.password, Config)
    /\ Goto(proc.then)
    /\ UNCHANGED <<disk, metadata, legacy, basedirs, violated, Bounds, history>>

\* Cli::_sanityChecks and the choice between loading and creating
Start ==
    /\ At("idle")
    /\ \E m \in Machines, allow \in BOOLEAN, password \in Passwords, dirsOk \in BOOLEAN :
        /\ machine' = m
        /\ IF ~dirsOk
           THEN Exit("InaccessibleBaseDir")
           ELSE proc' = [Idle EXCEPT !.pc = IF file.state = "missing" THEN "create" ELSE "load",
                                     !.creating = file.state = "missing",
                                     !.password = password, !.allowReplaced = allow]
    /\ UNCHANGED <<disks, crashes, replaced, history>>

\* CryConfigFile::load; an empty password is refused, or asked for again
Load ==
    /\ At("load")
    /\ IF Decryptable(file, proc.password)
       THEN \E random \in FsIds :
               /\ \A m \in Machines : metadata[m][random] = NoMetadata \/ file.config.fsid # None
               /\ LET config == LoadConfigData(file.config, random)
                  IN IF file.format = "deprecated"
                     THEN Save(config, "version")
                     ELSE /\ proc' = [proc EXCEPT !.pc = "version", !.config = config]
                          /\ UNCHANGED file
       ELSE Exit("WrongPassword") /\ UNCHANGED file
    /\ UNCHANGED <<disk, metadata, legacy, basedirs, violated, Bounds, history>>

\* (mutated) the new version is saved before the user is asked
CheckVersionSavedFirst ==
    /\ At("version")
    /\ IF Config.version = "current"
       THEN Goto("opened") /\ UNCHANGED file
       ELSE Save([Config EXCEPT !.version = "current"], "opened")
    /\ UNCHANGED <<disk, metadata, legacy, basedirs, violated, Bounds, history>>

\* CryConfigLoader::_checkVersion, and the version is set and saved
CheckVersion ==
    /\ At("version")
    /\ \E yes \in BOOLEAN :     \* --allow-filesystem-upgrade, or the answer
        \/ /\ Config.version = "ancient" \/ (Config.version # "current" /\ ~yes)
           /\ Exit(IF Config.version = "newer" THEN "TooNewFilesystemFormat" ELSE "TooOldFilesystemFormat")
           /\ UNCHANGED <<file, agreed>>
        \/ /\ Config.version \in {"old", "newer"} /\ yes
           /\ Save([Config EXCEPT !.version = "current"], "opened")
           /\ agreed' = agreed \cup {"version"}
        \/ /\ Config.version = "current"
           /\ Goto("opened")
           /\ UNCHANGED <<file, agreed>>
    /\ UNCHANGED <<disk, metadata, legacy, basedirs, violated, Bounds, original, consents, seen, keys, ids,
                   lostLegacy, halfWritten>>

\* the version that opens the file system is noted; then the cipher is compared with the command line's
NoteOpened ==
    /\ At("opened")
    /\ IF Config.opened THEN Goto("cipher") /\ UNCHANGED file
                        ELSE Save([Config EXCEPT !.opened = TRUE], "cipher")
    /\ UNCHANGED <<disk, metadata, legacy, basedirs, violated, Bounds, history>>

CheckCipher ==
    /\ At("cipher")
    /\ Goto("metadata") \/ Exit("WrongCipher")
    /\ UNCHANGED <<disks, Bounds, history>>

\* CryConfigCreator::create up to the local state; a multiple choice question throws in noninteractive mode
Create ==
    /\ At("create")
    /\ \/ \E random \in FsIds :
            /\ \A m \in Machines : metadata[m][random] = NoMetadata
            /\ proc' = [proc EXCEPT !.pc = "metadata", !.config = [NewConfig EXCEPT !.fsid = random, !.key = "k"]]
       \/ Exit(Crashed)
    /\ UNCHANGED <<disks, Bounds, history>>

\* LocalStateMetadata::loadOrGenerate
Metadata == metadata[machine][Config.fsid]

LoadMetadata ==
    /\ At("metadata")
    /\ CASE Metadata.state = "missing" -> Goto("generate")
         [] Metadata.state = "torn" -> Exit(Crashed)
         [] Metadata.state = "whole" ->
                IF ~proc.allowReplaced /\ Metadata.key # Config.key
                THEN Exit("EncryptionKeyChanged")
                ELSE proc' = [proc EXCEPT !.pc = IF proc.creating THEN "new file" ELSE "missing blocks",
                                          !.client = Metadata.client]
    /\ UNCHANGED <<disks, Bounds, history>>

\* (mutated) the legacy file is not looked at
TakeNewClientId ==
    /\ At("generate")
    /\ \E random \in ClientIds :
        /\ \A m \in Machines, g \in FsIds : random \notin {metadata[m][g].client, ids[m][g]}
        /\ proc' = [proc EXCEPT !.pc = "truncate", !.client = random]
    /\ UNCHANGED <<disks, Bounds, history>>

\* generate_: the legacy file is read and removed, then "metadata" is written
TakeLegacyClientId ==
    /\ At("generate")
    /\ \E random \in ClientIds :
        /\ \A m \in Machines, g \in FsIds : random \notin {metadata[m][g].client, ids[m][g]}
        /\ LET old == legacy[machine][Config.fsid]
           IN proc' = [proc EXCEPT !.pc = "truncate", !.client = IF old = None THEN random ELSE old]
    /\ legacy' = [legacy EXCEPT ![machine][Config.fsid] = None]
    /\ UNCHANGED <<file, disk, metadata, basedirs, violated, Bounds, history>>

SaveMetadata ==
    /\ \/ /\ At("truncate")
          /\ metadata' = [metadata EXCEPT ![machine][Config.fsid] = [NoMetadata EXCEPT !.state = "torn"]]
          /\ Goto("write metadata")
       \/ /\ At("write metadata")
          /\ metadata' = [metadata EXCEPT ![machine][Config.fsid] =
                             [state |-> "whole", client |-> proc.client, key |-> Config.key]]
          /\ Goto(IF proc.creating THEN "new file" ELSE "missing blocks")
    /\ UNCHANGED <<file, disk, legacy, basedirs, violated, Bounds, history>>

\* the rest of CryConfigCreator::create, and CryConfigFile::create
CreateFile ==
    /\ At("new file")
    /\ IF file.state # "missing"
       THEN Exit(Crashed) /\ UNCHANGED file
       ELSE \E exclusive \in {None, proc.client} :
               Save([Config EXCEPT !.exclusive = exclusive], "basedir")
    /\ UNCHANGED <<disk, metadata, legacy, basedirs, violated, Bounds, history>>

\* CryConfigLoader::_checkMissingBlocksAreIntegrityViolations
CheckMissingBlocks ==
    /\ At("missing blocks")
    /\ \/ /\ Exit("FilesystemHasDifferentIntegritySetup")       \* the command line says otherwise
          /\ UNCHANGED <<file, agreed>>
       \/ /\ Config.exclusive \in {None, proc.client}
          /\ Goto("basedir")
          /\ UNCHANGED <<file, agreed>>
       \/ /\ Config.exclusive \notin {None, proc.client}
          /\ \/ Exit("SingleClientFileSystem") /\ UNCHANGED <<file, agreed>>
             \/ /\ Save([Config EXCEPT !.exclusive = None], "basedir")
                /\ agreed' = agreed \cup {"shared"}
    /\ UNCHANGED <<disk, metadata, legacy, basedirs, violated, Bounds, original, consents, seen, keys, ids,
                   lostLegacy, halfWritten>>

\* (mutated) a file that cannot be parsed counts as one without entries
CheckConfigIntegrityLenient ==
    /\ At("basedir")
    /\ basedirs[machine].fsid \in {None, Config.fsid} \/ proc.allowReplaced
    /\ basedirs' = [basedirs EXCEPT ![machine] = [state |-> "torn", fsid |-> None]]
    /\ consents' = IF proc.allowReplaced THEN [consents EXCEPT ![machine] = @ \cup {Config.fsid}] ELSE consents
    /\ Goto("write basedirs")
    /\ UNCHANGED <<file, disk, metadata, legacy, violated, Bounds, original, agreed, seen, keys, ids,
                   lostLegacy, halfWritten>>

\* Cli::_checkConfigIntegrity: compare the id with the one of the last time, then truncate and write "basedirs"
CheckConfigIntegrity ==
    /\ At("basedir")
    /\ LET known == basedirs[machine]
           correct == known.fsid \in {None, Config.fsid}
       IN \/ /\ known.state = "torn"
             /\ Exit(Crashed)
             /\ UNCHANGED <<basedirs, consents>>
          \/ /\ known.state = "whole" /\ ~proc.allowReplaced /\ ~correct      \* the answer is no
             /\ Exit("FilesystemIdChanged")
             /\ UNCHANGED <<basedirs, consents>>
          \/ /\ known.state = "whole"
             /\ basedirs' = [basedirs EXCEPT ![machine] = [state |-> "torn", fsid |-> None]]
             /\ consents' = IF proc.allowReplaced \/ ~correct
                            THEN [consents EXCEPT ![machine] = @ \cup {Config.fsid}] ELSE consents
             /\ Goto("write basedirs")
    /\ UNCHANGED <<file, disk, metadata, legacy, violated, Bounds, original, agreed, seen, keys, ids,
                   lostLegacy, halfWritten>>

WriteBasedirs ==
    /\ At("write basedirs")
    /\ basedirs' = [basedirs EXCEPT ![machine] = [state |-> "whole", fsid |-> Config.fsid]]
    /\ Goto("versions")
    /\ UNCHANGED <<file, disk, metadata, legacy, violated, Bounds, history>>

(***************************************************************************)
(* CryDevice's constructor                                                 *)
(***************************************************************************)
\* migrateFromBlockstoreWithoutVersionNumbers: no cache below, a block is written at once
MigrateBlock ==
    /\ At("versions") /\ ~Config.versions
    /\ \E b \in DOMAIN disk :
        /\ disk[b].versions = 0
        /\ disk' = [disk EXCEPT ![b].versions = @ + 1]
    /\ UNCHANGED <<file, metadata, legacy, basedirs, violated, machine, proc, crashes, replaced, history>>

\* all blocks are migrated: the block size grows by the header, and the config is saved
VersionsMigrated ==
    /\ At("versions")
    /\ \/ Config.versions /\ Goto("open") /\ UNCHANGED file
       \/ /\ ~Config.versions /\ \A b \in DOMAIN disk : disk[b].versions # 0
          /\ Save([Config EXCEPT !.versions = TRUE, !.blocksize = @ + 1], "open")
    /\ UNCHANGED <<disk, metadata, legacy, basedirs, violated, Bounds, history>>

\* IntegrityBlockStore2's constructor
OpenIntegrityData ==
    /\ At("open")
    /\ IF Config.fsid \in violated[machine] THEN Exit("IntegrityViolationOnPreviousRun") ELSE Goto("parents")
    /\ UNCHANGED <<disks, Bounds, history>>

\* What the caching block store holds over the disk: moved data, format headers, new blobs
InCache(b) == IF b \in DOMAIN disk
              THEN [disk[b] EXCEPT !.moved = IF <<b, "data">> \in proc.dirty THEN @ + 1 ELSE @,
                                   !.header = IF <<b, "header">> \in proc.dirty THEN 1 ELSE @]
              ELSE NewBlob

Exists(b) == b \in DOMAIN disk \/ <<b, "new">> \in proc.dirty

\* (mutated) blobs that are migrated already are not recognised
MigrateBlobAgain ==
    /\ At("parents") /\ ~Config.parents /\ Config.root # None
    /\ \E b \in DOMAIN disk : proc' = [proc EXCEPT !.dirty = @ \cup {<<b, "data">>, <<b, "header">>}]
    /\ UNCHANGED <<disks, Bounds, history>>

\* FsBlobView::migrate for the root, then for the entries of each directory
MigrateBlob ==
    /\ At("parents") /\ ~Config.parents /\ Config.root # None
    /\ \E b \in DOMAIN disk :
        /\ b = Config.root \/ InCache(Config.root).header # 0
        /\ InCache(b).header = 0
        /\ proc' = [proc EXCEPT !.dirty = @ \cup {<<b, "data">>, <<b, "header">>}]
    /\ UNCHANGED <<disks, Bounds, history>>

ParentsMigrated ==
    /\ At("parents")
    /\ \/ (Config.parents \/ Config.root = None) /\ Goto("root") /\ UNCHANGED file
       \/ /\ ~Config.parents /\ Config.root # None
          /\ IF Config.root \notin DOMAIN disk
             THEN Unwind(Crashed) /\ UNCHANGED file        \* "Could not load root blob"
             ELSE /\ \A b \in DOMAIN disk : InCache(b).header # 0
                  /\ Save([Config EXCEPT !.parents = TRUE], "root")
    /\ UNCHANGED <<disk, metadata, legacy, basedirs, violated, Bounds, history>>

\* SIGINT or SIGTERM during a migration
Signal ==
    /\ (At("versions") /\ ~Config.versions) \/ (At("parents") /\ ~Config.parents)
    /\ Unwind(Crashed)
    /\ UNCHANGED <<disks, Bounds, history>>

\* GetOrCreateRootBlobId: the new root blob is flushed into the cache, its id is saved
GetOrCreateRootBlob ==
    /\ At("root")
    /\ \/ Config.root # None /\ Goto("check") /\ UNCHANGED file
       \/ /\ Config.root = None
          /\ \E b \in Roots \ DOMAIN disk :
                /\ file' = TornFile
                /\ proc' = [proc EXCEPT !.pc = "save", !.then = "check", !.config.root = b,
                                        !.dirty = @ \cup {<<b, "new">>}]
    /\ UNCHANGED <<disk, metadata, legacy, basedirs, violated, Bounds, history>>

\* a block leaves the cache: after a while, or when the stores are destructed
WriteBack ==
    /\ \E d \in proc.dirty :
        /\ disk' = CASE d[2] = "data" -> [disk EXCEPT ![d[1]].moved = @ + 1]
                     [] d[2] = "header" -> [disk EXCEPT ![d[1]].header = 1]
                     [] d[2] = "new" -> [b \in DOMAIN disk \cup {d[1]} |-> IF b = d[1] THEN NewBlob ELSE disk[b]]
        /\ proc' = [proc EXCEPT !.dirty = @ \ {d}]
    /\ UNCHANGED <<file, metadata, legacy, basedirs, violated, Bounds, history>>

\* Cli::_sanityCheckFilesystem loads the root directory; then the file system is mounted
SanityCheckFilesystem ==
    /\ At("check")
    /\ IF Exists(Config.root) /\ InCache(Config.root).header = 1
       THEN /\ Goto("mounted")
            /\ seen' = [seen EXCEPT ![machine] = Config.fsid]
            /\ consents' = [consents EXCEPT ![machine] = {}]
            /\ keys' = [keys EXCEPT ![machine][Config.fsid] = Config.key]
            /\ ids' = [ids EXCEPT ![machine][Config.fsid] = proc.client]
       ELSE Unwind(Crashed) /\ UNCHANGED <<seen, consents, keys, ids>>
    /\ UNCHANGED <<disks, Bounds, original, agreed, lostLegacy, halfWritten>>

\* unmounted by the user, or stopped because of an integrity violation
Stop ==
    /\ At("mounted")
    /\ \/ Unwind("Success") /\ UNCHANGED violated
       \/ /\ violated' = [violated EXCEPT ![machine] = @ \cup {Config.fsid}]
          /\ Unwind("IntegrityViolation")
    /\ UNCHANGED <<file, disk, metadata, legacy, basedirs, Bounds, history>>

Unwound ==
    /\ At("unwind") /\ proc.dirty = {}
    /\ Exit(proc.exit)
    /\ UNCHANGED <<disks, Bounds, history>>

(***************************************************************************)
(* The environment                                                         *)
(***************************************************************************)
Dirty(b) == {d \in proc.dirty : d[1] = b}

Crash ==
    /\ ~At("idle")
    /\ crashes < MaxCrashes
    /\ crashes' = crashes + 1
    /\ Exit("killed")
    /\ lostLegacy' = (lostLegacy \/ At("truncate"))
    /\ halfWritten' = (halfWritten \/ \E b \in DOMAIN disk : Cardinality(Dirty(b)) = 1)
    /\ UNCHANGED <<disks, machine, replaced, original, agreed, consents, seen, keys, ids>>

\* somebody puts another file system, or none, into the base directory (also while a password is asked for)
Replace ==
    /\ At("idle") \/ At("new file")
    /\ replaced < MaxReplaced
    /\ \E f \in FsIds, c \in ClientIds, p \in Passwords : \E content \in Contents(f, c, p) :
        /\ file' = content[1]
        /\ disk' = content[2]
        /\ original' = content[1].config
    /\ agreed' = {}
    /\ halfWritten' = FALSE
    /\ replaced' = replaced + 1
    /\ UNCHANGED <<metadata, legacy, basedirs, violated, machine, proc, crashes, consents, seen, keys, ids, lostLegacy>>

Next ==
    \/ Start \/ Load \/ CheckVersion \/ NoteOpened \/ CheckCipher \/ Create \/ LoadMetadata
    \/ TakeLegacyClientId \/ SaveMetadata \/ CreateFile \/ CheckMissingBlocks \/ CheckConfigIntegrity
    \/ WriteBasedirs \/ MigrateBlock \/ VersionsMigrated \/ OpenIntegrityData \/ MigrateBlob
    \/ ParentsMigrated \/ Signal \/ GetOrCreateRootBlob \/ WriteBack \/ FinishSave
    \/ SanityCheckFilesystem \/ Stop \/ Unwound \/ Crash \/ Replace

Spec == Init /\ [][Next]_vars

(***************************************************************************)
(* Properties                                                              *)
(***************************************************************************)
Mounts == ~At("mounted") /\ proc'.pc = "mounted"

\* A machine mounts a file system other than the one it mounted there last, or the same one
\* with another key, only after its user agreed (Cli::_checkConfigIntegrity and
\* LocalStateMetadata::loadOrGenerate), whatever was killed and restarted in between.
ReplacedOnlyWithConsent ==
    [][Mounts => /\ seen[machine] \in {None, Config.fsid} \/ Config.fsid \in consents[machine]
                 /\ keys[machine][Config.fsid] \in {None, Config.key} \/ proc.allowReplaced]_vars

\* The blocks of an old file system are not touched, its version is not raised and a
\* single-client file system is not opened to others before somebody said yes; also not by a later
\* start that finds what an earlier one left behind (CryConfigLoader::_checkVersion,
\* _checkMissingBlocksAreIntegrityViolations, the order of the saves).
ChangesNeedConsent ==
    /\ original.version = "old" /\ "version" \notin agreed =>
           /\ \A b \in DOMAIN disk : disk[b] = OldBlob
           /\ file.state = "whole" => file.config.version = "old"
    /\ original.exclusive # None /\ "shared" \notin agreed /\ file.state = "whole" =>
           file.config.exclusive = original.exclusive

\* However often a migration is interrupted and resumed, a block gets one version header, the
\* config's block size grows once and exactly when its flag says that all blocks have the header,
\* and the data of a blob is moved once (unless a kill left a blob half written).
MigratedOnce ==
    /\ \A b \in DOMAIN disk : disk[b].versions <= 1 /\ (disk[b].moved <= 1 \/ halfWritten)
    /\ file.state = "whole" =>
           /\ file.config.versions => \A b \in DOMAIN disk : disk[b].versions = 1
           /\ file.config.blocksize = IF file.config.versions /\ ~original.versions THEN 1 ELSE 0

\* A machine uses one client id for a file system as long as its files are not lost: the id of
\* the legacy file is taken over, and a start that was killed does not lead to a second id
\* (unless it was killed right after it had removed the legacy file).
ClientIdIsKept ==
    [][Mounts => ids[machine][Config.fsid] \in {None, proc.client} \/ lostLegacy]_vars
=============================================================================
