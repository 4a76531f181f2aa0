------------------------ MODULE IntegrityBlockStore2 ------------------------
(***************************************************************************)
(* Block integrity: IntegrityBlockStore2 and the KnownBlockVersions it     *)
(* keeps per client.  Every block is stored with a header naming the block,*)
(* the client that wrote it and that client's version number; each client  *)
(* remembers, per block, the newest version it knows of every client and   *)
(* which client wrote last, and refuses a block that is older than that.   *)
(*                                                                         *)
(* Clients share one base store.  Within a client the layers above keep at *)
(* most one operation on a block running, so op[c][id] is a single slot;   *)
(* operations of different clients, and of one client on different blocks, *)
(* interleave between the update of KnownBlockVersions and the access to   *)
(* the base store.  Only the header of a block is kept, not its payload.   *)
(***************************************************************************)
EXTENDS Integers

CONSTANTS
    Clients,      \* client ids
    BlockIds,     \* block ids
    VersionMax,   \* numeric_limits<uint64_t>::max()
    AllowIntegrityViolations,          \* the mount option of that name
    MissingBlockIsIntegrityViolation,  \* the config option of that name
    Faults,       \* which faults of the environment may happen
    NoBlock,      \* no block under this id
    DeletedBlock, \* CLIENT_ID_FOR_DELETED_BLOCK
    Idle          \* no operation running

\* incrementVersion never hands out VersionMax itself
Version == 1..(VersionMax - 1)

Header == [client: Clients, version: Version]

Block == [format: {"old", "current"}, id: BlockIds, header: Header]

LocalState == [known: [BlockIds -> [Clients -> Version \cup {0}]],
               lastUpdate: [BlockIds -> Clients \cup {DeletedBlock}],
               violation: BOOLEAN,
               latest: [BlockIds -> Header \cup {NoBlock}],
               superseded: [BlockIds -> SUBSET Header]]

Operation == [kind: {"tryCreate", "store"}, block: Block]
             \cup [kind: {"remove"}, block: {NoBlock}]
             \cup [kind: {"load"}, block: Block \cup {NoBlock}]

ASSUME ConstantsAssumption ==
    /\ VersionMax \in Nat \ {0, 1}
    /\ AllowIntegrityViolations \in BOOLEAN
    /\ MissingBlockIsIntegrityViolation \in BOOLEAN
    /\ Faults \subseteq {"rollback", "crash", "ioerror"}
    /\ NoBlock \notin Block \cup Header
    /\ DeletedBlock \notin Clients
    /\ Idle \notin Operation

(***************************************************************************)
(* A config with missingBlockIsIntegrityViolation is bound to one client.  *)
(***************************************************************************)
ASSUME ExclusiveClientAssumption ==
    MissingBlockIsIntegrityViolation => \A c, d \in Clients : c = d

VARIABLES
    base,       \* base[id]: the block the base store holds under id
    written,    \* every block that ever reached the base store (history)
    faults,     \* the faults that happened so far (history)
    mounted,    \* mounted[c]: client c has a live IntegrityBlockStore2
    mem,        \* mem[c]: c's KnownBlockVersions object
    stateFile,  \* stateFile[c]: c's integritydata file
    op          \* op[c][id]: c's running operation on block id

vars == <<base, written, faults, mounted, mem, stateFile, op>>

(***************************************************************************)
(* mem[c].latest and mem[c].superseded are history: the version c last     *)
(* wrote or handed out for an id, and those it replaced in c's eyes.  They *)
(* are saved, restored and lost together with the state they describe.     *)
(***************************************************************************)
Supersede(s, id, h) ==
    [s EXCEPT !.latest[id] = h,
              !.superseded[id] = @ \cup ({s.latest[id]} \ {NoBlock, h})]

----------------------------------------------------------------------------
(***************************************************************************)
(* KnownBlockVersions.  An absent version entry reads as 0 and an absent   *)
(* last-update entry behaves as a deleted block, so both maps are total.   *)
(***************************************************************************)
\* mutant: only an older version is refused, whoever updated the block last
IgnoresLastUpdate(s, id, h) == s.known[id][h.client] <= h.version

\* mutant: a version seen before is refused
RefusesSameVersion(s, id, h) == s.known[id][h.client] < h.version

VersionIsAcceptable(s, id, h) ==
    /\ s.known[id][h.client] <= h.version
    /\ s.known[id][h.client] = h.version => s.lastUpdate[id] = h.client

UpdateVersion(s, id, h) ==
    [s EXCEPT !.known[id][h.client] = h.version, !.lastUpdate[id] = h.client]

\* incrementVersion: c's next version of id, refused on overflow
NextHeader(c, id) == [client |-> c, version |-> mem[c].known[id][c] + 1]

CanIncrementVersion(c, id) == NextHeader(c, id).version # VersionMax

IncrementVersion(s, id, h) == Supersede(UpdateVersion(s, id, h), id, h)

\* mutant: a deleted block starts again at version 1
ForgetsVersions(s, id) ==
    Supersede([s EXCEPT !.lastUpdate[id] = DeletedBlock,
                        !.known[id] = [c \in Clients |-> 0]], id, NoBlock)

MarkBlockAsDeleted(s, id) ==
    Supersede([s EXCEPT !.lastUpdate[id] = DeletedBlock], id, NoBlock)

BlockShouldExist(s, id) == s.lastUpdate[id] # DeletedBlock

----------------------------------------------------------------------------
(***************************************************************************)
(* An existing file system may hold blocks of the old format, here each at *)
(* the first version of the client author[id], known to that client only.  *)
(***************************************************************************)
OldHeader(c) == [client |-> c, version |-> 1]

OldBlock(author, id) ==
    [format |-> "old", id |-> id, header |-> OldHeader(author[id])]

OldState(author, c) ==
    [known      |-> [id \in BlockIds |-> [a \in Clients |->
                       IF a = c /\ author[id] = c THEN 1 ELSE 0]],
     lastUpdate |-> [id \in BlockIds |->
                       IF author[id] = c THEN c ELSE DeletedBlock],
     violation  |-> FALSE,
     latest     |-> [id \in BlockIds |->
                       IF author[id] = c THEN OldHeader(c) ELSE NoBlock],
     superseded |-> [id \in BlockIds |-> {}]]

InitFrom(author) ==
    /\ base = [id \in BlockIds |-> IF author[id] = DeletedBlock
                                   THEN NoBlock ELSE OldBlock(author, id)]
    /\ stateFile = [c \in Clients |-> OldState(author, c)]
    /\ written = {base[id] : id \in BlockIds} \ {NoBlock}
    /\ faults = {}
    /\ mounted = [c \in Clients |-> FALSE]
    /\ mem = stateFile
    /\ op = [c \in Clients |-> [id \in BlockIds |-> Idle]]

Init == \E author \in [BlockIds -> Clients \cup {DeletedBlock}] : InitFrom(author)

Quiet(c) == \A id \in BlockIds : op[c][id] = Idle

Begin(c, id, kind, b) ==
    /\ mounted[c] /\ op[c][id] = Idle
    /\ op' = [op EXCEPT ![c][id] = [kind |-> kind, block |-> b]]

Running(c, id, kind) ==
    /\ op[c][id] # Idle /\ op[c][id].kind = kind
    /\ op' = [op EXCEPT ![c][id] = Idle]

PutBlock(id, b) ==
    /\ base' = [base EXCEPT ![id] = b]
    /\ written' = written \cup {b}

----------------------------------------------------------------------------
(***************************************************************************)
(* Mounting loads the state file and is refused when it records a          *)
(* violation; unmounting saves it; a crash loses what was not saved.       *)
(***************************************************************************)
Mount(c) ==
    /\ ~mounted[c] /\ ~stateFile[c].violation
    /\ mounted' = [mounted EXCEPT ![c] = TRUE]
    /\ mem' = [mem EXCEPT ![c] = stateFile[c]]
    /\ UNCHANGED <<base, written, faults, stateFile, op>>

Unmount(c) ==
    /\ mounted[c] /\ Quiet(c)
    /\ mounted' = [mounted EXCEPT ![c] = FALSE]
    /\ stateFile' = [stateFile EXCEPT ![c] = mem[c]]
    /\ UNCHANGED <<base, written, faults, mem, op>>

Crash(c) ==
    /\ "crash" \in Faults /\ mounted[c]
    /\ mounted' = [mounted EXCEPT ![c] = FALSE]
    /\ op' = [op EXCEPT ![c] = [id \in BlockIds |-> Idle]]
    /\ mem' = [mem EXCEPT ![c] = stateFile[c]]
    /\ faults' = faults \cup {"crash"}
    /\ UNCHANGED <<base, written, stateFile>>

(***************************************************************************)
(* store and tryCreate take the new version first and then write the block.*)
(***************************************************************************)
BeginWrite(c, id, kind) ==
    LET h == NextHeader(c, id) IN
    /\ CanIncrementVersion(c, id)
    /\ Begin(c, id, kind, [format |-> "current", id |-> id, header |-> h])
    /\ mem' = [mem EXCEPT ![c] = IncrementVersion(@, id, h)]
    /\ UNCHANGED <<base, written, faults, mounted, stateFile>>

EndStore(c, id) ==
    /\ Running(c, id, "store")
    /\ PutBlock(id, op[c][id].block)
    /\ UNCHANGED <<faults, mounted, mem, stateFile>>

EndTryCreate(c, id) ==
    /\ Running(c, id, "tryCreate")
    /\ IF base[id] = NoBlock
       THEN PutBlock(id, op[c][id].block) /\ UNCHANGED faults
       ELSE faults' = faults \cup {"collision"} /\ UNCHANGED <<base, written>>
    /\ UNCHANGED <<mounted, mem, stateFile>>

\* the base store throws: the block is not written or removed, but the version
\* stays taken or the block marked as deleted
WriteFails(c, id) ==
    /\ "ioerror" \in Faults
    /\ \E kind \in {"store", "tryCreate", "remove"} : Running(c, id, kind)
    /\ faults' = faults \cup {"ioerror"}
    /\ UNCHANGED <<base, written, mounted, mem, stateFile>>

BeginRemove(c, id) ==
    /\ Begin(c, id, "remove", NoBlock)
    /\ mem' = [mem EXCEPT ![c] = MarkBlockAsDeleted(@, id)]
    /\ UNCHANGED <<base, written, faults, mounted, stateFile>>

EndRemove(c, id) ==
    /\ Running(c, id, "remove")
    /\ base' = [base EXCEPT ![id] = NoBlock]
    /\ UNCHANGED <<written, faults, mounted, mem, stateFile>>

(***************************************************************************)
(* load fetches the block, then checks its header.  A block of the old     *)
(* format carries no id: _migrateBlock gives it the id asked for, and once *)
(* accepted it is stored back in the current format with a new version.    *)
(***************************************************************************)
BeginLoad(c, id) ==
    /\ Begin(c, id, "load", base[id])
    /\ UNCHANGED <<base, written, faults, mounted, mem, stateFile>>

IntegrityViolationDetected(s) ==
    [s EXCEPT !.violation = @ \/ ~AllowIntegrityViolations]

EndLoadMissing(c, id) ==
    /\ Running(c, id, "load") /\ op[c][id].block = NoBlock
    /\ mem' = [mem EXCEPT ![c] =
                 IF MissingBlockIsIntegrityViolation /\ BlockShouldExist(@, id)
                 THEN IntegrityViolationDetected(@) ELSE @]
    /\ UNCHANGED <<base, written, faults, mounted, stateFile>>

CheckHeader(s, id, b) ==
    /\ b.format = "old" \/ b.id = id
    /\ VersionIsAcceptable(s, id, b.header)

\* what load leaves in memory: the header is recorded, or a violation is,
\* and a block handed out becomes the latest one this client has seen
Checked(s, id, b) ==
    IF CheckHeader(s, id, b)
    THEN Supersede(UpdateVersion(s, id, b.header), id, b.header)
    ELSE IF AllowIntegrityViolations THEN Supersede(s, id, b.header)
    ELSE IntegrityViolationDetected(s)

IsReturned(s, id, b) == CheckHeader(s, id, b) \/ AllowIntegrityViolations

EndLoad(c, id) ==
    LET b == op[c][id].block IN
    /\ Running(c, id, "load") /\ b # NoBlock
    /\ b.format = "old" => ~IsReturned(mem[c], id, b)
    /\ mem' = [mem EXCEPT ![c] = Checked(@, id, b)]
    /\ UNCHANGED <<base, written, faults, mounted, stateFile>>

EndLoadMigrating(c, id) ==
    LET b == op[c][id].block
        s == Checked(mem[c], id, b)
        h == [client |-> c, version |-> s.known[id][c] + 1]
    IN
    /\ op[c][id] # Idle /\ op[c][id].kind = "load"
    /\ b # NoBlock /\ b.format = "old" /\ IsReturned(mem[c], id, b)
    /\ IF h.version = VersionMax
       THEN \* store throws: the load fails after the header was recorded
            /\ op' = [op EXCEPT ![c][id] = Idle]
            /\ mem' = [mem EXCEPT ![c] = s]
       ELSE /\ op' = [op EXCEPT ![c][id] =
                 [kind |-> "store",
                  block |-> [format |-> "current", id |-> id, header |-> h]]]
            /\ mem' = [mem EXCEPT ![c] = IncrementVersion(s, id, h)]
    /\ UNCHANGED <<base, written, faults, mounted, stateFile>>

(***************************************************************************)
(* forEachBlock is only used by the stats tool, with nothing else running: *)
(* it reports the blocks the client expects and the base store lacks.      *)
(***************************************************************************)
ForEachBlock(c) ==
    /\ mounted[c] /\ Quiet(c) /\ MissingBlockIsIntegrityViolation
    /\ \E id \in BlockIds : BlockShouldExist(mem[c], id) /\ base[id] = NoBlock
    /\ mem' = [mem EXCEPT ![c] = IntegrityViolationDetected(@)]
    /\ UNCHANGED <<base, written, faults, mounted, stateFile, op>>

\* the base directory is replaced by an earlier state: a restored backup
Rollback(id) ==
    /\ "rollback" \in Faults
    /\ \E b \in written \cup {NoBlock} : base' = [base EXCEPT ![id] = b]
    /\ faults' = faults \cup {"rollback"}
    /\ UNCHANGED <<written, mounted, mem, stateFile, op>>

ClientStep(c) ==
    \/ Mount(c) \/ Unmount(c) \/ Crash(c) \/ ForEachBlock(c)
    \/ \E id \in BlockIds :
         \/ \E kind \in {"store", "tryCreate"} : BeginWrite(c, id, kind)
         \/ EndStore(c, id) \/ EndTryCreate(c, id) \/ WriteFails(c, id)
         \/ BeginRemove(c, id) \/ EndRemove(c, id)
         \/ BeginLoad(c, id) \/ EndLoad(c, id)
         \/ EndLoadMissing(c, id) \/ EndLoadMigrating(c, id)

Next == \/ \E c \in Clients : ClientStep(c)
        \/ \E id \in BlockIds : Rollback(id)

Spec == Init /\ [][Next]_vars

----------------------------------------------------------------------------
(***************************************************************************)
(* Every variable has its type; versions stay below VersionMax, which      *)
(* incrementVersion refuses to hand out (KnownBlockVersions.cpp:87).       *)
(***************************************************************************)
TypeOK ==
    /\ base \in [BlockIds -> Block \cup {NoBlock}]
    /\ written \subseteq Block
    /\ faults \subseteq Faults \cup {"collision"}
    /\ mounted \in [Clients -> BOOLEAN]
    /\ mem \in [Clients -> LocalState]
    /\ stateFile \in [Clients -> LocalState]
    /\ op \in [Clients -> [BlockIds -> Operation \cup {Idle}]]

(***************************************************************************)
(* What one client's KnownBlockVersions records about the versions it has  *)
(* seen: the latest one is exactly what known and lastUpdate name, and     *)
(* every superseded one is told apart from it by them.                     *)
(***************************************************************************)
KnowsLatest(s, id) ==
    LET h == s.latest[id] IN
    h # NoBlock => /\ s.known[id][h.client] = h.version
                   /\ s.lastUpdate[id] = h.client

KnowsSuperseded(s, id) ==
    \A h \in s.superseded[id] :
        /\ h.version <= s.known[id][h.client]
        /\ h.version = s.known[id][h.client] => s.lastUpdate[id] # h.client

Remembers(s) ==
    \A id \in BlockIds : KnowsLatest(s, id) /\ KnowsSuperseded(s, id)

\* the strengthening of NoSupersededBlockReturned that is inductive
MemoryInvariant ==
    ~AllowIntegrityViolations =>
        \A c \in Clients : Remembers(mem[c]) /\ Remembers(stateFile[c])

(***************************************************************************)
(* A client with integrity checks never hands out a version that it wrote, *)
(* read or deleted and that has since been replaced by another one in its  *)
(* eyes, whatever the base store serves and however often the state file   *)
(* is saved and restored: the newest version per client and the client of  *)
(* the last update are enough to tell (checkAndUpdateVersion).             *)
(***************************************************************************)
NoSupersededBlockReturned ==
    ~AllowIntegrityViolations =>
        \A c \in Clients, id \in BlockIds :
            mem[c].latest[id] \notin mem[c].superseded[id]

(***************************************************************************)
(* A client that did not crash never takes a version number twice for one  *)
(* block: its memory is ahead of every block it ever wrote, deleted blocks *)
(* included (incrementVersion, markBlockAsDeleted).                        *)
(***************************************************************************)
VersionsAreFresh ==
    "crash" \notin faults =>
        \A c \in Clients : \A b \in written :
            b.header.client = c => b.header.version <= mem[c].known[b.id][c]

(***************************************************************************)
(* A violation is only recorded, and the file system only locked, after    *)
(* the base store went back to an earlier state (the reason that           *)
(* CryDevice::CreateIntegrityEncryptedBlockStore gives the user), or after *)
(* tryCreate was called for an id in use, which random ids rule out.       *)
(***************************************************************************)
ViolationMeansRollback ==
    (\E c \in Clients : mem[c].violation) =>
        "rollback" \in faults \/ "collision" \in faults

(***************************************************************************)
(* As long as the environment does nothing wrong (no rollback, crash, I/O  *)
(* error or colliding id) no client reports a violation, however the       *)
(* operations of the clients interleave.                                   *)
(***************************************************************************)
ViolationMeansFault == (\E c \in Clients : mem[c].violation) => faults # {}
=============================================================================
