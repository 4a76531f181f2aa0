--------------------- MODULE IntegrityBlockStore2Proofs ---------------------
(***************************************************************************)
(* Proofs about IntegrityBlockStore2, for every set of clients and blocks, *)
(* every VersionMax and every kind of fault.                               *)
(***************************************************************************)
EXTENDS IntegrityBlockStore2, TLAPS

(***************************************************************************)
(* The operations of KnownBlockVersions keep its type.                     *)
(***************************************************************************)
LEMMA SupersedeType ==
    ASSUME NEW s \in LocalState, NEW id \in BlockIds,
           NEW h \in Header \cup {NoBlock}
    PROVE  Supersede(s, id, h) \in LocalState
BY Zenon DEF LocalState, Supersede

LEMMA UpdateVersionType ==
    ASSUME NEW s \in LocalState, NEW id \in BlockIds, NEW h \in Header
    PROVE  UpdateVersion(s, id, h) \in LocalState
BY Zenon DEF LocalState, UpdateVersion, Header

LEMMA MarkBlockAsDeletedType ==
    ASSUME NEW s \in LocalState, NEW id \in BlockIds
    PROVE  MarkBlockAsDeleted(s, id) \in LocalState
<1>1. [s EXCEPT !.lastUpdate[id] = DeletedBlock] \in LocalState
  BY Zenon DEF LocalState
<1> QED
  BY <1>1, SupersedeType, Zenon DEF MarkBlockAsDeleted

LEMMA IntegrityViolationType ==
    ASSUME NEW s \in LocalState
    PROVE  IntegrityViolationDetected(s) \in LocalState
BY ConstantsAssumption, Zenon DEF LocalState, IntegrityViolationDetected

LEMMA NextVersionType ==
    ASSUME NEW s \in LocalState, NEW id \in BlockIds, NEW c \in Clients,
           s.known[id][c] + 1 # VersionMax
    PROVE  [client |-> c, version |-> s.known[id][c] + 1] \in Header
<1>1. s.known[id][c] \in 0..(VersionMax - 1)
  BY ConstantsAssumption DEF LocalState, Version
<1> QED
  BY <1>1, ConstantsAssumption DEF Header, Version

LEMMA CheckedType ==
    ASSUME NEW s \in LocalState, NEW id \in BlockIds, NEW b \in Block
    PROVE  Checked(s, id, b) \in LocalState
<1>1. b.header \in Header
  BY Zenon DEF Block
<1>2. UpdateVersion(s, id, b.header) \in LocalState
  BY <1>1, UpdateVersionType, Zenon
<1> QED
  BY <1>1, <1>2, SupersedeType, IntegrityViolationType, Zenon DEF Checked

LEMMA IncrementVersionType ==
    ASSUME NEW s \in LocalState, NEW id \in BlockIds, NEW h \in Header
    PROVE  IncrementVersion(s, id, h) \in LocalState
BY SupersedeType, UpdateVersionType, Zenon DEF IncrementVersion

(***************************************************************************)
(* Type correctness, in particular that no version reaches VersionMax.     *)
(***************************************************************************)
LEMMA InitTypeOK == Init => TypeOK
<1> SUFFICES ASSUME Init PROVE TypeOK
  BY Zenon
<1>1. PICK author \in [BlockIds -> Clients \cup {DeletedBlock}] : InitFrom(author)
  BY Zenon DEF Init
<1>2. \A c \in Clients : OldHeader(c) \in Header
  BY ConstantsAssumption DEF Header, Version, OldHeader
<1>3. base \in [BlockIds -> Block \cup {NoBlock}]
  BY <1>1, <1>2, Zenon DEF Block, InitFrom, OldBlock
<1>4. ASSUME NEW c \in Clients PROVE OldState(author, c) \in LocalState
  BY <1>2, ConstantsAssumption DEF LocalState, OldState, Version
<1>5. stateFile \in [Clients -> LocalState]
  BY <1>1, <1>4, Zenon DEF InitFrom
<1> QED
  BY <1>1, <1>3, <1>5, Zenon DEF InitFrom, TypeOK

LEMMA NextTypeOK == TypeOK /\ [Next]_vars => TypeOK'
<1> SUFFICES ASSUME TypeOK, [Next]_vars PROVE TypeOK'
  BY Zenon
<1> USE DEF TypeOK
<1>1. ASSUME NEW c \in Clients, Mount(c) PROVE TypeOK'
  BY <1>1, Zenon DEF Mount
<1>2. ASSUME NEW c \in Clients, Unmount(c) PROVE TypeOK'
  BY <1>2, Zenon DEF Unmount
<1>3. ASSUME NEW c \in Clients, Crash(c) PROVE TypeOK'
  BY <1>3, Zenon DEF Crash
<1>4. ASSUME NEW c \in Clients, ForEachBlock(c) PROVE TypeOK'
  BY <1>4, IntegrityViolationType, Zenon DEF ForEachBlock
<1>5. ASSUME NEW c \in Clients, NEW id \in BlockIds,
             NEW kind \in {"store", "tryCreate"}, BeginWrite(c, id, kind)
      PROVE  TypeOK'
  <2> DEFINE h == NextHeader(c, id)
  <2>1. h \in Header
    BY <1>5, NextVersionType, Zenon DEF BeginWrite, CanIncrementVersion, NextHeader
  <2>2. IncrementVersion(mem[c], id, h) \in LocalState
    BY <2>1, IncrementVersionType, Zenon
  <2>3. [format |-> "current", id |-> id, header |-> h] \in Block
    BY <2>1, Zenon DEF Block
  <2>4. [kind |-> kind, block |-> [format |-> "current", id |-> id, header |-> h]]
          \in Operation
    BY <2>3, Zenon DEF Operation
  <2> QED
    BY <1>5, <2>2, <2>4, Zenon DEF BeginWrite, Begin
<1>6. ASSUME NEW c \in Clients, NEW id \in BlockIds, EndStore(c, id)
      PROVE  TypeOK'
  <2>1. op[c][id].block \in Block
    BY <1>6 DEF EndStore, Running, Operation
  <2> QED
    BY <1>6, <2>1, Zenon DEF EndStore, Running, PutBlock
<1>7. ASSUME NEW c \in Clients, NEW id \in BlockIds, EndTryCreate(c, id)
      PROVE  TypeOK'
  <2>1. op[c][id].block \in Block
    BY <1>7 DEF EndTryCreate, Running, Operation
  <2> QED
    BY <1>7, <2>1, Zenon DEF EndTryCreate, Running, PutBlock
<1>8. ASSUME NEW c \in Clients, NEW id \in BlockIds, WriteFails(c, id)
      PROVE  TypeOK'
  BY <1>8 DEF WriteFails, Running
<1>9. ASSUME NEW c \in Clients, NEW id \in BlockIds, BeginRemove(c, id)
      PROVE  TypeOK'
  <2>1. [kind |-> "remove", block |-> NoBlock] \in Operation
    BY Zenon DEF Operation
  <2> QED
    BY <1>9, <2>1, MarkBlockAsDeletedType, Zenon DEF BeginRemove, Begin
<1>10. ASSUME NEW c \in Clients, NEW id \in BlockIds, EndRemove(c, id)
       PROVE  TypeOK'
  BY <1>10, Zenon DEF EndRemove, Running
<1>11. ASSUME NEW c \in Clients, NEW id \in BlockIds, BeginLoad(c, id)
       PROVE  TypeOK'
  <2>1. [kind |-> "load", block |-> base[id]] \in Operation
    BY Zenon DEF Operation
  <2> QED
    BY <1>11, <2>1, Zenon DEF BeginLoad, Begin
<1>12. ASSUME NEW c \in Clients, NEW id \in BlockIds, EndLoadMissing(c, id)
       PROVE  TypeOK'
  BY <1>12, IntegrityViolationType, Zenon DEF EndLoadMissing, Running
<1>13. ASSUME NEW c \in Clients, NEW id \in BlockIds, EndLoad(c, id)
       PROVE  TypeOK'
  BY <1>13, CheckedType DEF EndLoad, Running, Operation
<1>14. ASSUME NEW c \in Clients, NEW id \in BlockIds, EndLoadMigrating(c, id)
       PROVE  TypeOK'
  <2> DEFINE b == op[c][id].block
             s == Checked(mem[c], id, b)
             h == [client |-> c, version |-> s.known[id][c] + 1]
             new == [format |-> "current", id |-> id, header |-> h]
  <2>1. b \in Block
    BY <1>14 DEF EndLoadMigrating, Operation
  <2>2. s \in LocalState
    BY <2>1, CheckedType, Zenon
  <2> HIDE DEF s
  <2>3. UNCHANGED <<base, written, faults, mounted, stateFile>>
    BY <1>14, Zenon DEF EndLoadMigrating
  <2>4. CASE h.version = VersionMax
    <3>1. op' = [op EXCEPT ![c][id] = Idle] /\ mem' = [mem EXCEPT ![c] = s]
      BY <1>14, <2>4, Zenon DEF EndLoadMigrating, s
    <3> QED
      BY <2>3, <2>2, <3>1, Zenon
  <2>5. CASE h.version # VersionMax
    <3>1. h \in Header
      BY <2>2, <2>5, NextVersionType, Zenon
    <3>2. IncrementVersion(s, id, h) \in LocalState
      BY <2>2, <3>1, IncrementVersionType, Zenon
    <3>3. [kind |-> "store", block |-> new] \in Operation
      BY <3>1, Zenon DEF Operation, Block
    <3>4. /\ op' = [op EXCEPT ![c][id] = [kind |-> "store", block |-> new]]
          /\ mem' = [mem EXCEPT ![c] = IncrementVersion(s, id, h)]
      BY <1>14, <2>5, Zenon DEF EndLoadMigrating, s
    <3> QED
      BY <2>3, <3>2, <3>3, <3>4, Zenon
  <2> QED
    BY <2>4, <2>5, Zenon
<1>15. ASSUME NEW id \in BlockIds, Rollback(id) PROVE TypeOK'
  BY <1>15, Zenon DEF Rollback
<1>16. CASE UNCHANGED vars
  BY <1>16, Zenon DEF vars
<1> QED
  BY <1>1, <1>2, <1>3, <1>4, <1>5, <1>6, <1>7, <1>8, <1>9, <1>10, <1>11,
     <1>12, <1>13, <1>14, <1>15, <1>16, Zenon DEF Next, ClientStep

(***************************************************************************)
(* No version number ever reaches VersionMax and every variable keeps its  *)
(* type (incrementVersion refuses the last version, KnownBlockVersions).   *)
(***************************************************************************)
THEOREM TypeCorrect == Spec => []TypeOK
BY InitTypeOK, NextTypeOK, PTL DEF Spec

(***************************************************************************)
(* Recording an acceptable header keeps latest and superseded told apart   *)
(* by known and lastUpdate.  An incremented version is always acceptable.  *)
(***************************************************************************)
LEMMA RemembersAccepted ==
    ASSUME NEW s \in LocalState, Remembers(s),
           NEW id \in BlockIds, NEW h \in Header, VersionIsAcceptable(s, id, h)
    PROVE  Remembers(Supersede(UpdateVersion(s, id, h), id, h))
<1> DEFINE t == Supersede(UpdateVersion(s, id, h), id, h)
<1>1. /\ t.known = [s.known EXCEPT ![id][h.client] = h.version]
      /\ t.lastUpdate = [s.lastUpdate EXCEPT ![id] = h.client]
      /\ t.latest = [s.latest EXCEPT ![id] = h]
      /\ t.superseded = [s.superseded EXCEPT ![id] =
                            @ \cup ({s.latest[id]} \ {NoBlock, h})]
  BY Zenon DEF LocalState, Supersede, UpdateVersion
<1>2. t \in LocalState
  BY UpdateVersionType, SupersedeType, Zenon
<1> HIDE DEF t
<1>3. \A g \in Header : /\ g.client \in Clients /\ g.version \in Int
                        /\ \A f \in Header : f.client = g.client /\ f.version = g.version
                                               => f = g
  BY ConstantsAssumption DEF Header, Version
<1>4. /\ s.known \in [BlockIds -> [Clients -> Int]]
      /\ s.lastUpdate \in [BlockIds -> Clients \cup {DeletedBlock}]
      /\ s.latest \in [BlockIds -> Header \cup {NoBlock}]
      /\ s.superseded \in [BlockIds -> SUBSET Header]
  BY ConstantsAssumption DEF LocalState, Version
<1>5. ASSUME NEW x \in BlockIds PROVE KnowsLatest(t, x)
  BY <1>1, <1>3, <1>4, <1>5 DEF KnowsLatest, Remembers
<1>6. ASSUME NEW x \in BlockIds, NEW g \in t.superseded[x]
      PROVE  /\ g.version <= t.known[x][g.client]
             /\ g.version = t.known[x][g.client] => t.lastUpdate[x] # g.client
  <2>1. CASE x # id
    BY <1>1, <1>4, <1>6, <2>1 DEF Remembers, KnowsSuperseded
  <2>2. CASE x = id /\ g \in s.superseded[id]
    <3>1. /\ g \in Header
          /\ g.version <= s.known[id][g.client]
          /\ g.version = s.known[id][g.client] => s.lastUpdate[id] # g.client
      BY <1>4, <2>2, Zenon DEF Remembers, KnowsSuperseded
    <3>2. s.known[id][g.client] \in Int /\ s.known[id][h.client] \in Int
      BY <1>3, <1>4, <3>1, Zenon
    <3>3. g.client = h.client => g.version <= h.version /\ g.version # h.version
      BY <1>3, <3>1, <3>2 DEF VersionIsAcceptable
    <3> QED
      BY <1>1, <1>3, <1>4, <2>2, <3>1, <3>3
  <2>3. CASE x = id /\ g = s.latest[id] /\ g # NoBlock /\ g # h
    <3>1. g \in Header /\ s.known[id][g.client] = g.version
      BY <1>4, <2>3, Zenon DEF Remembers, KnowsLatest
    <3>2. g.client = h.client => g.version <= h.version /\ g.version # h.version
      BY <1>3, <2>3, <3>1, Zenon DEF VersionIsAcceptable
    <3> QED
      BY <1>1, <1>3, <1>4, <2>3, <3>1, <3>2
  <2> QED
    BY <1>1, <1>4, <1>6, <2>1, <2>2, <2>3
<1> QED
  BY <1>5, <1>6, Zenon DEF Remembers, KnowsSuperseded, t

LEMMA RemembersIncremented ==
    ASSUME NEW s \in LocalState, Remembers(s), NEW id \in BlockIds,
           NEW h \in Header, h.version = s.known[id][h.client] + 1
    PROVE  Remembers(IncrementVersion(s, id, h))
<1>1. s.known[id][h.client] \in Int
  BY ConstantsAssumption DEF LocalState, Version, Header
<1>2. VersionIsAcceptable(s, id, h)
  BY <1>1 DEF VersionIsAcceptable
<1> QED
  BY <1>2, RemembersAccepted, Zenon DEF IncrementVersion

LEMMA RemembersDeleted ==
    ASSUME NEW s \in LocalState, Remembers(s), NEW id \in BlockIds
    PROVE  Remembers(MarkBlockAsDeleted(s, id))
<1> DEFINE t == MarkBlockAsDeleted(s, id)
<1>1. /\ t.known = s.known
      /\ t.lastUpdate = [s.lastUpdate EXCEPT ![id] = DeletedBlock]
      /\ t.latest = [s.latest EXCEPT ![id] = NoBlock]
      /\ t.superseded = [s.superseded EXCEPT ![id] = @ \cup ({s.latest[id]} \ {NoBlock})]
  BY Zenon DEF LocalState, Supersede, MarkBlockAsDeleted
<1> HIDE DEF t
<1>2. \A g \in Header : g.client \in Clients /\ g.version \in Int
  BY ConstantsAssumption DEF Header, Version
<1>3. /\ s.lastUpdate \in [BlockIds -> Clients \cup {DeletedBlock}]
      /\ s.latest \in [BlockIds -> Header \cup {NoBlock}]
      /\ s.superseded \in [BlockIds -> SUBSET Header]
  BY Zenon DEF LocalState
<1>4. ASSUME NEW x \in BlockIds PROVE KnowsLatest(t, x)
  BY <1>1, <1>3, <1>4, Zenon DEF KnowsLatest, Remembers
<1>5. ASSUME NEW x \in BlockIds PROVE KnowsSuperseded(t, x)
  BY <1>1, <1>2, <1>3, <1>5, ConstantsAssumption
     DEF KnowsSuperseded, KnowsLatest, Remembers
<1> QED
  BY <1>4, <1>5, Zenon DEF Remembers, t

LEMMA RemembersViolation ==
    ASSUME NEW s \in LocalState, Remembers(s)
    PROVE  Remembers(IntegrityViolationDetected(s))
<1>1. LET t == IntegrityViolationDetected(s)
      IN  /\ t.known = s.known /\ t.lastUpdate = s.lastUpdate
          /\ t.latest = s.latest /\ t.superseded = s.superseded
  BY Zenon DEF LocalState, IntegrityViolationDetected
<1> QED
  BY <1>1 DEF Remembers, KnowsLatest, KnowsSuperseded

LEMMA RemembersChecked ==
    ASSUME ~AllowIntegrityViolations,
           NEW s \in LocalState, Remembers(s), NEW id \in BlockIds, NEW b \in Block
    PROVE  Remembers(Checked(s, id, b))
<1>1. b.header \in Header
  BY Zenon DEF Block
<1> QED
  BY <1>1, RemembersAccepted, RemembersViolation, Zenon DEF Checked, CheckHeader

LEMMA InitMemory == Init => MemoryInvariant
<1> SUFFICES ASSUME Init, NEW c \in Clients
             PROVE  Remembers(mem[c]) /\ Remembers(stateFile[c])
  BY Zenon DEF MemoryInvariant
<1>1. PICK author \in [BlockIds -> Clients \cup {DeletedBlock}] : InitFrom(author)
  BY Zenon DEF Init
<1>2. Remembers(OldState(author, c))
  BY Zenon DEF Remembers, KnowsLatest, KnowsSuperseded, OldState, OldHeader
<1> QED
  BY <1>1, <1>2, Zenon DEF InitFrom

LEMMA NextMemory == TypeOK /\ MemoryInvariant /\ [Next]_vars => MemoryInvariant'
<1> SUFFICES ASSUME TypeOK, MemoryInvariant, [Next]_vars, ~AllowIntegrityViolations
             PROVE  \A c \in Clients : Remembers(mem[c])' /\ Remembers(stateFile[c])'
  BY Zenon DEF MemoryInvariant
<1>1. /\ mem \in [Clients -> LocalState] /\ stateFile \in [Clients -> LocalState]
      /\ \A c \in Clients, id \in BlockIds :
            op[c][id] # Idle => op[c][id] \in Operation
  BY Zenon DEF TypeOK
<1>2. \A c \in Clients : Remembers(mem[c]) /\ Remembers(stateFile[c])
  BY Zenon DEF MemoryInvariant
<1>3. \* a step may save or reload a state, or replace the memory of one client
      ASSUME NEW c \in Clients, NEW s, Remembers(s),
             mem' = [mem EXCEPT ![c] = s],
             \/ UNCHANGED stateFile
             \/ stateFile' = [stateFile EXCEPT ![c] = mem[c]]
      PROVE  \A d \in Clients : Remembers(mem[d])' /\ Remembers(stateFile[d])'
  <2>1. \A d \in Clients : Remembers(mem'[d]) /\ Remembers(stateFile'[d])
    BY <1>1, <1>2, <1>3, Zenon
  <2> QED
    BY <2>1, Zenon DEF Remembers, KnowsLatest, KnowsSuperseded
<1>4. ASSUME UNCHANGED <<mem, stateFile>>
      PROVE  \A d \in Clients : Remembers(mem[d])' /\ Remembers(stateFile[d])'
  BY <1>2, <1>4 DEF Remembers, KnowsLatest, KnowsSuperseded
<1>5. ASSUME NEW c \in Clients, Mount(c) \/ Unmount(c) \/ Crash(c)
      PROVE  \A d \in Clients : Remembers(mem[d])' /\ Remembers(stateFile[d])'
  <2>1. mem = [mem EXCEPT ![c] = mem[c]]
    BY <1>1, Zenon
  <2> QED
    BY <1>2, <1>3, <1>5, <2>1, Zenon DEF Mount, Unmount, Crash
<1>6. ASSUME NEW c \in Clients, ForEachBlock(c)
      PROVE  \A d \in Clients : Remembers(mem[d])' /\ Remembers(stateFile[d])'
  BY <1>1, <1>2, <1>3, <1>6, RemembersViolation, Zenon DEF ForEachBlock
<1>7. ASSUME NEW c \in Clients, NEW id \in BlockIds,
             NEW kind \in {"store", "tryCreate"}, BeginWrite(c, id, kind)
      PROVE  \A d \in Clients : Remembers(mem[d])' /\ Remembers(stateFile[d])'
  <2>1. NextHeader(c, id) \in Header
    BY <1>1, <1>7, NextVersionType, Zenon DEF BeginWrite, CanIncrementVersion, NextHeader
  <2>2. Remembers(IncrementVersion(mem[c], id, NextHeader(c, id)))
    BY <1>1, <1>2, <2>1, RemembersIncremented, Zenon DEF NextHeader
  <2> QED
    BY <1>3, <1>7, <2>2, Zenon DEF BeginWrite
<1>8. ASSUME NEW c \in Clients, NEW id \in BlockIds, BeginRemove(c, id)
      PROVE  \A d \in Clients : Remembers(mem[d])' /\ Remembers(stateFile[d])'
  BY <1>1, <1>2, <1>3, <1>8, RemembersDeleted, Zenon DEF BeginRemove
<1>9. ASSUME NEW c \in Clients, NEW id \in BlockIds, EndLoadMissing(c, id)
      PROVE  \A d \in Clients : Remembers(mem[d])' /\ Remembers(stateFile[d])'
  BY <1>1, <1>2, <1>3, <1>9, RemembersViolation, Zenon DEF EndLoadMissing
<1>10. ASSUME NEW c \in Clients, NEW id \in BlockIds, EndLoad(c, id)
       PROVE  \A d \in Clients : Remembers(mem[d])' /\ Remembers(stateFile[d])'
  <2>1. op[c][id].block \in Block
    BY <1>1, <1>10, Zenon DEF EndLoad, Running, Operation
  <2> QED
    BY <1>1, <1>2, <1>3, <1>10, <2>1, RemembersChecked, Zenon DEF EndLoad
<1>11. ASSUME NEW c \in Clients, NEW id \in BlockIds, EndLoadMigrating(c, id)
       PROVE  \A d \in Clients : Remembers(mem[d])' /\ Remembers(stateFile[d])'
  <2> DEFINE b == op[c][id].block
             s == Checked(mem[c], id, b)
             h == [client |-> c, version |-> s.known[id][c] + 1]
  <2>1. b \in Block
    BY <1>1, <1>11, Zenon DEF EndLoadMigrating, Operation
  <2>2. s \in LocalState /\ Remembers(s)
    BY <1>1, <1>2, <2>1, CheckedType, RemembersChecked, Zenon
  <2>3. UNCHANGED stateFile
    BY <1>11, Zenon DEF EndLoadMigrating
  <2> HIDE DEF s
  <2>4. CASE h.version = VersionMax
    <3>1. mem' = [mem EXCEPT ![c] = s]
      BY <1>11, <2>4, Zenon DEF EndLoadMigrating, s
    <3> QED
      BY <1>3, <2>2, <2>3, <3>1, Zenon
  <2>5. CASE h.version # VersionMax
    <3>1. h \in Header
      BY <2>2, <2>5, NextVersionType, Zenon
    <3>2. Remembers(IncrementVersion(s, id, h))
      BY <2>2, <3>1, RemembersIncremented, Zenon
    <3>3. mem' = [mem EXCEPT ![c] = IncrementVersion(s, id, h)]
      BY <1>11, <2>5, Zenon DEF EndLoadMigrating, s
    <3> QED
      BY <1>3, <2>3, <3>2, <3>3, Zenon
  <2> QED
    BY <2>4, <2>5, Zenon
<1>12. ASSUME NEW c \in Clients, NEW id \in BlockIds,
              \/ EndStore(c, id) \/ EndTryCreate(c, id) \/ WriteFails(c, id)
              \/ EndRemove(c, id) \/ BeginLoad(c, id)
       PROVE  UNCHANGED <<mem, stateFile>>
  BY <1>12, Zenon DEF EndStore, EndTryCreate, WriteFails, EndRemove, BeginLoad
<1>13. ASSUME NEW id \in BlockIds, Rollback(id)
       PROVE  UNCHANGED <<mem, stateFile>>
  BY <1>13, Zenon DEF Rollback
<1>14. CASE UNCHANGED vars
  BY <1>4, <1>14, Zenon DEF vars
<1> QED
  BY <1>4, <1>5, <1>6, <1>7, <1>8, <1>9, <1>10, <1>11, <1>12, <1>13, <1>14, Zenon
     DEF Next, ClientStep

(***************************************************************************)
(* With integrity checks on, a client never hands out a version that it    *)
(* knows to have been replaced: for any number of clients and blocks, any  *)
(* interleaving of their operations, and any sequence of rollbacks,        *)
(* crashes and write errors (checkAndUpdateVersion).                       *)
(***************************************************************************)
THEOREM RollbackDetection == Spec => []NoSupersededBlockReturned
<1>1. TypeOK /\ MemoryInvariant => NoSupersededBlockReturned
  <2> SUFFICES ASSUME TypeOK, MemoryInvariant, ~AllowIntegrityViolations,
                      NEW c \in Clients, NEW id \in BlockIds,
                      mem[c].latest[id] \in mem[c].superseded[id]
               PROVE  FALSE
    BY Zenon DEF NoSupersededBlockReturned
  <2>1. mem[c].latest[id] \in Header
    BY DEF TypeOK, LocalState
  <2>2. mem[c].latest[id] # NoBlock
    BY <2>1, ConstantsAssumption, Zenon
  <2>3. KnowsLatest(mem[c], id) /\ KnowsSuperseded(mem[c], id)
    BY Zenon DEF MemoryInvariant, Remembers
  <2> QED
    BY <2>2, <2>3, Zenon DEF KnowsLatest, KnowsSuperseded
<1> QED
  BY <1>1, InitMemory, NextMemory, TypeCorrect, PTL DEF Spec

-----------------------------------------------------------------------------
(* Versions *)

Known(c, id, d) == mem[c].known[id][d]

\* op[c][id] is a store or tryCreate that has its version and has not written yet.
Writing(c, id) == op[c][id] # Idle /\ op[c][id].kind \in {"store", "tryCreate"}

Loading(c, id) == op[c][id] # Idle /\ op[c][id].kind = "load"

(***************************************************************************)
(* The strengthening of VersionsAreFresh: the version of a running write   *)
(* is one its client knows, and a client that is not mounted has nothing   *)
(* in memory that its state file lacks.                                    *)
(***************************************************************************)
FreshInvariant ==
    "crash" \notin faults =>
        /\ \A c \in Clients : ~mounted[c] => mem[c] = stateFile[c] /\ Quiet(c)
        /\ \A b \in written : b.header.version <= Known(b.header.client, b.id, b.header.client)
        /\ \A c \in Clients, id \in BlockIds : Writing(c, id) =>
             /\ op[c][id].block.id = id /\ op[c][id].block.header.client = c
             /\ op[c][id].block.header.version <= Known(c, id, c)

(***************************************************************************)
(* The strengthening of ViolationMeansFault, for a block id: whatever the  *)
(* base store holds, a client without an operation on it accepts.  A       *)
(* running write is newer than anything of its client that was written or  *)
(* is known elsewhere.  A running load accepts what it has fetched, and    *)
(* will still accept what has been written since.                          *)
(***************************************************************************)
Accepts(c, id, b) == VersionIsAcceptable(mem[c], id, b.header)

NewerThan(b, a) == b.header.client = a.header.client => a.header.version < b.header.version

WriteIsNew(c, id) ==
    LET b == op[c][id].block IN
    /\ b.id = id /\ b.header.client = c
    /\ b.header.version = Known(c, id, c) /\ mem[c].lastUpdate[id] = c
    /\ \A a \in written : a.id = id => NewerThan(b, a)
    /\ \A d \in Clients \ {c} : Known(d, id, c) < b.header.version

LoadIsAccepted(c, id) ==
    LET b == op[c][id].block IN
    /\ b # NoBlock => b.id = id /\ b \in written /\ Accepts(c, id, b)
    /\ base[id] # NoBlock /\ base[id] # b =>
         /\ Known(c, id, base[id].header.client) < base[id].header.version
         /\ b # NoBlock => NewerThan(base[id], b)

BlockIsClean(id) ==
    /\ base[id] # NoBlock => base[id].id = id /\ base[id] \in written
    /\ \A c, d \in Clients : Known(c, id, d) <= Known(d, id, d)
    /\ \A c \in Clients :
         /\ Writing(c, id) => WriteIsNew(c, id)
         /\ Loading(c, id) => LoadIsAccepted(c, id)
         /\ op[c][id] = Idle /\ base[id] # NoBlock => Accepts(c, id, base[id])

\* With one client only, the base store lacks a block only if that client has deleted it.
MissingIsDeleted(id) ==
    MissingBlockIsIntegrityViolation =>
        \A c \in Clients :
          /\ Loading(c, id) => op[c][id].block = base[id]
          /\ op[c][id] # Idle /\ op[c][id].kind = "remove" => ~BlockShouldExist(mem[c], id)
          /\ (op[c][id] = Idle \/ Loading(c, id)) /\ base[id] = NoBlock
               => ~BlockShouldExist(mem[c], id)

NoFaultInvariant ==
    faults = {} /\ ~AllowIntegrityViolations =>
        /\ \A c \in Clients : ~mem[c].violation /\ ~stateFile[c].violation
        /\ \A id \in BlockIds : BlockIsClean(id) /\ MissingIsDeleted(id)

NoViolationWhenAllowed ==
    AllowIntegrityViolations => \A c \in Clients : ~mem[c].violation /\ ~stateFile[c].violation

\* What the operations of KnownBlockVersions do to known, lastUpdate and the recorded violation.
LEMMA AcceptView ==
    ASSUME NEW s \in LocalState, NEW id \in BlockIds, NEW h \in Header,
           NEW t, t = Supersede(UpdateVersion(s, id, h), id, h)
    PROVE  /\ \A i \in BlockIds, d \in Clients :
                t.known[i][d] = IF i = id /\ d = h.client THEN h.version ELSE s.known[i][d]
           /\ \A i \in BlockIds : t.lastUpdate[i] = IF i = id THEN h.client ELSE s.lastUpdate[i]
           /\ t.violation = s.violation
BY Zenon DEF LocalState, Supersede, UpdateVersion, Header

LEMMA DeleteView ==
    ASSUME NEW s \in LocalState, NEW id \in BlockIds, NEW t, t = MarkBlockAsDeleted(s, id)
    PROVE  /\ t.known = s.known
           /\ \A i \in BlockIds : t.lastUpdate[i] = IF i = id THEN DeletedBlock ELSE s.lastUpdate[i]
           /\ t.violation = s.violation
BY Zenon DEF LocalState, Supersede, MarkBlockAsDeleted

LEMMA ViolationView ==
    ASSUME NEW s \in LocalState, NEW t, t = IntegrityViolationDetected(s)
    PROVE  /\ t.known = s.known /\ t.lastUpdate = s.lastUpdate
           /\ AllowIntegrityViolations => t.violation = s.violation
BY Zenon DEF LocalState, IntegrityViolationDetected

LEMMA SupersedeView ==
    ASSUME NEW s \in LocalState, NEW id \in BlockIds, NEW h, NEW t, t = Supersede(s, id, h)
    PROVE  t.known = s.known /\ t.lastUpdate = s.lastUpdate /\ t.violation = s.violation
BY Zenon DEF LocalState, Supersede

LEMMA VersionsAreNumbers ==
    /\ \A s \in LocalState : \A i \in BlockIds, d \in Clients : s.known[i][d] \in Nat
    /\ \A h \in Header : h.client \in Clients /\ h.version \in Nat
    /\ \A b \in Block : b.id \in BlockIds /\ b.header \in Header
BY ConstantsAssumption DEF LocalState, Version, Header, Block

\* Known versions only grow.
Grows(s, t) == \A i \in BlockIds, d \in Clients : s.known[i][d] <= t.known[i][d]

LEMMA CheckedGrows ==
    ASSUME NEW s \in LocalState, NEW id \in BlockIds, NEW b \in Block
    PROVE  Grows(s, Checked(s, id, b))
<1> PICK t : t = Checked(s, id, b)
  BY Zenon
<1>1. b.header \in Header /\ b.header.client \in Clients
  BY VersionsAreNumbers, Zenon
<1>2. CASE CheckHeader(s, id, b)
  <2>1. t = Supersede(UpdateVersion(s, id, b.header), id, b.header)
    BY <1>2, Zenon DEF Checked
  <2>2. s.known[id][b.header.client] <= b.header.version
    BY <1>2, Zenon DEF CheckHeader, VersionIsAcceptable
  <2>3. \A i \in BlockIds, d \in Clients :
           t.known[i][d] = IF i = id /\ d = b.header.client THEN b.header.version ELSE s.known[i][d]
    BY <1>1, <2>1, AcceptView
  <2> QED
    BY <2>2, <2>3, VersionsAreNumbers DEF Grows
<1>3. CASE ~CheckHeader(s, id, b)
  <2>1. t = Supersede(s, id, b.header) \/ t = IntegrityViolationDetected(s)
    BY <1>3, Zenon DEF Checked
  <2>2. t.known = s.known
    BY <1>1, <2>1, SupersedeView, ViolationView
  <2> QED
    BY <2>2, VersionsAreNumbers DEF Grows
<1> QED
  BY <1>2, <1>3, Zenon

LEMMA IncrementGrows ==
    ASSUME NEW s \in LocalState, NEW id \in BlockIds, NEW h \in Header,
           h.version = s.known[id][h.client] + 1
    PROVE  /\ Grows(s, IncrementVersion(s, id, h))
           /\ IncrementVersion(s, id, h).known[id][h.client] = h.version
<1> PICK t : t = IncrementVersion(s, id, h)
  BY Zenon
<1>1. \A i \in BlockIds, d \in Clients :
         t.known[i][d] = IF i = id /\ d = h.client THEN h.version ELSE s.known[i][d]
  BY AcceptView DEF IncrementVersion
<1> QED
  BY <1>1, VersionsAreNumbers DEF Grows

\* One step of client c on block id: its operation becomes o and its memory s.
BlockStep(c, id, o, s) ==
    /\ mounted[c] /\ s \in LocalState /\ op' = [op EXCEPT ![c][id] = o]
    /\ mem' = [mem EXCEPT ![c] = s] /\ UNCHANGED <<mounted, stateFile>>

LEMMA BlockStepView ==
    ASSUME TypeOK, NEW c \in Clients, NEW id \in BlockIds, NEW o, NEW s, BlockStep(c, id, o, s)
    PROVE  /\ mounted[c] /\ s \in LocalState /\ UNCHANGED <<mounted, stateFile>>
           /\ mem'[c] = s /\ \A d \in Clients \ {c} : mem'[d] = mem[d]
           /\ op'[c][id] = o
           /\ \A d \in Clients, i \in BlockIds : d # c \/ i # id => op'[d][i] = op[d][i]
BY Zenon DEF BlockStep, TypeOK

\* The operation that a step leaves running holds a version its client knows.
Issued(c, id, o, s) ==
    o # Idle /\ o.kind \in {"store", "tryCreate"} =>
        /\ o.block.id = id /\ o.block.header.client = c
        /\ o.block.header.version <= s.known[id][c]

LEMMA FreshStep ==
    ASSUME TypeOK, FreshInvariant, "crash" \notin faults,
           NEW c \in Clients, NEW id \in BlockIds, NEW o, NEW s, BlockStep(c, id, o, s),
           Grows(mem[c], s), Issued(c, id, o, s),
           \A b \in written' : b \in written \/ (Writing(c, id) /\ b = op[c][id].block)
    PROVE  FreshInvariant'
<1>1. /\ \A d \in Clients : ~mounted[d] => mem[d] = stateFile[d] /\ \A i \in BlockIds : op[d][i] = Idle
      /\ \A b \in written : b.header.version <= Known(b.header.client, b.id, b.header.client)
      /\ \A d \in Clients, i \in BlockIds : Writing(d, i) =>
           /\ op[d][i].block.id = i /\ op[d][i].block.header.client = d
           /\ op[d][i].block.header.version <= Known(d, i, d)
  BY Zenon DEF FreshInvariant, Quiet
<1>2. /\ mounted[c] /\ s \in LocalState /\ mounted' = mounted /\ stateFile' = stateFile
      /\ mem'[c] = s /\ \A d \in Clients \ {c} : mem'[d] = mem[d]
      /\ op'[c][id] = o
      /\ \A d \in Clients, i \in BlockIds : d # c \/ i # id => op'[d][i] = op[d][i]
  BY BlockStepView
<1>3. \A d, e \in Clients, i \in BlockIds : /\ Known(d, i, e) \in Nat /\ Known(d, i, e)' \in Nat
                                            /\ Known(d, i, e) <= Known(d, i, e)'
  <2>1. \A d \in Clients : mem[d] \in LocalState
    BY Zenon DEF TypeOK
  <2> QED
    BY <1>2, <2>1, VersionsAreNumbers DEF Known, Grows
<1>4. \A d \in Clients : ~mounted'[d] => mem'[d] = stateFile'[d] /\ \A i \in BlockIds : op'[d][i] = Idle
  BY <1>1, <1>2
<1>5. ASSUME NEW b \in written'
      PROVE  b.header.version <= Known(b.header.client, b.id, b.header.client)'
  <2>1. b \in Block
    <3>1. Writing(c, id) => op[c][id].block \in Block
      BY DEF Writing, TypeOK, Operation
    <3> QED
      BY <3>1, Zenon DEF TypeOK
  <2>2. b.id \in BlockIds /\ b.header.client \in Clients /\ b.header.version \in Nat
    BY <2>1, VersionsAreNumbers, Zenon
  <2>3. b.header.version <= Known(b.header.client, b.id, b.header.client)
    BY <1>1
  <2> QED
    BY <1>3, <2>2, <2>3
<1>6. ASSUME NEW d \in Clients, NEW i \in BlockIds, Writing(d, i)'
      PROVE  /\ op'[d][i].block.id = i /\ op'[d][i].block.header.client = d
             /\ op'[d][i].block.header.version <= Known(d, i, d)'
  <2>1. CASE d = c /\ i = id
    BY <1>2, <1>6, <2>1, Zenon DEF Issued, Known, Writing
  <2>2. CASE d # c \/ i # id
    <3>1. Writing(d, i) /\ op'[d][i] = op[d][i]
      BY <1>2, <1>6, <2>2, Zenon DEF Writing
    <3>2. op[d][i].block \in Block
      BY <3>1 DEF Writing, TypeOK, Operation
    <3>3. op[d][i].block.header.version \in Nat
      BY <3>2, VersionsAreNumbers, Zenon
    <3> QED
      BY <1>1, <1>3, <3>1, <3>3
  <2> QED
    BY <2>1, <2>2, Zenon
<1> QED
  BY <1>4, <1>5, <1>6, Zenon DEF FreshInvariant, Quiet

LEMMA InitFresh == Init => FreshInvariant
<1> SUFFICES ASSUME Init PROVE FreshInvariant
  BY Zenon
<1>1. PICK author \in [BlockIds -> Clients \cup {DeletedBlock}] : InitFrom(author)
  BY Zenon DEF Init
<1>2. \A c \in Clients : mem[c] = stateFile[c] /\ Quiet(c)
  BY <1>1, Zenon DEF InitFrom, Quiet
<1>3. \A c \in Clients, id \in BlockIds : ~Writing(c, id)
  BY <1>1, Zenon DEF InitFrom, Writing
<1>4. ASSUME NEW b \in written
      PROVE  b.header.version <= Known(b.header.client, b.id, b.header.client)
  <2>1. PICK id \in BlockIds : b = base[id] /\ b # NoBlock
    BY <1>1, Zenon DEF InitFrom
  <2>2. b = OldBlock(author, id) /\ author[id] \in Clients
    BY <1>1, <2>1, Zenon DEF InitFrom
  <2>3. mem[author[id]] = OldState(author, author[id])
    BY <1>1, <2>2, Zenon DEF InitFrom
  <2>4. mem[author[id]].known[id][author[id]] = 1
    BY <2>2, <2>3 DEF OldState
  <2> QED
    BY <2>2, <2>4 DEF OldBlock, OldHeader, Known
<1> QED
  BY <1>2, <1>3, <1>4, Zenon DEF FreshInvariant

\* Each operation of a client on a block is a step of that client on that block.
LEMMA BeginWriteView ==
    ASSUME TypeOK, NEW c \in Clients, NEW id \in BlockIds, NEW kind \in {"store", "tryCreate"},
           BeginWrite(c, id, kind)
    PROVE  \E h \in Header, s \in LocalState :
             /\ h.client = c /\ h.version = Known(c, id, c) + 1
             /\ s = IncrementVersion(mem[c], id, h) /\ op[c][id] = Idle
             /\ BlockStep(c, id, [kind |-> kind, block |->
                           [format |-> "current", id |-> id, header |-> h]], s)
             /\ UNCHANGED <<base, written, faults>>
<1>1. mem[c] \in LocalState
  BY Zenon DEF TypeOK
<1>2. PICK h : h = NextHeader(c, id)
  BY Zenon
<1>3. h \in Header /\ h.client = c /\ h.version = Known(c, id, c) + 1
  BY <1>1, <1>2, NextVersionType, Zenon DEF BeginWrite, CanIncrementVersion, NextHeader, Known
<1>4. PICK s : s = IncrementVersion(mem[c], id, h)
  BY Zenon
<1>5. s \in LocalState
  BY <1>1, <1>3, <1>4, IncrementVersionType, Zenon
<1>6. /\ op[c][id] = Idle
      /\ BlockStep(c, id, [kind |-> kind, block |-> [format |-> "current", id |-> id, header |-> h]], s)
      /\ UNCHANGED <<base, written, faults>>
  BY <1>2, <1>4, <1>5, Zenon DEF BeginWrite, Begin, BlockStep
<1> QED
  BY <1>3, <1>4, <1>5, <1>6, Zenon

\* A load that ends leaves what checking its block left, and one that migrates it goes on as a store.
LEMMA EndLoadView ==
    ASSUME TypeOK, NEW c \in Clients, NEW id \in BlockIds, mounted[c],
           EndLoad(c, id) \/ EndLoadMigrating(c, id)
    PROVE  \E b \in Block, s \in LocalState :
             /\ Loading(c, id) /\ b = op[c][id].block /\ s = Checked(mem[c], id, b)
             /\ \/ BlockStep(c, id, Idle, s)
                \/ \E h \in Header, t \in LocalState :
                     /\ h.client = c /\ h.version = s.known[id][c] + 1
                     /\ t = IncrementVersion(s, id, h) /\ IsReturned(mem[c], id, b)
                     /\ BlockStep(c, id, [kind |-> "store", block |->
                                   [format |-> "current", id |-> id, header |-> h]], t)
             /\ UNCHANGED <<base, written, faults>>
<1>1. mem[c] \in LocalState
  BY Zenon DEF TypeOK
<1>2. PICK b : b = op[c][id].block
  BY Zenon
<1>3. Loading(c, id) /\ b \in Block
  BY <1>2 DEF EndLoad, EndLoadMigrating, Running, Loading, TypeOK, Operation
<1>4. PICK s : s = Checked(mem[c], id, b)
  BY Zenon
<1>5. s \in LocalState
  BY <1>1, <1>3, <1>4, CheckedType, Zenon
<1>6. UNCHANGED <<base, written, faults>>
  BY Zenon DEF EndLoad, EndLoadMigrating
<1>7. CASE EndLoad(c, id)
  <2>1. BlockStep(c, id, Idle, s)
    BY <1>2, <1>4, <1>5, <1>7, Zenon DEF EndLoad, Running, BlockStep
  <2> QED
    BY <1>2, <1>3, <1>4, <1>5, <1>6, <2>1, Zenon
<1>8. CASE EndLoadMigrating(c, id)
  <2>1. PICK h : h = [client |-> c, version |-> s.known[id][c] + 1]
    BY Zenon
  <2>2. CASE h.version = VersionMax
    <3>1. BlockStep(c, id, Idle, s)
      BY <1>2, <1>4, <1>5, <1>8, <2>1, <2>2, Zenon DEF EndLoadMigrating, BlockStep
    <3> QED
      BY <1>2, <1>3, <1>4, <1>5, <1>6, <3>1, Zenon
  <2>3. CASE h.version # VersionMax
    <3>1. h \in Header
      BY <1>5, <2>1, <2>3, NextVersionType, Zenon
    <3>2. PICK t : t = IncrementVersion(s, id, h)
      BY Zenon
    <3>3. t \in LocalState
      BY <1>5, <3>1, <3>2, IncrementVersionType, Zenon
    <3>4. BlockStep(c, id, [kind |-> "store", block |->
                       [format |-> "current", id |-> id, header |-> h]], t)
      BY <1>2, <1>4, <1>8, <2>1, <2>3, <3>2, <3>3, Zenon DEF EndLoadMigrating, BlockStep
    <3>5. IsReturned(mem[c], id, b)
      BY <1>2, <1>8, Zenon DEF EndLoadMigrating
    <3>6. h.client = c /\ h.version = s.known[id][c] + 1
      BY <2>1, Zenon
    <3> QED
      BY <1>2, <1>3, <1>4, <1>5, <1>6, <3>1, <3>2, <3>3, <3>4, <3>5, <3>6, Zenon
  <2> QED
    BY <2>2, <2>3, Zenon
<1> QED
  BY <1>7, <1>8, Zenon

LEMMA EndWriteView ==
    ASSUME TypeOK, NEW c \in Clients, NEW id \in BlockIds, mounted[c],
           \/ EndStore(c, id) \/ EndTryCreate(c, id) \/ WriteFails(c, id) \/ EndRemove(c, id)
    PROVE  BlockStep(c, id, Idle, mem[c])
<1>1. mem[c] \in LocalState /\ mem = [mem EXCEPT ![c] = mem[c]]
  BY Zenon DEF TypeOK
<1>2. /\ op' = [op EXCEPT ![c][id] = Idle]
      /\ mem' = mem /\ UNCHANGED <<mounted, stateFile>>
  BY Zenon DEF EndStore, EndTryCreate, WriteFails, EndRemove, Running
<1> QED
  BY <1>1, <1>2, Zenon DEF BlockStep

LEMMA BeginLoadView ==
    ASSUME TypeOK, NEW c \in Clients, NEW id \in BlockIds, BeginLoad(c, id)
    PROVE  BlockStep(c, id, [kind |-> "load", block |-> base[id]], mem[c])
<1>1. mem[c] \in LocalState /\ mem = [mem EXCEPT ![c] = mem[c]]
  BY Zenon DEF TypeOK
<1> QED
  BY <1>1, Zenon DEF BeginLoad, Begin, BlockStep

LEMMA BeginRemoveView ==
    ASSUME TypeOK, NEW c \in Clients, NEW id \in BlockIds, BeginRemove(c, id)
    PROVE  BlockStep(c, id, [kind |-> "remove", block |-> NoBlock], MarkBlockAsDeleted(mem[c], id))
<1>1. mem[c] \in LocalState
  BY Zenon DEF TypeOK
<1>2. MarkBlockAsDeleted(mem[c], id) \in LocalState
  BY <1>1, MarkBlockAsDeletedType, Zenon
<1> QED
  BY <1>2, Zenon DEF BeginRemove, Begin, BlockStep

LEMMA EndLoadMissingView ==
    ASSUME TypeOK, NEW c \in Clients, NEW id \in BlockIds, mounted[c], EndLoadMissing(c, id)
    PROVE  \E s \in LocalState :
             /\ s = IF MissingBlockIsIntegrityViolation /\ BlockShouldExist(mem[c], id)
                    THEN IntegrityViolationDetected(mem[c]) ELSE mem[c]
             /\ s.known = mem[c].known /\ s.lastUpdate = mem[c].lastUpdate
             /\ BlockStep(c, id, Idle, s)
<1>1. mem[c] \in LocalState
  BY Zenon DEF TypeOK
<1>2. PICK s : s = IF MissingBlockIsIntegrityViolation /\ BlockShouldExist(mem[c], id)
                   THEN IntegrityViolationDetected(mem[c]) ELSE mem[c]
  BY Zenon
<1>3. s \in LocalState /\ s.known = mem[c].known /\ s.lastUpdate = mem[c].lastUpdate
  BY <1>1, <1>2, IntegrityViolationType, ViolationView, Zenon
<1>4. BlockStep(c, id, Idle, s)
  BY <1>2, <1>3, Zenon DEF EndLoadMissing, Running, BlockStep
<1> QED
  BY <1>2, <1>3, <1>4, Zenon

LEMMA FaultsStay == [Next]_vars => faults \subseteq faults'
<1> SUFFICES ASSUME [Next]_vars PROVE faults \subseteq faults'
  BY Zenon
<1>1. \A c \in Clients : Mount(c) \/ Unmount(c) \/ Crash(c) \/ ForEachBlock(c) => faults \subseteq faults'
  BY Zenon DEF Mount, Unmount, Crash, ForEachBlock
<1>2. \A c \in Clients, id \in BlockIds :
         (\E kind \in {"store", "tryCreate"} : BeginWrite(c, id, kind)) \/ EndStore(c, id) \/ EndTryCreate(c, id)
           => faults \subseteq faults'
  BY Zenon DEF BeginWrite, EndStore, EndTryCreate
<1>3. \A c \in Clients, id \in BlockIds :
         WriteFails(c, id) \/ BeginRemove(c, id) \/ EndRemove(c, id) => faults \subseteq faults'
  BY Zenon DEF WriteFails, BeginRemove, EndRemove
<1>4. \A c \in Clients, id \in BlockIds :
         BeginLoad(c, id) \/ EndLoad(c, id) \/ EndLoadMissing(c, id) \/ EndLoadMigrating(c, id)
           => faults \subseteq faults'
  BY DEF BeginLoad, EndLoad, EndLoadMissing, EndLoadMigrating
<1>5. \A id \in BlockIds : Rollback(id) => faults \subseteq faults'
  BY Zenon DEF Rollback
<1>6. CASE UNCHANGED vars
  BY <1>6, Zenon DEF vars
<1> QED
  BY <1>1, <1>2, <1>3, <1>4, <1>5, <1>6, Zenon DEF Next, ClientStep

LEMMA NextFresh == TypeOK /\ FreshInvariant /\ [Next]_vars => FreshInvariant'
<1> SUFFICES ASSUME TypeOK, FreshInvariant, [Next]_vars, "crash" \notin faults'
             PROVE  FreshInvariant'
  BY Zenon DEF FreshInvariant
<1>1. \A c \in Clients : ~Crash(c)
  BY Zenon DEF Crash
<1>2. "crash" \notin faults
  BY FaultsStay, Zenon
<1>3. /\ \A c \in Clients : ~mounted[c] => mem[c] = stateFile[c] /\ Quiet(c)
      /\ \A c \in Clients : mem[c] \in LocalState
      /\ \A c \in Clients, id \in BlockIds : op[c][id] # Idle => mounted[c]
  BY <1>2 DEF FreshInvariant, TypeOK, Quiet
<1>4. \A s \in LocalState : Grows(s, s)
  BY VersionsAreNumbers DEF Grows
<1>5. ASSUME mem' = mem, op' = op, written' = written,
             \A c \in Clients : ~mounted'[c] => mem[c] = stateFile'[c] /\ Quiet(c)
      PROVE  FreshInvariant'
  BY <1>2, <1>5 DEF FreshInvariant, Known, Writing, Quiet
<1>6. ASSUME NEW c \in Clients, Mount(c) \/ Unmount(c) PROVE FreshInvariant'
  <2>1. mem' = mem
    BY <1>3, <1>6 DEF Mount, Unmount, TypeOK
  <2>2. op' = op /\ written' = written
    BY <1>6, Zenon DEF Mount, Unmount
  <2>3. \A d \in Clients : ~mounted'[d] => mem[d] = stateFile'[d] /\ Quiet(d)
    BY <1>3, <1>6, Zenon DEF Mount, Unmount, TypeOK
  <2> QED
    BY <1>5, <2>1, <2>2, <2>3, Zenon
<1>7. ASSUME NEW c \in Clients, ForEachBlock(c) PROVE FreshInvariant'
  <2>1. PICK s : s = IntegrityViolationDetected(mem[c])
    BY Zenon
  <2>2. s.known = mem[c].known
    BY <1>3, <2>1, ViolationView, Zenon
  <2>3. mem' = [mem EXCEPT ![c] = s] /\ mounted[c] /\ UNCHANGED <<written, mounted, stateFile, op>>
    BY <1>7, <2>1, Zenon DEF ForEachBlock
  <2>4. \A d, e \in Clients, i \in BlockIds : Known(d, i, e)' = Known(d, i, e)
    BY <2>2, <2>3, Zenon DEF Known, TypeOK
  <2>5. \A d \in Clients : ~mounted'[d] => mem'[d] = stateFile'[d] /\ Quiet(d)'
    BY <1>3, <2>3, Zenon DEF TypeOK, Quiet
  <2>6. \A b \in written : b.header.client \in Clients /\ b.id \in BlockIds
    BY VersionsAreNumbers, Zenon DEF TypeOK
  <2> QED
    BY <1>2, <2>3, <2>4, <2>5, <2>6 DEF FreshInvariant, Writing
<1>8. ASSUME NEW c \in Clients, NEW id \in BlockIds,
             NEW kind \in {"store", "tryCreate"}, BeginWrite(c, id, kind)
      PROVE  FreshInvariant'
  <2>1. PICK h \in Header, s \in LocalState :
             /\ h.client = c /\ h.version = Known(c, id, c) + 1
             /\ s = IncrementVersion(mem[c], id, h)
             /\ BlockStep(c, id, [kind |-> kind, block |->
                           [format |-> "current", id |-> id, header |-> h]], s)
             /\ UNCHANGED written
    BY <1>8, BeginWriteView, Zenon
  <2>2. Grows(mem[c], s) /\ s.known[id][c] = h.version
    BY <1>3, <2>1, IncrementGrows, Zenon DEF Known
  <2>3. Issued(c, id, [kind |-> kind, block |-> [format |-> "current", id |-> id, header |-> h]], s)
    BY <2>1, <2>2, VersionsAreNumbers DEF Issued
  <2> QED
    BY <1>2, <2>1, <2>2, <2>3, FreshStep, Zenon
<1>9. ASSUME NEW c \in Clients, NEW id \in BlockIds,
             \/ EndStore(c, id) \/ EndTryCreate(c, id) \/ WriteFails(c, id) \/ EndRemove(c, id)
      PROVE  FreshInvariant'
  <2>1. mounted[c]
    BY <1>3, <1>9, Zenon DEF EndStore, EndTryCreate, WriteFails, EndRemove, Running
  <2>2. BlockStep(c, id, Idle, mem[c])
    BY <1>9, <2>1, EndWriteView, Zenon
  <2>3. \A b \in written' : b \in written \/ (Writing(c, id) /\ b = op[c][id].block)
    BY <1>9, Zenon DEF EndStore, EndTryCreate, WriteFails, EndRemove, Running, PutBlock, Writing
  <2>4. Issued(c, id, Idle, mem[c])
    BY Zenon DEF Issued
  <2> QED
    BY <1>2, <1>3, <1>4, <2>2, <2>3, <2>4, FreshStep, Zenon
<1>10. ASSUME NEW c \in Clients, NEW id \in BlockIds, BeginRemove(c, id)
       PROVE  FreshInvariant'
  <2>1. PICK s : s = MarkBlockAsDeleted(mem[c], id)
    BY Zenon
  <2>2. BlockStep(c, id, [kind |-> "remove", block |-> NoBlock], s)
    BY <1>10, <2>1, BeginRemoveView, Zenon
  <2>3. Grows(mem[c], s)
    BY <1>3, <2>1, DeleteView, VersionsAreNumbers DEF Grows
  <2>4. Issued(c, id, [kind |-> "remove", block |-> NoBlock], s)
    BY Zenon DEF Issued
  <2>5. written' = written
    BY <1>10, Zenon DEF BeginRemove
  <2> QED
    BY <1>2, <2>2, <2>3, <2>4, <2>5, FreshStep, Zenon
<1>11. ASSUME NEW c \in Clients, NEW id \in BlockIds, BeginLoad(c, id)
       PROVE  FreshInvariant'
  <2>1. BlockStep(c, id, [kind |-> "load", block |-> base[id]], mem[c])
    BY <1>11, BeginLoadView, Zenon
  <2>2. Issued(c, id, [kind |-> "load", block |-> base[id]], mem[c])
    BY Zenon DEF Issued
  <2>3. written' = written
    BY <1>11, Zenon DEF BeginLoad
  <2> QED
    BY <1>2, <1>3, <1>4, <2>1, <2>2, <2>3, FreshStep, Zenon
<1>12. ASSUME NEW c \in Clients, NEW id \in BlockIds, EndLoadMissing(c, id)
       PROVE  FreshInvariant'
  <2>1. mounted[c] /\ written' = written
    BY <1>3, <1>12, Zenon DEF EndLoadMissing, Running
  <2>2. PICK s \in LocalState : s.known = mem[c].known /\ BlockStep(c, id, Idle, s)
    BY <1>12, <2>1, EndLoadMissingView, Zenon
  <2>3. Issued(c, id, Idle, s) /\ Grows(mem[c], s)
    BY <1>3, <2>2, VersionsAreNumbers DEF Issued, Grows
  <2> QED
    BY <1>2, <2>1, <2>2, <2>3, FreshStep, Zenon
<1>13. ASSUME NEW c \in Clients, NEW id \in BlockIds, EndLoad(c, id) \/ EndLoadMigrating(c, id)
       PROVE  FreshInvariant'
  <2>1. mounted[c]
    BY <1>3, <1>13, Zenon DEF EndLoad, EndLoadMigrating, Running
  <2>2. PICK b \in Block, s \in LocalState :
             /\ s = Checked(mem[c], id, b)
             /\ \/ BlockStep(c, id, Idle, s)
                \/ \E h \in Header, t \in LocalState :
                     /\ h.client = c /\ h.version = s.known[id][c] + 1
                     /\ t = IncrementVersion(s, id, h) /\ IsReturned(mem[c], id, b)
                     /\ BlockStep(c, id, [kind |-> "store", block |->
                                   [format |-> "current", id |-> id, header |-> h]], t)
             /\ UNCHANGED <<base, written, faults>>
    BY <1>13, <2>1, EndLoadView, Zenon
  <2>3. Grows(mem[c], s)
    BY <1>3, <2>2, CheckedGrows, Zenon
  <2>4. CASE BlockStep(c, id, Idle, s)
    <3>1. Issued(c, id, Idle, s)
      BY Zenon DEF Issued
    <3> QED
      BY <1>2, <2>2, <2>3, <2>4, <3>1, FreshStep, Zenon
  <2>5. CASE ~BlockStep(c, id, Idle, s)
    <3>1. PICK h \in Header, t \in LocalState :
                     /\ h.client = c /\ h.version = s.known[id][c] + 1
                     /\ t = IncrementVersion(s, id, h)
                     /\ BlockStep(c, id, [kind |-> "store", block |->
                                   [format |-> "current", id |-> id, header |-> h]], t)
      BY <2>2, <2>5, Zenon
    <3>2. Grows(s, t) /\ t.known[id][c] = h.version
      BY <3>1, IncrementGrows, Zenon
    <3>3. Grows(mem[c], t)
      BY <1>3, <2>3, <3>2, VersionsAreNumbers DEF Grows
    <3>4. Issued(c, id, [kind |-> "store", block |-> [format |-> "current", id |-> id, header |-> h]], t)
      BY <3>1, <3>2, VersionsAreNumbers DEF Issued
    <3> QED
      BY <1>2, <2>2, <3>1, <3>3, <3>4, FreshStep, Zenon
  <2> QED
    BY <2>4, <2>5, Zenon
<1>14. ASSUME NEW id \in BlockIds, Rollback(id) PROVE FreshInvariant'
  BY <1>3, <1>5, <1>14, Zenon DEF Rollback
<1>15. CASE UNCHANGED vars
  BY <1>3, <1>5, <1>15, Zenon DEF vars
<1> QED
  BY <1>1, <1>6, <1>7, <1>8, <1>9, <1>10, <1>11, <1>12, <1>13, <1>14, <1>15, Zenon DEF Next, ClientStep

(***************************************************************************)
(* A client that did not crash never takes a version number twice for one  *)
(* block, whatever the other clients and the base store do, rollbacks and  *)
(* write errors included (incrementVersion, markBlockAsDeleted).           *)
(***************************************************************************)
THEOREM VersionsStayFresh == Spec => []VersionsAreFresh
<1>1. TypeOK /\ FreshInvariant => VersionsAreFresh
  BY Zenon DEF FreshInvariant, VersionsAreFresh, Known
<1> QED
  BY <1>1, InitFresh, NextFresh, TypeCorrect, PTL DEF Spec

-----------------------------------------------------------------------------
(* No violation without a fault *)

LEMMA StepKnown ==
    ASSUME TypeOK, NEW c \in Clients, NEW id \in BlockIds, NEW o, NEW s, BlockStep(c, id, o, s)
    PROVE  /\ \A d, e \in Clients, i \in BlockIds :
                /\ Known(d, i, e)' = IF d = c THEN s.known[i][e] ELSE Known(d, i, e)
                /\ Known(d, i, e) \in Nat /\ Known(d, i, e)' \in Nat
           /\ \A d \in Clients, i \in BlockIds :
                mem'[d].lastUpdate[i] = IF d = c THEN s.lastUpdate[i] ELSE mem[d].lastUpdate[i]
           /\ op'[c][id] = o
           /\ \A d \in Clients, i \in BlockIds : d # c \/ i # id => op'[d][i] = op[d][i]
<1>1. \A d \in Clients : mem[d] \in LocalState
  BY Zenon DEF TypeOK
<1>2. /\ s \in LocalState
      /\ mem'[c] = s /\ \A d \in Clients \ {c} : mem'[d] = mem[d]
      /\ op'[c][id] = o
      /\ \A d \in Clients, i \in BlockIds : d # c \/ i # id => op'[d][i] = op[d][i]
  BY BlockStepView
<1> QED
  BY <1>1, <1>2, VersionsAreNumbers, Zenon DEF Known

\* A step on one block leaves what is known of the others.
LEMMA CleanElsewhere ==
    ASSUME TypeOK, NEW c \in Clients, NEW id \in BlockIds, NEW o, NEW s, BlockStep(c, id, o, s),
           NEW i \in BlockIds \ {id}, BlockIsClean(i), MissingIsDeleted(i),
           s.lastUpdate[i] = mem[c].lastUpdate[i], \A e \in Clients : s.known[i][e] = Known(c, i, e),
           base'[i] = base[i], \A b \in written' : b.id = i => b \in written, written \subseteq written'
    PROVE  BlockIsClean(i)' /\ MissingIsDeleted(i)'
<1>1. /\ \A d, e \in Clients : Known(d, i, e)' = Known(d, i, e)
      /\ \A d \in Clients : mem'[d].lastUpdate[i] = mem[d].lastUpdate[i] /\ op'[d][i] = op[d][i]
  BY StepKnown
<1>2. \A d \in Clients :
        /\ Writing(d, i)' = Writing(d, i) /\ Loading(d, i)' = Loading(d, i)
        /\ \A h \in Header : VersionIsAcceptable(mem'[d], i, h) = VersionIsAcceptable(mem[d], i, h)
        /\ BlockShouldExist(mem'[d], i) = BlockShouldExist(mem[d], i)
  BY <1>1, VersionsAreNumbers, Zenon DEF Writing, Loading, VersionIsAcceptable, BlockShouldExist, Known
<1>3. /\ base[i] # NoBlock => base[i].header \in Header
      /\ \A d \in Clients : Loading(d, i) /\ op[d][i].block # NoBlock => op[d][i].block.header \in Header
  BY VersionsAreNumbers DEF TypeOK, Operation, Loading
<1>4. ASSUME NEW d \in Clients, Writing(d, i) PROVE WriteIsNew(d, i)'
  <2>1. WriteIsNew(d, i)
    BY <1>4, Zenon DEF BlockIsClean
  <2> QED
    BY <1>1, <2>1, Zenon DEF WriteIsNew
<1>5. ASSUME NEW d \in Clients, Loading(d, i) PROVE LoadIsAccepted(d, i)'
  <2>1. LoadIsAccepted(d, i)
    BY <1>5, Zenon DEF BlockIsClean
  <2> QED
    BY <1>1, <1>2, <1>3, <1>5, <2>1, VersionsAreNumbers DEF LoadIsAccepted, Accepts
<1>6. BlockIsClean(i)'
  BY <1>1, <1>2, <1>3, <1>4, <1>5, Zenon DEF BlockIsClean, Accepts
<1>7. MissingIsDeleted(i)'
  BY <1>1, <1>2, Zenon DEF MissingIsDeleted
<1> QED
  BY <1>6, <1>7, Zenon

\* What holds of every block when a step begins.
LEMMA CleanView ==
    ASSUME TypeOK, FreshInvariant, faults = {}, NEW id \in BlockIds, BlockIsClean(id)
    PROVE  /\ base[id] # NoBlock => base[id].id = id /\ base[id] \in written /\ base[id].header \in Header
           /\ \A b \in written : b.id = id =>
                b.header \in Header /\ b.header.version <= Known(b.header.client, id, b.header.client)
           /\ \A c \in Clients : Loading(c, id) /\ op[c][id].block # NoBlock =>
                op[c][id].block.header \in Header
           /\ \A c \in Clients : Writing(c, id) => op[c][id].block \in Block
<1>1. base[id] # NoBlock => base[id].id = id /\ base[id] \in written
  BY Zenon DEF BlockIsClean
<1>2. \A b \in written : /\ b.header \in Header
                         /\ b.header.version <= Known(b.header.client, b.id, b.header.client)
  BY VersionsAreNumbers, Zenon DEF FreshInvariant, TypeOK
<1>3. \A c \in Clients : Loading(c, id) /\ op[c][id].block # NoBlock => op[c][id].block \in Block
  BY DEF TypeOK, Operation, Loading
<1>4. \A c \in Clients : Writing(c, id) => op[c][id].block \in Block
  BY DEF TypeOK, Operation, Writing
<1> QED
  BY <1>1, <1>2, <1>3, <1>4, VersionsAreNumbers, Zenon

\* A write takes a version that is newer than every other version of its client.
LEMMA WriteBegins ==
    ASSUME TypeOK, FreshInvariant, faults = {}, NEW c \in Clients, NEW id \in BlockIds, BlockIsClean(id),
           NEW kind \in {"store", "tryCreate"}, NEW h \in Header, NEW b \in Block, NEW s,
           BlockStep(c, id, [kind |-> kind, block |-> b], s), UNCHANGED <<base, written>>,
           b.id = id, b.header = h, h.client = c, h.version = s.known[id][c], Known(c, id, c) < h.version,
           \A d \in Clients \ {c} :
              /\ s.known[id][d] <= Known(d, id, d)
              /\ Writing(d, id) => s.known[id][d] < op[d][id].block.header.version,
           s.lastUpdate[id] = c
    PROVE  BlockIsClean(id)'
<1>1. /\ \A d, e \in Clients : /\ Known(d, id, e)' = IF d = c THEN s.known[id][e] ELSE Known(d, id, e)
                               /\ Known(d, id, e) \in Nat /\ Known(d, id, e)' \in Nat
      /\ mem'[c].lastUpdate[id] = c
      /\ \A d \in Clients \ {c} : mem'[d].lastUpdate[id] = mem[d].lastUpdate[id] /\ op'[d][id] = op[d][id]
      /\ op'[c][id] = [kind |-> kind, block |-> b]
  BY StepKnown
<1>2. op'[c][id] # Idle
  BY <1>1, ConstantsAssumption DEF Operation
<1>3. \A d, e \in Clients : Known(d, id, e) <= Known(e, id, e)
  BY Zenon DEF BlockIsClean
<1>4. \A d, e \in Clients : Known(d, id, e)' <= Known(e, id, e)'
  BY <1>1, <1>3
<1>5. WriteIsNew(c, id)'
  <2>1. \A a \in written : a.id = id => NewerThan(b, a)
    <3>1. ASSUME NEW a \in written, a.id = id PROVE NewerThan(b, a)
      <4>1. a.header \in Header /\ a.header.version <= Known(a.header.client, id, a.header.client)
        BY <3>1, CleanView, Zenon
      <4> QED
        BY <1>1, <4>1, VersionsAreNumbers DEF NewerThan
    <3> QED
      BY <3>1, Zenon
  <2>2. \A d \in Clients \ {c} : Known(d, id, c)' < h.version
    BY <1>1, <1>3, VersionsAreNumbers
  <2>3. h.version = Known(c, id, c)'
    BY <1>1, Zenon
  <2> QED
    BY <1>1, <2>1, <2>2, <2>3 DEF WriteIsNew
<1>6. ASSUME NEW d \in Clients \ {c}
      PROVE  /\ Writing(d, id)' => WriteIsNew(d, id)'
             /\ Loading(d, id)' => LoadIsAccepted(d, id)'
             /\ op'[d][id] = Idle /\ base[id] # NoBlock => Accepts(d, id, base[id])'
  <2>1. ASSUME Writing(d, id) PROVE WriteIsNew(d, id)'
    <3>1. WriteIsNew(d, id)
      BY <2>1, Zenon DEF BlockIsClean
    <3>2. \A e \in Clients \ {d} : Known(e, id, d)' < op[d][id].block.header.version
      BY <1>1, <2>1, <3>1, Zenon DEF WriteIsNew
    <3> QED
      BY <1>1, <3>1, <3>2, Zenon DEF WriteIsNew
  <2>2. mem'[d] = mem[d]
    BY BlockStepView, Zenon
  <2>3. ASSUME Loading(d, id) PROVE LoadIsAccepted(d, id)'
    <3>1. LoadIsAccepted(d, id)
      BY <2>3, Zenon DEF BlockIsClean
    <3> QED
      BY <1>1, <2>2, <3>1, Zenon DEF LoadIsAccepted, Accepts, Known
  <2>4. op[d][id] = Idle /\ base[id] # NoBlock => Accepts(d, id, base[id])'
    BY <2>2, Zenon DEF BlockIsClean, Accepts
  <2> QED
    BY <1>1, <2>1, <2>3, <2>4, Zenon DEF Writing, Loading
<1>7. ~Loading(c, id)'
  BY <1>1 DEF Loading
<1> QED
  BY <1>2, <1>4, <1>5, <1>6, <1>7, Zenon DEF BlockIsClean

\* A block that is written is newer than what any client knows or has fetched.
LEMMA WriteLands ==
    ASSUME TypeOK, FreshInvariant, faults = {}, NEW c \in Clients, NEW id \in BlockIds, BlockIsClean(id),
           BlockStep(c, id, Idle, mem[c]), Writing(c, id), NEW b, b = op[c][id].block,
           base'[id] = b, written' = written \cup {b}
    PROVE  BlockIsClean(id)'
<1>1. /\ \A d, e \in Clients : Known(d, id, e)' = Known(d, id, e) /\ Known(d, id, e) \in Nat
      /\ \A d \in Clients : mem'[d] = mem[d]
      /\ \A d \in Clients \ {c} : op'[d][id] = op[d][id]
      /\ op'[c][id] = Idle
  <2>1. /\ mem'[c] = mem[c] /\ \A d \in Clients \ {c} : mem'[d] = mem[d]
        /\ op'[c][id] = Idle
        /\ \A d \in Clients, i \in BlockIds : d # c \/ i # id => op'[d][i] = op[d][i]
    BY BlockStepView
  <2>2. \A d, e \in Clients : Known(d, id, e) \in Nat
    BY StepKnown, Zenon
  <2> QED
    BY <2>1, <2>2, Zenon DEF Known
<1>2. b \in Block /\ b # NoBlock /\ b.header \in Header /\ b.header.version \in Nat
  BY CleanView, VersionsAreNumbers, ConstantsAssumption
<1>3. /\ b.id = id /\ b.header.client = c
      /\ b.header.version = Known(c, id, c) /\ mem[c].lastUpdate[id] = c
      /\ \A a \in written : a.id = id => NewerThan(b, a)
      /\ \A d \in Clients \ {c} : Known(d, id, c) < b.header.version
  BY DEF BlockIsClean, WriteIsNew
<1>4. ASSUME NEW d \in Clients PROVE Accepts(d, id, b)'
  <2>1. CASE d = c
    BY <1>1, <1>2, <1>3, <2>1 DEF Accepts, VersionIsAcceptable, Known
  <2>2. CASE d # c
    BY <1>1, <1>2, <1>3, <2>2 DEF Accepts, VersionIsAcceptable, Known
  <2> QED
    BY <2>1, <2>2, Zenon
<1>5. ASSUME NEW d \in Clients \ {c}, Writing(d, id) PROVE WriteIsNew(d, id)'
  <2>1. WriteIsNew(d, id)
    BY <1>5, Zenon DEF BlockIsClean
  <2>2. NewerThan(op[d][id].block, b)
    BY <1>3, <2>1, Zenon DEF WriteIsNew, NewerThan
  <2> QED
    BY <1>1, <2>1, <2>2, Zenon DEF WriteIsNew
<1>6. ASSUME NEW d \in Clients \ {c}, Loading(d, id) PROVE LoadIsAccepted(d, id)'
  <2>1. LoadIsAccepted(d, id)
    BY <1>6, Zenon DEF BlockIsClean
  <2> QED
    BY <1>1, <1>3, <2>1 DEF LoadIsAccepted, Accepts
<1>7. \A d, e \in Clients : Known(d, id, e)' <= Known(e, id, e)'
  BY <1>1, Zenon DEF BlockIsClean
<1>8. ~Writing(c, id)' /\ ~Loading(c, id)'
  BY <1>1, Zenon DEF Writing, Loading
<1>9. \A d \in Clients \ {c} : Writing(d, id)' = Writing(d, id) /\ Loading(d, id)' = Loading(d, id)
  BY <1>1, Zenon DEF Writing, Loading
<1> QED
  BY <1>3, <1>4, <1>5, <1>6, <1>7, <1>8, <1>9, Zenon DEF BlockIsClean

\* A step that keeps known versions, after which c waits for nothing that others could disturb.
LEMMA RemoveSteps ==
    ASSUME TypeOK, NEW c \in Clients, NEW id \in BlockIds, BlockIsClean(id), NEW o, NEW s,
           BlockStep(c, id, o, s), \A e \in Clients : s.known[id][e] = Known(c, id, e),
           \/ o # Idle /\ o.kind = "remove" /\ base'[id] = base[id]
           \/ o = Idle /\ base'[id] = NoBlock,
           written' = written
    PROVE  BlockIsClean(id)'
<1>1. /\ \A d, e \in Clients : Known(d, id, e)' = Known(d, id, e)
      /\ \A d \in Clients \ {c} : mem'[d] = mem[d] /\ op'[d][id] = op[d][id]
      /\ op'[c][id] = o
  BY StepKnown, BlockStepView
<1>2. ~Writing(c, id)' /\ ~Loading(c, id)' /\ (op'[c][id] = Idle => base'[id] = NoBlock)
  BY <1>1, Zenon DEF Writing, Loading
<1>3. ASSUME NEW d \in Clients \ {c}
      PROVE  /\ Writing(d, id)' => WriteIsNew(d, id)'
             /\ Loading(d, id)' => LoadIsAccepted(d, id)'
             /\ op'[d][id] = Idle /\ base'[id] # NoBlock => Accepts(d, id, base[id])' /\ base'[id] = base[id]
  <2>1. ASSUME Writing(d, id) PROVE WriteIsNew(d, id)'
    <3>1. WriteIsNew(d, id)
      BY <2>1, Zenon DEF BlockIsClean
    <3> QED
      BY <1>1, <3>1, Zenon DEF WriteIsNew
  <2>2. ASSUME Loading(d, id) PROVE LoadIsAccepted(d, id)'
    <3>1. LoadIsAccepted(d, id)
      BY <2>2, Zenon DEF BlockIsClean
    <3> QED
      BY <1>1, <3>1, Zenon DEF LoadIsAccepted, Accepts, Known
  <2>3. op[d][id] = Idle /\ base'[id] # NoBlock => VersionIsAcceptable(mem[d], id, base'[id].header)
    BY Zenon DEF BlockIsClean, Accepts
  <2> QED
    BY <1>1, <2>1, <2>2, <2>3, Zenon DEF Writing, Loading, Accepts
<1>4. \A d, e \in Clients : Known(d, id, e)' <= Known(e, id, e)'
  BY <1>1, Zenon DEF BlockIsClean
<1>5. base'[id] # NoBlock => base'[id].id = id /\ base'[id] \in written'
  BY Zenon DEF BlockIsClean
<1> QED
  BY <1>2, <1>3, <1>4, <1>5, Zenon DEF BlockIsClean, Accepts

LEMMA LoadBegins ==
    ASSUME TypeOK, FreshInvariant, faults = {}, NEW c \in Clients, NEW id \in BlockIds, BlockIsClean(id),
           op[c][id] = Idle, NEW o, o = [kind |-> "load", block |-> base[id]],
           BlockStep(c, id, o, mem[c]), UNCHANGED <<base, written>>
    PROVE  BlockIsClean(id)'
<1>1. /\ \A d \in Clients : mem'[d] = mem[d]
      /\ \A d \in Clients \ {c} : op'[d][id] = op[d][id]
      /\ op'[c][id] = o
  BY BlockStepView
<1>2. o # Idle
  BY ConstantsAssumption DEF Operation, TypeOK
<1>3. LoadIsAccepted(c, id)'
  <2>1. base[id] # NoBlock => base[id].id = id /\ base[id] \in written /\ Accepts(c, id, base[id])
    BY Zenon DEF BlockIsClean
  <2> QED
    BY <1>1, <2>1 DEF LoadIsAccepted, Accepts
<1>4. ASSUME NEW d \in Clients \ {c}
      PROVE  /\ Writing(d, id)' => WriteIsNew(d, id)'
             /\ Loading(d, id)' => LoadIsAccepted(d, id)'
  <2>1. ASSUME Writing(d, id) PROVE WriteIsNew(d, id)'
    <3>1. WriteIsNew(d, id)
      BY <2>1, Zenon DEF BlockIsClean
    <3> QED
      BY <1>1, <3>1, Zenon DEF WriteIsNew, Known
  <2>2. ASSUME Loading(d, id) PROVE LoadIsAccepted(d, id)'
    <3>1. LoadIsAccepted(d, id)
      BY <2>2, Zenon DEF BlockIsClean
    <3> QED
      BY <1>1, <3>1, Zenon DEF LoadIsAccepted, Accepts, Known
  <2> QED
    BY <1>1, <2>1, <2>2, Zenon DEF Writing, Loading
<1>5. ~Writing(c, id)'
  BY <1>1 DEF Writing
<1>6. \A d, e \in Clients : Known(d, id, e)' <= Known(e, id, e)'
  BY <1>1, Zenon DEF BlockIsClean, Known
<1>7. \A d \in Clients : op'[d][id] = Idle /\ base[id] # NoBlock => Accepts(d, id, base[id])'
  BY <1>1, <1>2, Zenon DEF BlockIsClean, Accepts
<1>8. base[id] # NoBlock => base[id].id = id /\ base[id] \in written
  BY Zenon DEF BlockIsClean
<1> QED
  BY <1>3, <1>4, <1>5, <1>6, <1>7, <1>8, Zenon DEF BlockIsClean

\* A load ends: the fetched block, if there is one, becomes the last update its client knows of.
LoadEnds(c, id, s) ==
    LET b == op[c][id].block IN
    /\ Loading(c, id) /\ BlockStep(c, id, Idle, s) /\ UNCHANGED <<base, written>>
    /\ \A e \in Clients : s.known[id][e] = IF b # NoBlock /\ e = b.header.client THEN b.header.version
                                                                               ELSE Known(c, id, e)
    /\ b # NoBlock => s.lastUpdate[id] = b.header.client

LEMMA LoadedKnown ==
    ASSUME TypeOK, FreshInvariant, faults = {}, NEW c \in Clients, NEW id \in BlockIds, BlockIsClean(id),
           Loading(c, id), NEW b, b = op[c][id].block, b # NoBlock
    PROVE  /\ b.header \in Header /\ b.id = id
           /\ Known(c, id, b.header.client) <= b.header.version
           /\ b.header.version <= Known(b.header.client, id, b.header.client)
           /\ VersionIsAcceptable(mem[c], id, b.header)
           /\ \A d \in Clients : Writing(d, id) /\ b.header.client = d =>
                b.header.version < op[d][id].block.header.version
<1>1. b.id = id /\ b \in written /\ Accepts(c, id, b)
  BY Zenon DEF BlockIsClean, LoadIsAccepted
<1>2. b.header \in Header /\ b.header.version <= Known(b.header.client, id, b.header.client)
  BY <1>1, CleanView, Zenon
<1>3. ASSUME NEW d \in Clients, Writing(d, id), b.header.client = d
      PROVE  b.header.version < op[d][id].block.header.version
  <2>1. WriteIsNew(d, id)
    BY <1>3, Zenon DEF BlockIsClean
  <2> QED
    BY <1>1, <1>3, <2>1, Zenon DEF WriteIsNew, NewerThan
<1> QED
  BY <1>1, <1>2, <1>3, Zenon DEF Accepts, VersionIsAcceptable, Known

LEMMA LoadEndsClean ==
    ASSUME TypeOK, FreshInvariant, faults = {}, NEW c \in Clients, NEW id \in BlockIds, BlockIsClean(id),
           NEW s, LoadEnds(c, id, s)
    PROVE  BlockIsClean(id)'
<1>1. PICK b : b = op[c][id].block
  BY Zenon
<1>2. /\ Loading(c, id) /\ BlockStep(c, id, Idle, s) /\ base' = base /\ written' = written
      /\ \A e \in Clients : s.known[id][e] = IF b # NoBlock /\ e = b.header.client THEN b.header.version
                                                                                 ELSE Known(c, id, e)
      /\ b # NoBlock => s.lastUpdate[id] = b.header.client
  BY <1>1, Zenon DEF LoadEnds
<1>3. /\ \A d, e \in Clients :
           /\ Known(d, id, e)' = IF d = c THEN s.known[id][e] ELSE Known(d, id, e)
           /\ Known(d, id, e) \in Nat /\ Known(d, id, e)' \in Nat
      /\ mem'[c].lastUpdate[id] = s.lastUpdate[id]
      /\ \A d \in Clients \ {c} : mem'[d] = mem[d] /\ op'[d][id] = op[d][id]
      /\ op'[c][id] = Idle
  BY <1>2, StepKnown, BlockStepView
<1>4. b # NoBlock =>
        /\ b.header \in Header /\ b.header.client \in Clients /\ b.header.version \in Nat
        /\ Known(c, id, b.header.client) <= b.header.version
        /\ b.header.version <= Known(b.header.client, id, b.header.client)
        /\ \A d \in Clients : Writing(d, id) /\ b.header.client = d =>
             b.header.version < op[d][id].block.header.version
  BY <1>1, <1>2, LoadedKnown, VersionsAreNumbers, Zenon
<1>5. \A d, e \in Clients : Known(d, id, e) <= Known(e, id, e)
  BY Zenon DEF BlockIsClean
<1>6. \A d, e \in Clients : Known(d, id, e)' <= Known(e, id, e)'
  <2>1. \A e \in Clients : Known(c, id, e) <= Known(c, id, e)' /\ Known(c, id, e)' <= Known(e, id, e)
    BY <1>2, <1>3, <1>4, <1>5
  <2> QED
    BY <1>3, <1>5, <2>1
<1>7. ASSUME NEW d \in Clients \ {c}
      PROVE  /\ Writing(d, id)' => WriteIsNew(d, id)'
             /\ Loading(d, id)' => LoadIsAccepted(d, id)'
             /\ op'[d][id] = Idle /\ base[id] # NoBlock => Accepts(d, id, base[id])'
  <2>1. ASSUME Writing(d, id) PROVE WriteIsNew(d, id)'
    <3>1. WriteIsNew(d, id)
      BY <2>1, Zenon DEF BlockIsClean
    <3>2. \A e \in Clients \ {d} : Known(e, id, d)' < op[d][id].block.header.version
      BY <1>2, <1>3, <1>4, <2>1, <3>1 DEF WriteIsNew
    <3> QED
      BY <1>2, <1>3, <3>1, <3>2, Zenon DEF WriteIsNew
  <2>2. ASSUME Loading(d, id) PROVE LoadIsAccepted(d, id)'
    <3>1. LoadIsAccepted(d, id)
      BY <2>2, Zenon DEF BlockIsClean
    <3> QED
      BY <1>2, <1>3, <3>1, Zenon DEF LoadIsAccepted, Accepts, Known
  <2>3. op[d][id] = Idle /\ base[id] # NoBlock => Accepts(d, id, base[id])'
    BY <1>2, <1>3, Zenon DEF BlockIsClean, Accepts
  <2> QED
    BY <1>2, <1>3, <2>1, <2>2, <2>3, Zenon DEF Writing, Loading
<1>8. ASSUME base[id] # NoBlock PROVE Accepts(c, id, base[id])'
  <2>1. base[id].header \in Header /\ base[id].header.client \in Clients /\ base[id].header.version \in Nat
    BY <1>8, CleanView, VersionsAreNumbers, Zenon
  <2>2. CASE base[id] = b
    <3>1. Known(c, id, b.header.client)' = b.header.version
      BY <1>2, <1>3, <1>4, <1>8, <2>2, Zenon
    <3> QED
      BY <1>2, <1>3, <1>8, <2>1, <2>2, <3>1 DEF Accepts, VersionIsAcceptable, Known
  <2>3. CASE base[id] # b
    <3>1. /\ Known(c, id, base[id].header.client) < base[id].header.version
          /\ b # NoBlock => NewerThan(base[id], b)
      BY <1>1, <1>2, <1>8, <2>3, Zenon DEF BlockIsClean, LoadIsAccepted
    <3>2. Known(c, id, base[id].header.client)' < base[id].header.version
      BY <1>2, <1>3, <2>1, <3>1 DEF NewerThan
    <3> QED
      BY <1>2, <1>3, <2>1, <3>2 DEF Accepts, VersionIsAcceptable, Known
  <2> QED
    BY <2>2, <2>3, Zenon
<1>9. ~Writing(c, id)' /\ ~Loading(c, id)'
  BY <1>3, Zenon DEF Writing, Loading
<1>10. base'[id] # NoBlock => base'[id].id = id /\ base'[id] \in written'
  BY <1>2, Zenon DEF BlockIsClean
<1> QED
  BY <1>2, <1>6, <1>7, <1>8, <1>9, <1>10, Zenon DEF BlockIsClean, Accepts

\* A step on a block that touches nothing else.
TouchesOnly(c, id, s) ==
    /\ \A i \in BlockIds \ {id} :
         /\ s.lastUpdate[i] = mem[c].lastUpdate[i] /\ \A e \in Clients : s.known[i][e] = Known(c, i, e)
         /\ base'[i] = base[i]
    /\ written \subseteq written' /\ \A b \in written' : b.id # id => b \in written

LEMMA BlockStepClean ==
    ASSUME TypeOK, NoFaultInvariant, faults = {}, ~AllowIntegrityViolations,
           NEW c \in Clients, NEW id \in BlockIds, NEW o, NEW s, BlockStep(c, id, o, s),
           TouchesOnly(c, id, s), ~s.violation, BlockIsClean(id)', MissingIsDeleted(id)'
    PROVE  NoFaultInvariant'
<1>1. /\ \A d \in Clients : ~mem[d].violation /\ ~stateFile[d].violation
      /\ \A i \in BlockIds : BlockIsClean(i) /\ MissingIsDeleted(i)
  BY Zenon DEF NoFaultInvariant
<1>2. \A d \in Clients : ~mem'[d].violation /\ ~stateFile'[d].violation
  BY <1>1, BlockStepView
<1>3. ASSUME NEW i \in BlockIds \ {id} PROVE BlockIsClean(i)' /\ MissingIsDeleted(i)'
  BY <1>1, CleanElsewhere DEF TouchesOnly
<1> QED
  BY <1>2, <1>3, Zenon DEF NoFaultInvariant

LEMMA InitClean == Init => NoFaultInvariant
<1> SUFFICES ASSUME Init
             PROVE  /\ \A c \in Clients : ~mem[c].violation /\ ~stateFile[c].violation
                    /\ \A id \in BlockIds : BlockIsClean(id) /\ MissingIsDeleted(id)
  BY Zenon DEF NoFaultInvariant
<1>1. PICK author \in [BlockIds -> Clients \cup {DeletedBlock}] : InitFrom(author)
  BY Zenon DEF Init
<1>2. \A c \in Clients :
        /\ mem[c] = OldState(author, c) /\ stateFile[c] = OldState(author, c)
        /\ OldState(author, c).violation = FALSE
        /\ \A id \in BlockIds :
             /\ OldState(author, c).lastUpdate[id] = IF author[id] = c THEN c ELSE DeletedBlock
             /\ \A d \in Clients :
                  OldState(author, c).known[id][d] = IF d = c /\ author[id] = c THEN 1 ELSE 0
  <2>1. \A c \in Clients : mem[c] = OldState(author, c) /\ stateFile[c] = OldState(author, c)
    BY <1>1, Zenon DEF InitFrom
  <2>2. \A c \in Clients : OldState(author, c).violation = FALSE
    BY Zenon DEF OldState
  <2>3. \A c \in Clients, id \in BlockIds :
          /\ OldState(author, c).lastUpdate[id] = IF author[id] = c THEN c ELSE DeletedBlock
          /\ \A d \in Clients : OldState(author, c).known[id][d] = IF d = c /\ author[id] = c THEN 1 ELSE 0
    BY Zenon DEF OldState
  <2> QED
    BY <2>1, <2>2, <2>3, Zenon
<1>3. \A c \in Clients : ~mem[c].violation /\ ~stateFile[c].violation
  BY <1>2, ZenonT(30)
<1> SUFFICES ASSUME NEW id \in BlockIds PROVE BlockIsClean(id) /\ MissingIsDeleted(id)
  BY <1>3, Zenon
<1>4. /\ \A c \in Clients : op[c][id] = Idle
      /\ base[id] = IF author[id] = DeletedBlock THEN NoBlock ELSE OldBlock(author, id)
      /\ base[id] # NoBlock => base[id] \in written
  BY <1>1, Zenon DEF InitFrom
<1>5. \A c, d \in Clients : Known(c, id, d) = IF d = c /\ author[id] = c THEN 1 ELSE 0
  BY <1>2 DEF Known
<1>6. ASSUME NEW c \in Clients
      PROVE  mem[c].lastUpdate[id] = IF author[id] = c THEN c ELSE DeletedBlock
  <2>1. mem[c] = OldState(author, c)
    BY <1>2, Zenon
  <2>2. OldState(author, c).lastUpdate[id] = IF author[id] = c THEN c ELSE DeletedBlock
    BY <1>2, Zenon
  <2> QED
    BY <2>1, <2>2, Zenon
<1>7. BlockIsClean(id)
  <2>1. \A c, d \in Clients : Known(c, id, d) <= Known(d, id, d)
    BY <1>5
  <2>2. \A c \in Clients : ~Writing(c, id) /\ ~Loading(c, id)
    BY <1>4, Zenon DEF Writing, Loading
  <2>3. ASSUME NEW c \in Clients, base[id] # NoBlock PROVE Accepts(c, id, base[id]) /\ base[id].id = id
    <3>1. base[id] = OldBlock(author, id) /\ author[id] \in Clients
      BY <1>4, <2>3, Zenon
    <3>2. base[id].id = id /\ base[id].header.client = author[id] /\ base[id].header.version = 1
      BY <3>1 DEF OldBlock, OldHeader
    <3> QED
      BY <1>5, <1>6, <3>1, <3>2 DEF Accepts, VersionIsAcceptable, Known
  <2> QED
    BY <1>4, <2>1, <2>2, <2>3, Zenon DEF BlockIsClean
<1>8. MissingIsDeleted(id)
  <2>1. \A c \in Clients : ~Loading(c, id)
    BY <1>4, Zenon DEF Loading
  <2>2. ASSUME base[id] = NoBlock, NEW c \in Clients, MissingBlockIsIntegrityViolation
        PROVE  mem[c].lastUpdate[id] = DeletedBlock
    <3>1. author[id] = DeletedBlock
      <4>1. SUFFICES ASSUME author[id] # DeletedBlock PROVE FALSE
        BY Zenon
      <4>2. author[id] \in Clients /\ base[id] = OldBlock(author, id)
        BY <1>4, <4>1, Zenon
      <4>3. base[id] \in Block
        BY <4>2, ConstantsAssumption DEF OldBlock, OldHeader, Block, Header, Version
      <4> QED
        BY <2>2, <4>3, ConstantsAssumption, Zenon
    <3> QED
      BY <1>6, <3>1, Zenon
  <2> QED
    BY <1>4, <2>1, <2>2, Zenon DEF MissingIsDeleted, BlockShouldExist
<1> QED
  BY <1>7, <1>8, Zenon

LEMMA NextClean ==
    TypeOK /\ FreshInvariant /\ NoFaultInvariant /\ [Next]_vars => NoFaultInvariant'
<1> SUFFICES ASSUME TypeOK, FreshInvariant, NoFaultInvariant, [Next]_vars,
                    faults' = {}, ~AllowIntegrityViolations
             PROVE  NoFaultInvariant'
  BY Zenon DEF NoFaultInvariant
<1>1. faults = {}
  BY FaultsStay, Zenon
<1>2. /\ \A c \in Clients : ~mounted[c] => mem[c] = stateFile[c]
      /\ \A c \in Clients, id \in BlockIds : op[c][id] # Idle => mounted[c]
      /\ \A c \in Clients : mem[c] \in LocalState /\ ~mem[c].violation /\ ~stateFile[c].violation
      /\ \A id \in BlockIds : BlockIsClean(id) /\ MissingIsDeleted(id)
  BY <1>1 DEF FreshInvariant, NoFaultInvariant, TypeOK, Quiet
<1>3. ASSUME mem' = mem, op' = op, written' = written, base' = base,
             \A c \in Clients : ~stateFile'[c].violation
      PROVE  NoFaultInvariant'
  <2>1. \A id \in BlockIds : BlockIsClean(id)'
    BY <1>2, <1>3 DEF BlockIsClean, Known, Writing, Loading, WriteIsNew, LoadIsAccepted, Accepts
  <2>2. \A id \in BlockIds : MissingIsDeleted(id)'
    BY <1>2, <1>3, Zenon DEF MissingIsDeleted, Loading
  <2> QED
    BY <1>2, <1>3, <2>1, <2>2, ZenonT(30) DEF NoFaultInvariant
<1>4. ASSUME NEW c \in Clients, Mount(c) \/ Unmount(c) PROVE NoFaultInvariant'
  <2>1. mem' = mem /\ \A d \in Clients : ~stateFile'[d].violation
    BY <1>2, <1>4 DEF Mount, Unmount, TypeOK
  <2>2. op' = op /\ written' = written /\ base' = base
    BY <1>4, Zenon DEF Mount, Unmount
  <2> QED
    BY <1>3, <2>1, <2>2, Zenon
<1>5. ASSUME NEW c \in Clients, Crash(c) PROVE FALSE
  BY <1>5, Zenon DEF Crash
<1>6. ASSUME NEW c \in Clients, ForEachBlock(c) PROVE FALSE
  <2>1. PICK id \in BlockIds : BlockShouldExist(mem[c], id) /\ base[id] = NoBlock
    BY <1>6, Zenon DEF ForEachBlock
  <2>2. op[c][id] = Idle /\ MissingBlockIsIntegrityViolation
    BY <1>6, Zenon DEF ForEachBlock, Quiet
  <2> QED
    BY <1>2, <2>1, <2>2, Zenon DEF MissingIsDeleted
<1>7. ASSUME NEW c \in Clients, NEW id \in BlockIds, NEW s \in LocalState, NEW h \in Header,
             h.version = s.known[id][h.client] + 1, ~s.violation, NEW t,
             t = IncrementVersion(s, id, h)
      PROVE  /\ \A i \in BlockIds, d \in Clients :
                  t.known[i][d] = IF i = id /\ d = h.client THEN h.version ELSE s.known[i][d]
             /\ \A i \in BlockIds : t.lastUpdate[i] = IF i = id THEN h.client ELSE s.lastUpdate[i]
             /\ ~t.violation
  BY <1>7, AcceptView DEF IncrementVersion
<1>8. ASSUME NEW c \in Clients, NEW id \in BlockIds,
             NEW kind \in {"store", "tryCreate"}, BeginWrite(c, id, kind)
      PROVE  NoFaultInvariant'
  <2>1. PICK h \in Header, s \in LocalState :
             /\ h.client = c /\ h.version = Known(c, id, c) + 1
             /\ s = IncrementVersion(mem[c], id, h)
             /\ BlockStep(c, id, [kind |-> kind, block |->
                           [format |-> "current", id |-> id, header |-> h]], s)
             /\ UNCHANGED <<base, written>>
    BY <1>8, BeginWriteView, ZenonT(30)
  <2>2. /\ \A i \in BlockIds, d \in Clients :
             s.known[i][d] = IF i = id /\ d = c THEN h.version ELSE mem[c].known[i][d]
        /\ \A i \in BlockIds : s.lastUpdate[i] = IF i = id THEN c ELSE mem[c].lastUpdate[i]
        /\ ~s.violation
    BY <1>2, <1>7, <2>1 DEF Known
  <2>3. PICK b : b = [format |-> "current", id |-> id, header |-> h]
    BY Zenon
  <2>4. b \in Block /\ b.id = id /\ b.header = h /\ BlockStep(c, id, [kind |-> kind, block |-> b], s)
    BY <2>1, <2>3, Zenon DEF Block
  <2>5. \A d, e \in Clients, i \in BlockIds : Known(d, i, e) \in Nat
    BY <2>4, StepKnown, Zenon
  <2>6. ASSUME NEW d \in Clients \ {c}
        PROVE  /\ s.known[id][d] <= Known(d, id, d)
               /\ Writing(d, id) => s.known[id][d] < op[d][id].block.header.version
    <3>1. s.known[id][d] = Known(c, id, d)
      BY <2>2, Zenon DEF Known
    <3> QED
      BY <1>2, <3>1 DEF BlockIsClean, WriteIsNew
  <2>7. BlockIsClean(id)'
    <3>1. h.version = s.known[id][c] /\ s.lastUpdate[id] = c
      BY <2>2, Zenon
    <3>2. Known(c, id, c) < h.version
      BY <2>1, <2>5
    <3> QED
      BY <1>1, <1>2, <2>1, <2>4, <2>6, <3>1, <3>2, WriteBegins, ZenonT(30)
  <2>8. TouchesOnly(c, id, s)
    BY <2>1, <2>2, Zenon DEF TouchesOnly, Known
  <2>9. MissingIsDeleted(id)'
    <3>1. op'[c][id] = [kind |-> kind, block |-> b]
      BY <2>4, StepKnown
    <3>2. op'[c][id] # Idle /\ op'[c][id].kind \in {"store", "tryCreate"}
      BY <2>4, <3>1, ConstantsAssumption DEF Operation
    <3> QED
      BY <3>2, ExclusiveClientAssumption, Zenon DEF MissingIsDeleted, Loading
  <2> QED
    BY <1>1, <2>2, <2>4, <2>7, <2>8, <2>9, BlockStepClean, Zenon
<1>9. ASSUME NEW c \in Clients, NEW id \in BlockIds,
             \/ EndStore(c, id) \/ EndTryCreate(c, id) \/ WriteFails(c, id) \/ EndRemove(c, id)
      PROVE  NoFaultInvariant'
  <2>1. mounted[c]
    BY <1>2, <1>9, Zenon DEF EndStore, EndTryCreate, WriteFails, EndRemove, Running
  <2>2. BlockStep(c, id, Idle, mem[c])
    BY <1>9, <2>1, EndWriteView, Zenon
  <2>3. op'[c][id] = Idle /\ mem'[c] = mem[c]
    BY <2>2, BlockStepView
  <2>4. CASE EndStore(c, id) \/ EndTryCreate(c, id)
    <3>1. PICK b : b = op[c][id].block
      BY Zenon
    <3>2. Writing(c, id) /\ base' = [base EXCEPT ![id] = b] /\ written' = written \cup {b}
      <4>1. ~(faults' = faults \cup {"collision"})
        BY <1>1, Zenon
      <4> QED
        BY <2>4, <3>1, <4>1, Zenon DEF EndStore, EndTryCreate, Running, PutBlock, Writing
    <3>3. base'[id] = b /\ \A i \in BlockIds \ {id} : base'[i] = base[i]
      BY <3>2, Zenon DEF TypeOK
    <3>4. b \in Block /\ b.id = id
      BY <1>1, <1>2, <3>1, <3>2, CleanView, Zenon DEF BlockIsClean, WriteIsNew
    <3>5. BlockIsClean(id)'
      BY <1>1, <1>2, <2>2, <3>1, <3>2, <3>3, WriteLands, Zenon
    <3>6. TouchesOnly(c, id, mem[c])
      BY <3>2, <3>3, <3>4, Zenon DEF TouchesOnly, Known
    <3>7. MissingIsDeleted(id)'
      BY <2>3, <3>3, <3>4, ConstantsAssumption, ExclusiveClientAssumption, Zenon DEF MissingIsDeleted, Loading
    <3> QED
      BY <1>1, <1>2, <2>2, <3>5, <3>6, <3>7, BlockStepClean, Zenon
  <2>5. CASE WriteFails(c, id)
    BY <2>5, Zenon DEF WriteFails
  <2>6. CASE EndRemove(c, id)
    <3>1. /\ base' = [base EXCEPT ![id] = NoBlock] /\ written' = written
          /\ op[c][id] # Idle /\ op[c][id].kind = "remove"
      BY <2>6, Zenon DEF EndRemove, Running
    <3>2. base'[id] = NoBlock /\ \A i \in BlockIds \ {id} : base'[i] = base[i]
      BY <3>1, Zenon DEF TypeOK
    <3>3. BlockIsClean(id)'
      BY <1>2, <2>2, <3>1, <3>2, RemoveSteps, Zenon DEF Known
    <3>4. TouchesOnly(c, id, mem[c])
      BY <3>1, <3>2, Zenon DEF TouchesOnly, Known
    <3>5. MissingIsDeleted(id)'
      BY <1>2, <2>3, <3>1, ExclusiveClientAssumption, Zenon DEF MissingIsDeleted, Loading
    <3> QED
      BY <1>1, <1>2, <2>2, <3>3, <3>4, <3>5, BlockStepClean, Zenon
  <2> QED
    BY <1>9, <2>4, <2>5, <2>6, Zenon
<1>10. ASSUME NEW c \in Clients, NEW id \in BlockIds, BeginRemove(c, id)
       PROVE  NoFaultInvariant'
  <2>1. PICK s, o : s = MarkBlockAsDeleted(mem[c], id) /\ o = [kind |-> "remove", block |-> NoBlock]
    BY Zenon
  <2>2. BlockStep(c, id, o, s) /\ base' = base /\ written' = written
    BY <1>10, <2>1, BeginRemoveView, Zenon DEF BeginRemove
  <2>3. /\ s.known = mem[c].known
        /\ \A i \in BlockIds : s.lastUpdate[i] = IF i = id THEN DeletedBlock ELSE mem[c].lastUpdate[i]
        /\ ~s.violation
    BY <1>2, <2>1, DeleteView
  <2>4. o # Idle /\ o.kind = "remove"
    BY <2>1, ConstantsAssumption DEF Operation
  <2>5. BlockIsClean(id)'
    BY <1>2, <2>2, <2>3, <2>4, RemoveSteps, Zenon DEF Known
  <2>6. TouchesOnly(c, id, s)
    BY <2>2, <2>3, Zenon DEF TouchesOnly, Known
  <2>7. MissingIsDeleted(id)'
    <3>1. op'[c][id] = o /\ mem'[c] = s
      BY <2>2, BlockStepView
    <3> QED
      BY <2>3, <2>4, <3>1, ExclusiveClientAssumption, Zenon DEF MissingIsDeleted, Loading, BlockShouldExist
  <2> QED
    BY <1>1, <2>2, <2>3, <2>5, <2>6, <2>7, BlockStepClean, Zenon
<1>11. ASSUME NEW c \in Clients, NEW id \in BlockIds, BeginLoad(c, id)
       PROVE  NoFaultInvariant'
  <2>1. PICK o : o = [kind |-> "load", block |-> base[id]]
    BY Zenon
  <2>2. BlockStep(c, id, o, mem[c]) /\ op[c][id] = Idle /\ base' = base /\ written' = written
    BY <1>11, <2>1, BeginLoadView, Zenon DEF BeginLoad, Begin
  <2>3. BlockIsClean(id)'
    BY <1>1, <1>2, <2>1, <2>2, LoadBegins, Zenon
  <2>4. TouchesOnly(c, id, mem[c])
    BY <2>2, Zenon DEF TouchesOnly, Known
  <2>5. MissingIsDeleted(id)'
    <3>1. op'[c][id] = o /\ mem'[c] = mem[c]
      BY <2>2, BlockStepView
    <3> QED
      BY <1>2, <2>1, <2>2, <3>1, ExclusiveClientAssumption DEF MissingIsDeleted, Loading
  <2> QED
    BY <1>1, <1>2, <2>2, <2>3, <2>4, <2>5, BlockStepClean, Zenon
<1>12. ASSUME NEW c \in Clients, NEW id \in BlockIds, EndLoadMissing(c, id)
       PROVE  NoFaultInvariant'
  <2>1. /\ Loading(c, id) /\ op[c][id].block = NoBlock /\ base' = base /\ written' = written
        /\ mounted[c]
    BY <1>2, <1>12, Zenon DEF EndLoadMissing, Running, Loading
  <2>2. MissingBlockIsIntegrityViolation => ~BlockShouldExist(mem[c], id)
    BY <1>2, <2>1, Zenon DEF MissingIsDeleted
  <2>3. BlockStep(c, id, Idle, mem[c])
    BY <1>12, <2>1, <2>2, EndLoadMissingView, Zenon
  <2>4. LoadEnds(c, id, mem[c])
    BY <2>1, <2>3, Zenon DEF LoadEnds, Known
  <2>5. BlockIsClean(id)'
    BY <1>1, <1>2, <2>4, LoadEndsClean, Zenon
  <2>6. TouchesOnly(c, id, mem[c])
    BY <2>1, Zenon DEF TouchesOnly, Known
  <2>7. MissingIsDeleted(id)'
    <3>1. op'[c][id] = Idle /\ mem'[c] = mem[c]
      BY <2>3, BlockStepView
    <3> QED
      BY <2>2, <3>1, ExclusiveClientAssumption, Zenon DEF MissingIsDeleted, Loading
  <2> QED
    BY <1>1, <1>2, <2>3, <2>5, <2>6, <2>7, BlockStepClean, Zenon
<1>13. ASSUME NEW c \in Clients, NEW id \in BlockIds, EndLoad(c, id) \/ EndLoadMigrating(c, id)
       PROVE  NoFaultInvariant'
  <2>1. mounted[c]
    BY <1>2, <1>13, Zenon DEF EndLoad, EndLoadMigrating, Running
  <2>2. PICK b \in Block, s \in LocalState :
             /\ Loading(c, id) /\ b = op[c][id].block /\ s = Checked(mem[c], id, b)
             /\ \/ BlockStep(c, id, Idle, s)
                \/ \E h \in Header, t \in LocalState :
                     /\ h.client = c /\ h.version = s.known[id][c] + 1
                     /\ t = IncrementVersion(s, id, h) /\ IsReturned(mem[c], id, b)
                     /\ BlockStep(c, id, [kind |-> "store", block |->
                                   [format |-> "current", id |-> id, header |-> h]], t)
             /\ UNCHANGED <<base, written, faults>>
    BY <1>13, <2>1, EndLoadView, ZenonT(30)
  <2>3. /\ b.header \in Header /\ b.id = id /\ b # NoBlock /\ b.header.client \in Clients
        /\ Known(c, id, b.header.client) <= b.header.version
        /\ b.header.version <= Known(b.header.client, id, b.header.client)
        /\ VersionIsAcceptable(mem[c], id, b.header)
        /\ \A d \in Clients : Writing(d, id) /\ b.header.client = d =>
             b.header.version < op[d][id].block.header.version
    <3>1. b # NoBlock /\ b.header.client \in Clients
      BY VersionsAreNumbers, ConstantsAssumption, Zenon
    <3>2. Loading(c, id) /\ b = op[c][id].block /\ BlockIsClean(id)
      BY <1>2, <2>2, Zenon
    <3> QED
      BY <1>1, <3>1, <3>2, LoadedKnown
  <2>4. /\ \A i \in BlockIds, d \in Clients :
             s.known[i][d] = IF i = id /\ d = b.header.client THEN b.header.version ELSE Known(c, i, d)
        /\ \A i \in BlockIds : s.lastUpdate[i] = IF i = id THEN b.header.client ELSE mem[c].lastUpdate[i]
        /\ ~s.violation
    <3>1. s = Supersede(UpdateVersion(mem[c], id, b.header), id, b.header)
      BY <2>2, <2>3, Zenon DEF Checked, CheckHeader
    <3>2. mem[c] \in LocalState /\ ~mem[c].violation
      BY <1>1, <1>2, Zenon DEF TypeOK
    <3>3. /\ \A i \in BlockIds, d \in Clients :
               s.known[i][d] = IF i = id /\ d = b.header.client THEN b.header.version
                               ELSE mem[c].known[i][d]
          /\ \A i \in BlockIds : s.lastUpdate[i] = IF i = id THEN b.header.client
                                                    ELSE mem[c].lastUpdate[i]
          /\ s.violation = mem[c].violation
      <4>1. b.header \in Header
        BY <2>3, Zenon
      <4> QED
        BY <3>1, <3>2, <4>1, AcceptView
    <3> QED
      BY <3>2, <3>3, Zenon DEF Known
  <2>5. CASE BlockStep(c, id, Idle, s)
    <3>1. LoadEnds(c, id, s)
      BY <2>2, <2>3, <2>4, <2>5, Zenon DEF LoadEnds
    <3>2. BlockIsClean(id)'
      BY <1>1, <1>2, <3>1, LoadEndsClean, Zenon
    <3>3. TouchesOnly(c, id, s)
      BY <2>2, <2>4, Zenon DEF TouchesOnly
    <3>4. MissingIsDeleted(id)'
      <4>1. op'[c][id] = Idle
        BY <2>5, BlockStepView
      <4>2. MissingBlockIsIntegrityViolation => base[id] = b
        BY <1>2, <2>2, Zenon DEF MissingIsDeleted
      <4> QED
        BY <2>2, <2>3, <4>1, <4>2, ExclusiveClientAssumption, Zenon DEF MissingIsDeleted, Loading
    <3> QED
      BY <1>1, <2>4, <2>5, <3>2, <3>3, <3>4, BlockStepClean, Zenon
  <2>6. CASE ~BlockStep(c, id, Idle, s)
    <3>1. PICK h \in Header, t \in LocalState :
                     /\ h.client = c /\ h.version = s.known[id][c] + 1
                     /\ t = IncrementVersion(s, id, h)
                     /\ BlockStep(c, id, [kind |-> "store", block |->
                                   [format |-> "current", id |-> id, header |-> h]], t)
      BY <2>2, <2>6, Zenon
    <3>2. /\ \A i \in BlockIds, d \in Clients :
               t.known[i][d] = IF i = id /\ d = c THEN h.version ELSE s.known[i][d]
          /\ \A i \in BlockIds : t.lastUpdate[i] = IF i = id THEN c ELSE s.lastUpdate[i]
          /\ ~t.violation
      BY <1>7, <2>4, <3>1
    <3>3. PICK new : new = [format |-> "current", id |-> id, header |-> h]
      BY Zenon
    <3>4. /\ new \in Block /\ new.id = id /\ new.header = h
          /\ BlockStep(c, id, [kind |-> "store", block |-> new], t)
      BY <3>1, <3>3, Zenon DEF Block
    <3>5. \A d, e \in Clients, i \in BlockIds : Known(d, i, e) \in Nat
      BY <3>4, StepKnown, Zenon
    <3>6. ASSUME NEW d \in Clients \ {c}
          PROVE  /\ t.known[id][d] <= Known(d, id, d)
                 /\ Writing(d, id) => t.known[id][d] < op[d][id].block.header.version
      <4>1. t.known[id][d] = IF d = b.header.client THEN b.header.version ELSE Known(c, id, d)
        BY <2>4, <3>2
      <4>2. Known(c, id, d) <= Known(d, id, d)
            /\ (Writing(d, id) => Known(c, id, d) < op[d][id].block.header.version)
        BY <1>2, Zenon DEF BlockIsClean, WriteIsNew
      <4> QED
        BY <2>3, <4>1, <4>2, Zenon
    <3>7. h.version = t.known[id][c] /\ t.lastUpdate[id] = c /\ Known(c, id, c) < h.version
      <4>1. h.version = t.known[id][c] /\ t.lastUpdate[id] = c
        BY <3>2, Zenon
      <4>2. s.known[id][c] = IF c = b.header.client THEN b.header.version ELSE Known(c, id, c)
        BY <2>4, Zenon
      <4>3. b.header.version \in Nat
        BY <2>3, VersionsAreNumbers
      <4> QED
        BY <2>3, <3>1, <3>5, <4>1, <4>2, <4>3
    <3>8. BlockIsClean(id)'
      BY <1>1, <1>2, <2>2, <3>1, <3>4, <3>6, <3>7, WriteBegins, Zenon
    <3>9. TouchesOnly(c, id, t)
      <4>1. \A i \in BlockIds \ {id} : t.lastUpdate[i] = mem[c].lastUpdate[i]
        BY <2>4, <3>2, Zenon
      <4>2. \A i \in BlockIds \ {id} : \A e \in Clients : t.known[i][e] = Known(c, i, e)
        BY <2>4, <3>2
      <4> QED
        BY <2>2, <4>1, <4>2, Zenon DEF TouchesOnly
    <3>10. MissingIsDeleted(id)'
      <4>1. op'[c][id] = [kind |-> "store", block |-> new]
        BY <3>4, StepKnown
      <4>2. op'[c][id] # Idle /\ op'[c][id].kind = "store"
        BY <3>4, <4>1, ConstantsAssumption DEF Operation
      <4> QED
        BY <4>2, ExclusiveClientAssumption, Zenon DEF MissingIsDeleted, Loading
    <3> QED
      BY <1>1, <3>2, <3>4, <3>8, <3>9, <3>10, BlockStepClean, Zenon
  <2> QED
    BY <2>5, <2>6, Zenon
<1>14. ASSUME NEW id \in BlockIds, Rollback(id) PROVE FALSE
  BY <1>14, Zenon DEF Rollback
<1>15. CASE UNCHANGED vars
  BY <1>2, <1>3, <1>15, Zenon DEF vars
<1> QED
  BY <1>4, <1>5, <1>6, <1>8, <1>9, <1>10, <1>11, <1>12, <1>13, <1>14, <1>15, Zenon DEF Next, ClientStep

\* With allowIntegrityViolations no violation is ever recorded.
LEMMA NextAllowed ==
    TypeOK /\ NoViolationWhenAllowed /\ [Next]_vars => NoViolationWhenAllowed'
<1> SUFFICES ASSUME TypeOK, [Next]_vars, AllowIntegrityViolations,
                    \A c \in Clients : ~mem[c].violation /\ ~stateFile[c].violation
             PROVE  \A c \in Clients : ~mem'[c].violation /\ ~stateFile'[c].violation
  BY Zenon DEF NoViolationWhenAllowed
<1>1. \A c \in Clients : mem[c] \in LocalState
  BY Zenon DEF TypeOK
<1>2. ASSUME NEW c \in Clients, NEW s, ~s.violation, mem' = [mem EXCEPT ![c] = s],
             UNCHANGED stateFile
      PROVE  \A d \in Clients : ~mem'[d].violation /\ ~stateFile'[d].violation
  BY <1>2, Zenon DEF TypeOK
<1>3. ASSUME NEW c \in Clients, NEW id \in BlockIds, NEW b \in Block, NEW s, s = Checked(mem[c], id, b)
      PROVE  s \in LocalState /\ ~s.violation
  <2>1. b.header \in Header /\ s \in LocalState
    BY <1>1, <1>3, VersionsAreNumbers, CheckedType, Zenon
  <2> QED
    BY <1>1, <1>3, <2>1, AcceptView, SupersedeView DEF Checked
<1>4. ASSUME NEW c \in Clients, NEW id \in BlockIds, NEW s \in LocalState, NEW h \in Header, ~s.violation
      PROVE  ~IncrementVersion(s, id, h).violation
  BY <1>4, AcceptView DEF IncrementVersion
<1>5. ASSUME NEW c \in Clients, Mount(c) \/ Unmount(c) \/ Crash(c)
      PROVE  \A d \in Clients : ~mem'[d].violation /\ ~stateFile'[d].violation
  BY <1>5, Zenon DEF Mount, Unmount, Crash, TypeOK
<1>6. ASSUME NEW c \in Clients, ForEachBlock(c)
      PROVE  \A d \in Clients : ~mem'[d].violation /\ ~stateFile'[d].violation
  BY <1>1, <1>2, <1>6, ViolationView DEF ForEachBlock
<1>7. ASSUME NEW c \in Clients, NEW id \in BlockIds,
             NEW kind \in {"store", "tryCreate"}, BeginWrite(c, id, kind)
      PROVE  \A d \in Clients : ~mem'[d].violation /\ ~stateFile'[d].violation
  <2>1. NextHeader(c, id) \in Header
    BY <1>1, <1>7, NextVersionType, Zenon DEF BeginWrite, CanIncrementVersion, NextHeader
  <2>2. ~IncrementVersion(mem[c], id, NextHeader(c, id)).violation
    BY <1>1, <1>4, <2>1, Zenon
  <2> QED
    BY <1>2, <1>7, <2>2, Zenon DEF BeginWrite
<1>8. ASSUME NEW c \in Clients, NEW id \in BlockIds, BeginRemove(c, id)
      PROVE  \A d \in Clients : ~mem'[d].violation /\ ~stateFile'[d].violation
  BY <1>1, <1>2, <1>8, DeleteView DEF BeginRemove
<1>9. ASSUME NEW c \in Clients, NEW id \in BlockIds, EndLoadMissing(c, id)
      PROVE  \A d \in Clients : ~mem'[d].violation /\ ~stateFile'[d].violation
  BY <1>1, <1>2, <1>9, ViolationView DEF EndLoadMissing
<1>10. ASSUME NEW c \in Clients, NEW id \in BlockIds, EndLoad(c, id)
       PROVE  \A d \in Clients : ~mem'[d].violation /\ ~stateFile'[d].violation
  <2>1. op[c][id].block \in Block
    BY <1>10 DEF EndLoad, Running, Operation, TypeOK
  <2> QED
    BY <1>2, <1>3, <1>10, <2>1, Zenon DEF EndLoad
<1>11. ASSUME NEW c \in Clients, NEW id \in BlockIds, EndLoadMigrating(c, id)
       PROVE  \A d \in Clients : ~mem'[d].violation /\ ~stateFile'[d].violation
  <2>1. PICK b : b = op[c][id].block
    BY ZenonT(30)
  <2>2. b \in Block
    BY <1>11, <2>1 DEF EndLoadMigrating, Operation, TypeOK
  <2>3. PICK s : s = Checked(mem[c], id, b)
    BY Zenon
  <2>4. s \in LocalState /\ ~s.violation
    BY <1>3, <2>2, <2>3, Zenon
  <2>5. PICK h : h = [client |-> c, version |-> s.known[id][c] + 1]
    BY Zenon
  <2>6. UNCHANGED stateFile
    BY <1>11, Zenon DEF EndLoadMigrating
  <2>7. CASE h.version = VersionMax
    <3>1. mem' = [mem EXCEPT ![c] = s]
      BY <1>11, <2>1, <2>3, <2>5, <2>7, Zenon DEF EndLoadMigrating
    <3> QED
      BY <1>2, <2>4, <2>6, <3>1, Zenon
  <2>8. CASE h.version # VersionMax
    <3>1. mem' = [mem EXCEPT ![c] = IncrementVersion(s, id, h)]
      BY <1>11, <2>1, <2>3, <2>5, <2>8, Zenon DEF EndLoadMigrating
    <3>2. h \in Header
      BY <2>4, <2>5, <2>8, NextVersionType, Zenon
    <3> QED
      BY <1>2, <1>4, <2>4, <2>6, <3>1, <3>2, Zenon
  <2> QED
    BY <2>7, <2>8, Zenon
<1>12. ASSUME NEW c \in Clients, NEW id \in BlockIds,
              \/ EndStore(c, id) \/ EndTryCreate(c, id) \/ WriteFails(c, id)
              \/ EndRemove(c, id) \/ BeginLoad(c, id)
       PROVE  UNCHANGED <<mem, stateFile>>
  BY <1>12, Zenon DEF EndStore, EndTryCreate, WriteFails, EndRemove, BeginLoad
<1>13. ASSUME NEW id \in BlockIds, Rollback(id)
       PROVE  UNCHANGED <<mem, stateFile>>
  BY <1>13, Zenon DEF Rollback
<1>14. CASE UNCHANGED vars
  BY <1>14, Zenon DEF vars
<1> QED
  BY <1>5, <1>6, <1>7, <1>8, <1>9, <1>10, <1>11, <1>12, <1>13, <1>14, Zenon DEF Next, ClientStep

(***************************************************************************)
(* A client reports a violation, and locks itself out of the file system,  *)
(* only after a rollback, a crash, an I/O error or a collision of random   *)
(* ids: for any number of clients and blocks, however their loads, stores  *)
(* and removals interleave between the update of KnownBlockVersions and    *)
(* the access to the base store.                                           *)
(***************************************************************************)
THEOREM NoFalseAlarm == Spec => []ViolationMeansFault
<1>1. Init => NoViolationWhenAllowed
  <2> SUFFICES ASSUME Init, NEW c \in Clients PROVE ~mem[c].violation /\ ~stateFile[c].violation
    BY Zenon DEF NoViolationWhenAllowed
  <2>1. PICK author \in [BlockIds -> Clients \cup {DeletedBlock}] : InitFrom(author)
    BY Zenon DEF Init
  <2>2. OldState(author, c).violation = FALSE
    BY Zenon DEF OldState
  <2> QED
    BY <2>1, <2>2, Zenon DEF InitFrom
<1>2. NoFaultInvariant /\ NoViolationWhenAllowed => ViolationMeansFault
  BY ConstantsAssumption, Zenon DEF NoFaultInvariant, NoViolationWhenAllowed, ViolationMeansFault
<1> QED
  BY <1>1, <1>2, InitFresh, NextFresh, InitClean, NextClean, NextAllowed, TypeCorrect, PTL DEF Spec

=============================================================================
