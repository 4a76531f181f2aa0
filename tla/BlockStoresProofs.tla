------------------------- MODULE BlockStoresProofs -------------------------
(***************************************************************************)
(* Proofs about BlockStores, for any number of threads, blocks, prefix     *)
(* directories and crashes: load() returns the data of the last store, and *)
(* threads that meet in one prefix directory lose no block.                *)
(***************************************************************************)
EXTENDS BlockStores, TLAPS

BlockOps == {"store", "tryCreate", "remove", "load"}

FileType == [part : Parts \cup {"no file"}, val : Contents \cup {None},
             format : {"none", "FORMAT_VERSION_HEADER", "FORMAT_VERSION_HEADER_OLD"}]

CallType ==
    [op : BlockOps \cup {"idle", "forEachBlock"}, block : Blocks \cup {None}, val : Contents \cup {None},
     pc : {"idle", "begin", "create directory", "open", "write", "is empty", "remove directory", "iterate", "returned"},
     todo : SUBSET (Prefixes \cup {"cryfs.config"}), visited : SUBSET Blocks,
     out : Contents \cup {None, "none", "true", "false", "throws", "a part of the data", "error writing", "is_empty throws",
                        "remove throws", "could not open file", "directory_iterator throws"}]

TypeOK ==
    /\ cipher \in {"AEAD_Cipher", "CFB_Cipher"}
    /\ dirs \subseteq Prefixes
    /\ files \in [Blocks -> FileType]
    /\ call \in [Threads -> CallType]
    /\ kept \in [Blocks -> Contents \cup {None, "cut"}]
    /\ present \in [Threads -> SUBSET Blocks]

\* Calls for one block are kept apart.
OneCallPerBlock ==
    \A t, u \in Threads : call[t].block \in Blocks /\ call[t].block = call[u].block => t = u

\* The file of a block is what its last write left; it lies in a directory that exists.
BlockFacts(b) ==
    /\ kept[b] = None <=> files[b] = NoFile
    /\ kept[b] \in Contents => files[b].part = "all" /\ files[b].val = kept[b]
    /\ kept[b] = "cut" => files[b].part \in Parts \ {"all"} /\ ~InMemory
    /\ Exists(b) /\ ~InMemory => PrefixOf[b] \in dirs

\* What load() may have returned.
LoadedLast(t) ==
    IF kept[call[t].block] \in Contents THEN call[t].out = kept[call[t].block]
    ELSE \/ call[t].out = "none"
         \/ kept[call[t].block] = "cut" /\ call[t].out = "throws"
         \/ kept[call[t].block] = "cut" /\ cipher = "CFB_Cipher" /\ call[t].out = "a part of the data"

\* What a call on a block relies on from step to step.
CallFacts(t) ==
    /\ call[t].op \in BlockOps <=> call[t].block \in Blocks
    /\ call[t].op \in {"store", "tryCreate"} => call[t].val \in Contents
    /\ call[t].pc \in {"open", "write"} => call[t].op \in {"store", "tryCreate"} /\ ~InMemory
    /\ call[t].pc = "write" => kept[call[t].block] = "cut"
    /\ call[t].pc \in {"is empty", "remove directory"} => call[t].op = "remove" /\ ~Exists(call[t].block)
    /\ call[t].pc # "returned" => call[t].out = None
    /\ call[t].out \in {"is_empty throws", "remove throws"} => ~Exists(call[t].block)
    /\ call[t].out = "could not open file" => ~Exists(call[t].block) /\ kept[call[t].block] = None
    /\ call[t].out \in {"is_empty throws", "remove throws", "could not open file"} => call[t].block \in Blocks
    /\ Out(t, "load") => LoadedLast(t)

\* What an enumeration relies on: a block that was there all the time has been visited, or its directory is still to come.
EnumerationFacts(t) ==
    /\ \A b \in present[t] : Exists(b)
    /\ call[t].op = "forEachBlock" => ~InMemory /\ call[t].pc \in {"iterate", "returned"}
    /\ At(t, "forEachBlock", "iterate") => \A b \in present[t] : b \in call[t].visited \/ PrefixOf[b] \in call[t].todo
    /\ Out(t, "forEachBlock") /\ call[t].out # "directory_iterator throws" => present[t] \subseteq call[t].visited

StoresInv ==
    /\ TypeOK
    /\ OneCallPerBlock
    /\ \A b \in Blocks : BlockFacts(b)
    /\ \A t \in Threads : CallFacts(t) /\ EnumerationFacts(t)

----------------------------------------------------------------------------
\* What a step of thread t leaves to the others: their calls, and the blocks they work on.
StepOf(t) ==
    /\ backend' = backend /\ cipher' = cipher
    /\ \A u \in Threads \ {t} : call'[u] = call[u] /\ present'[u] \subseteq present[u]
    /\ \A u \in Threads \ {t} : \A b \in present'[u] : files'[b] # NoFile
    /\ \A b \in Blocks \ {call[t].block} :
          /\ files'[b] = files[b] /\ kept'[b] = kept[b]
          /\ Exists(b) /\ PrefixOf[b] \in dirs => PrefixOf[b] \in dirs'
    /\ call'[t].block \in Blocks => call'[t].block = call[t].block \/ Free(call'[t].block)

\* The facts of another thread's call.
LEMMA OthersKeep ==
    ASSUME StoresInv, NEW t \in Threads, StepOf(t), NEW u \in Threads, u # t
    PROVE  CallFacts(u)' /\ EnumerationFacts(u)'
<1>1. call'[u] = call[u] /\ backend' = backend /\ cipher' = cipher
  BY Zenon DEF StepOf
<1>2. CallFacts(u) /\ EnumerationFacts(u)
  BY Zenon DEF StoresInv
<1>3. call[u].block \in Blocks => /\ files'[call[u].block] = files[call[u].block]
                                  /\ kept'[call[u].block] = kept[call[u].block]
  BY Zenon DEF StepOf, StoresInv, OneCallPerBlock
<1>4. present'[u] \subseteq present[u] /\ \A b \in present'[u] : files'[b] # NoFile
  BY Zenon DEF StepOf
<1>5. CallFacts(u)'
  <2>1. Out(u, "load")' => LoadedLast(u)'
    <3>1. Out(u, "load")' => Out(u, "load") /\ call[u].block \in Blocks
      BY <1>1, <1>2, Zenon DEF CallFacts, Out, BlockOps
    <3> QED
      BY <1>1, <1>2, <1>3, <3>1, Zenon DEF CallFacts, LoadedLast
  <2>2. call[u].pc \in {"write", "is empty", "remove directory"} => call[u].block \in Blocks
    BY <1>2, Zenon DEF CallFacts, BlockOps
  <2> QED
    BY <1>1, <1>2, <1>3, <2>1, <2>2, Zenon DEF CallFacts, Exists, InMemory
<1>6. EnumerationFacts(u)'
  BY <1>1, <1>2, <1>4, Zenon DEF EnumerationFacts, Exists, InMemory, At, Out
<1> QED
  BY <1>5, <1>6, Zenon

\* A step of thread t keeps the invariant if it keeps the types, its block's facts and its own.
LEMMA StepKeeps ==
    ASSUME StoresInv, NEW t \in Threads, StepOf(t), TypeOK',
           \A b \in Blocks : b = call[t].block => BlockFacts(b)', CallFacts(t)', EnumerationFacts(t)'
    PROVE  StoresInv'
<1>1. \A u \in Threads : CallFacts(u)' /\ EnumerationFacts(u)'
  BY OthersKeep, Zenon
<1>2. ASSUME NEW b \in Blocks PROVE BlockFacts(b)'
  <2>1. CASE b # call[t].block
    <3>1. /\ files'[b] = files[b] /\ kept'[b] = kept[b] /\ backend' = backend
          /\ Exists(b) /\ PrefixOf[b] \in dirs => PrefixOf[b] \in dirs'
      BY <2>1, Zenon DEF StepOf
    <3>2. BlockFacts(b)
      BY Zenon DEF StoresInv
    <3> QED
      BY <3>1, <3>2, Zenon DEF BlockFacts, Exists, InMemory
  <2> QED
    BY <2>1, Zenon
<1>3. OneCallPerBlock'
  <2>1. \A u \in Threads \ {t} : call'[u] = call[u]
    BY Zenon DEF StepOf
  <2>2. ASSUME NEW u \in Threads \ {t}, call'[t].block \in Blocks, call'[t].block = call[u].block PROVE FALSE
    BY <2>2, Zenon DEF StepOf, StoresInv, OneCallPerBlock, Free
  <2> QED
    BY <2>1, <2>2, Zenon DEF StoresInv, OneCallPerBlock
<1> QED
  BY <1>1, <1>2, <1>3, Zenon DEF StoresInv

\* What Goto and Return change.
CallMoves(t, pc, out) ==
    /\ call' \in [Threads -> CallType]
    /\ \A u \in Threads \ {t} : call'[u] = call[u]
    /\ call'[t].op = call[t].op /\ call'[t].block = call[t].block /\ call'[t].val = call[t].val
    /\ call'[t].pc = pc /\ call'[t].out = out /\ call'[t].visited = call[t].visited

LEMMA GotoView ==
    ASSUME TypeOK, NEW t \in Threads, NEW pc, Goto(t, pc),
           pc \in {"create directory", "open", "write", "is empty", "remove directory", "returned"}
    PROVE  CallMoves(t, pc, call[t].out)
<1>1. call[t] \in CallType /\ call \in [Threads -> CallType]
  BY Zenon DEF TypeOK
<1>2. PICK c : c = [call[t] EXCEPT !.pc = pc]
  BY Zenon
<1>3. /\ c \in CallType /\ c.op = call[t].op /\ c.block = call[t].block /\ c.val = call[t].val
      /\ c.pc = pc /\ c.out = call[t].out /\ c.visited = call[t].visited
  BY <1>1, <1>2 DEF CallType
<1>4. call' = [call EXCEPT ![t] = c]
  BY <1>1, <1>2, Zenon DEF Goto
<1> QED
  BY <1>1, <1>3, <1>4, Zenon DEF CallMoves

LEMMA ReturnView ==
    ASSUME TypeOK, NEW t \in Threads, NEW out, Return(t, out), 
           out \in Contents \cup {"none", "true", "false", "throws", "a part of the data", "error writing",
                                "is_empty throws", "remove throws", "could not open file", "directory_iterator throws"}
    PROVE  CallMoves(t, "returned", out)
<1>1. call[t] \in CallType /\ call \in [Threads -> CallType]
  BY Zenon DEF TypeOK
<1>2. PICK c : c = [call[t] EXCEPT !.pc = "returned", !.out = out]
  BY Zenon
<1>3. /\ c \in CallType /\ c.op = call[t].op /\ c.block = call[t].block /\ c.val = call[t].val
      /\ c.pc = "returned" /\ c.out = out /\ c.visited = call[t].visited
  BY <1>1, <1>2 DEF CallType
<1>4. call' = [call EXCEPT ![t] = c]
  BY <1>1, <1>2, Zenon DEF Return
<1> QED
  BY <1>1, <1>3, <1>4, Zenon DEF CallMoves

\* A file that is written is not a missing one.
LEMMA FilesExist ==
    ASSUME NEW v \in Contents \cup {None}, NEW part \in Parts
    PROVE  /\ encryptedFile(v, part) \in FileType /\ encryptedFile(v, part) # NoFile
           /\ encryptedFile(v, part).part = part /\ encryptedFile(v, part).val = v
BY DEF encryptedFile, File, FileType, NoFile, Parts

LEMMA NoFileIsAFile == NoFile \in FileType /\ NoFile.val = None /\ NoFile.part = "no file"
BY DEF NoFile, FileType

----------------------------------------------------------------------------
\* A step that changes no file.
LEMMA QuietStep ==
    ASSUME StoresInv, NEW t \in Threads, UNCHANGED <<backend, cipher, files, kept, present>>,
           dirs' \subseteq Prefixes, \A b \in Blocks : Exists(b) /\ PrefixOf[b] \in dirs => PrefixOf[b] \in dirs',
           NEW pc, NEW out, CallMoves(t, pc, out), CallFacts(t)', call[t].op \in BlockOps
    PROVE  StoresInv'
<1>1. TypeOK'
  BY Zenon DEF StoresInv, TypeOK, CallMoves
<1>2. \A u \in Threads : \A b \in present[u] : files[b] # NoFile
  BY Zenon DEF StoresInv, EnumerationFacts, Exists
<1>3. StepOf(t)
  BY <1>2, Zenon DEF StepOf, CallMoves
<1>4. ASSUME NEW b \in Blocks PROVE BlockFacts(b)'
  <2>1. BlockFacts(b)
    BY Zenon DEF StoresInv
  <2> QED
    BY <2>1, Zenon DEF BlockFacts, Exists, InMemory
<1>5. EnumerationFacts(t)'
  BY <1>2, Zenon DEF EnumerationFacts, Exists, At, Out, BlockOps, CallMoves
<1> QED
  BY <1>1, <1>3, <1>4, <1>5, StepKeeps, Zenon

\* store(), tryCreate(), remove() and load() are called.
LEMMA BeginKeeps ==
    ASSUME StoresAssumption, StoresInv, NEW t \in Threads, NEW o \in BlockOps, NEW b \in Blocks, NEW v \in Contents \cup {None},
           o \in {"store", "tryCreate"} => v \in Contents, Begin(t, o, b, v)
    PROVE  StoresInv'
<1>1. PICK c : c = [op |-> o, block |-> b, val |-> v, pc |-> "begin", todo |-> {}, visited |-> {}, out |-> None]
  BY Zenon
<1>2. c \in CallType /\ c.op = o /\ c.block = b /\ c.val = v /\ c.pc = "begin" /\ c.out = None
  BY <1>1 DEF CallType
<1>3. call' = [call EXCEPT ![t] = c] /\ Free(b) /\ call[t] = Idle /\ UNCHANGED <<backend, cipher, dirs, files, kept, present>>
  BY <1>1, Zenon DEF Begin
<1>4. call' \in [Threads -> CallType] /\ call'[t] = c /\ \A u \in Threads \ {t} : call'[u] = call[u]
  BY <1>2, <1>3, Zenon DEF StoresInv, TypeOK
<1>5. call[t].block = None
  BY <1>3 DEF Idle
<1>6. TypeOK'
  BY <1>3, <1>4, Zenon DEF StoresInv, TypeOK
<1>7. \A u \in Threads : \A x \in present[u] : files[x] # NoFile
  BY Zenon DEF StoresInv, EnumerationFacts, Exists
<1>8. StepOf(t)
  BY <1>2, <1>3, <1>4, <1>7, Zenon DEF StepOf
<1>9. CallFacts(t)'
  <2>1. None \notin {"is_empty throws", "remove throws", "could not open file"}
    BY Zenon DEF StoresAssumption
  <2> QED
    BY <1>2, <1>4, <2>1, Zenon DEF CallFacts, Out
<1>10. EnumerationFacts(t)'
  BY <1>2, <1>3, <1>4, <1>7, Zenon DEF EnumerationFacts, Exists, At, Out, BlockOps
<1> QED
  BY <1>5, <1>6, <1>8, <1>9, <1>10, StepKeeps, Zenon DEF StoresAssumption

\* The checks of tryCreate() and remove(), and the directories they create and remove.
LEMMA CheckExistsKeeps ==
    ASSUME StoresAssumption, StoresInv, NEW t \in Threads, CheckExists(t)
    PROVE  StoresInv'
<1>1. TypeOK /\ CallFacts(t) /\ call[t].op = "tryCreate" /\ call[t].pc = "begin" /\ call[t].out = None
  BY Zenon DEF StoresInv, CheckExists, At, CallFacts
<1>2. PICK pc \in {"create directory", "returned"}, out \in {None, "false"} :
         CallMoves(t, pc, out) /\ (pc # "returned" => out = None)
  <2>1. CASE Return(t, "false")
    BY <1>1, <2>1, ReturnView, Zenon
  <2>2. CASE Goto(t, "create directory")
    BY <1>1, <2>2, GotoView, Zenon
  <2> QED
    BY <2>1, <2>2, Zenon DEF CheckExists
<1>3. CallFacts(t)'
  <2>1. out \notin {"is_empty throws", "remove throws", "could not open file"}
    BY <1>2, Zenon DEF StoresAssumption
  <2> QED
    BY <1>1, <1>2, <2>1, Zenon DEF CallFacts, Out, CallMoves
<1>4. UNCHANGED <<backend, cipher, dirs, files, kept, present>>
  BY Zenon DEF CheckExists
<1> QED
  BY <1>1, <1>2, <1>3, <1>4, QuietStep, Zenon DEF TypeOK, BlockOps

LEMMA CreateDirectoryKeeps ==
    ASSUME StoresAssumption, StoresInv, NEW t \in Threads, CreateDirectory(t)
    PROVE  StoresInv'
<1>1. TypeOK /\ CallFacts(t) /\ call[t].op \in {"store", "tryCreate"} /\ call[t].out = None /\ ~InMemory
  BY Zenon DEF StoresInv, CreateDirectory, At, CallFacts
<1>2. CallMoves(t, "open", None)
  BY <1>1, GotoView, Zenon DEF CreateDirectory
<1>3. UNCHANGED <<backend, cipher, files, kept, present>> /\ dirs' = dirs \cup {PrefixOf[call[t].block]}
  BY Zenon DEF CreateDirectory
<1>4. call[t].block \in Blocks /\ dirs' \subseteq Prefixes
  BY <1>1, <1>3, Zenon DEF CallFacts, BlockOps, StoresAssumption, TypeOK
<1>5. CallFacts(t)'
  <2>1. None \notin {"is_empty throws", "remove throws", "could not open file"}
    BY Zenon DEF StoresAssumption
  <2> QED
    BY <1>1, <1>2, <1>3, <2>1, Zenon DEF CallFacts, Out, InMemory, CallMoves
<1> QED
  BY <1>1, <1>2, <1>3, <1>4, <1>5, QuietStep, Zenon DEF BlockOps

\* boost's is_empty and remove see the directory that another thread may be using.
LEMMA CheckIsEmptyKeeps ==
    ASSUME StoresAssumption, StoresInv, NEW t \in Threads, CheckIsEmpty(t)
    PROVE  StoresInv'
<1>1. TypeOK /\ CallFacts(t) /\ call[t].op = "remove" /\ ~Exists(call[t].block) /\ call[t].out = None
  BY Zenon DEF StoresInv, CheckIsEmpty, At, CallFacts
<1>2. PICK pc \in {"remove directory", "returned"}, out \in {None, "is_empty throws", "true"} :
         CallMoves(t, pc, out) /\ (pc # "returned" => out = None)
  <2>1. CASE Return(t, "is_empty throws")
    BY <1>1, <2>1, ReturnView, Zenon
  <2>2. CASE Return(t, "true")
    BY <1>1, <2>2, ReturnView, Zenon
  <2>3. CASE Goto(t, "remove directory")
    BY <1>1, <2>3, GotoView, Zenon
  <2> QED
    BY <2>1, <2>2, <2>3, Zenon DEF CheckIsEmpty
<1>3. UNCHANGED <<backend, cipher, dirs, files, kept, present>>
  BY Zenon DEF CheckIsEmpty
<1>4. CallFacts(t)'
  <2>1. out # "could not open file"
    BY <1>2, Zenon DEF StoresAssumption
  <2> QED
    BY <1>1, <1>2, <1>3, <2>1, Zenon DEF CallFacts, Out, CallMoves, Exists, BlockOps
<1> QED
  BY <1>1, <1>2, <1>3, <1>4, QuietStep, Zenon DEF TypeOK, BlockOps

LEMMA RemoveDirectoryKeeps ==
    ASSUME StoresAssumption, StoresInv, NEW t \in Threads, RemoveDirectory(t)
    PROVE  StoresInv'
<1>1. TypeOK /\ CallFacts(t) /\ call[t].op = "remove" /\ ~Exists(call[t].block)
  BY Zenon DEF StoresInv, RemoveDirectory, At, CallFacts
<1>2. PICK out \in {"remove throws", "true"} : CallMoves(t, "returned", out)
  <2>1. CASE Return(t, "remove throws")
    BY <1>1, <2>1, ReturnView, Zenon
  <2>2. CASE Return(t, "true")
    BY <1>1, <2>2, ReturnView, Zenon
  <2> QED
    BY <2>1, <2>2, Zenon DEF RemoveDirectory
<1>3. UNCHANGED <<backend, cipher, files, kept, present>>
  BY Zenon DEF RemoveDirectory
<1>4. dirs' \subseteq dirs /\ \A b \in Blocks : Exists(b) /\ PrefixOf[b] \in dirs => PrefixOf[b] \in dirs'
  BY Zenon DEF RemoveDirectory, InDirectory
<1>5. CallFacts(t)'
  BY <1>1, <1>2, <1>3, Zenon DEF CallFacts, Out, CallMoves, Exists, BlockOps
<1> QED
  BY <1>1, <1>2, <1>3, <1>4, <1>5, QuietStep, Zenon DEF TypeOK, BlockOps

\* load() sees what the last write left behind.
LEMMA LoadKeeps ==
    ASSUME StoresAssumption, StoresInv, NEW t \in Threads, Load(t)
    PROVE  StoresInv'
<1>1. TypeOK /\ CallFacts(t) /\ call[t].op = "load" /\ call[t].block \in Blocks
  BY Zenon DEF StoresInv, Load, At, CallFacts, BlockOps
<1>2. PICK out \in LoadOutcomes(files[call[t].block]) \ {"dies"} : Return(t, out)
  BY Zenon DEF Load
<1>3. PICK b \in Blocks : b = call[t].block
  BY <1>1, Zenon
<1>4. BlockFacts(b) /\ files[b] \in FileType /\ kept[b] \in Contents \cup {None, "cut"}
  BY Zenon DEF StoresInv, TypeOK
<1>5. /\ kept[b] \in Contents => out = kept[b]
      /\ kept[b] = None => out = "none"
      /\ kept[b] = "cut" => \/ out \in {"none", "throws"}
                            \/ out = "a part of the data" /\ cipher = "CFB_Cipher"
  <2>1. CASE kept[b] = None
    BY <1>2, <1>3, <1>4, <2>1, Zenon DEF LoadOutcomes, BlockFacts, StoresAssumption
  <2>2. CASE kept[b] \in Contents
    <3>1. files[b] # NoFile /\ files[b].part = "all" /\ files[b].val = kept[b] /\ kept[b] # None /\ kept[b] # "cut"
      BY <1>4, <2>2, Zenon DEF BlockFacts, StoresAssumption
    <3> QED
      BY <1>2, <1>3, <2>2, <3>1 DEF LoadOutcomes, _tryDecrypt, DecryptOutcomes
  <2>3. CASE kept[b] = "cut"
    <3>1. files[b] # NoFile /\ files[b].part \in {"cut in file header", "cut in format header", "cut in ciphertext"}
      BY <1>4, <2>3, Zenon DEF BlockFacts, StoresAssumption, Parts
    <3>2. cipher \in {"AEAD_Cipher", "CFB_Cipher"} /\ kept[b] \notin Contents /\ kept[b] # None
      BY <1>1, <2>3, Zenon DEF TypeOK, StoresAssumption
    <3> QED
      BY <1>2, <1>3, <2>3, <3>1, <3>2 DEF LoadOutcomes, _tryDecrypt, DecryptOutcomes
  <2> QED
    BY <1>4, <2>1, <2>2, <2>3, Zenon
<1>6. CallMoves(t, "returned", out)
  <2>1. out \in Contents \cup {"none", "throws", "a part of the data"}
    BY <1>4, <1>5, Zenon
  <2> QED
    BY <1>1, <1>2, <2>1, ReturnView, Zenon
<1>7. UNCHANGED <<backend, cipher, dirs, files, kept, present>>
  BY Zenon DEF Load
<1>8. CallFacts(t)'
  <2>1. out \notin {"is_empty throws", "remove throws", "could not open file"}
    BY <1>4, <1>5, Zenon DEF StoresAssumption
  <2>2. LoadedLast(t)'
    <3>1. call'[t].block = b /\ call'[t].out = out
      BY <1>3, <1>6, Zenon DEF CallMoves
    <3> QED
      BY <1>4, <1>5, <1>7, <3>1, Zenon DEF LoadedLast
  <2> QED
    BY <1>1, <1>6, <2>1, <2>2, Zenon DEF CallFacts, CallMoves
<1> QED
  BY <1>1, <1>6, <1>7, <1>8, QuietStep, Zenon DEF TypeOK, BlockOps

----------------------------------------------------------------------------
\* A step that leaves file f in the place of block b, for which k is kept.
FileStep(t, b, f, k) ==
    /\ files' = [files EXCEPT ![b] = f] /\ kept' = [kept EXCEPT ![b] = k]
    /\ UNCHANGED <<backend, cipher, dirs>>
    /\ Still(files') \/ (f # NoFile /\ UNCHANGED present)
    /\ f \in FileType /\ k \in Contents \cup {None, "cut"}
    /\ k = None <=> f = NoFile
    /\ k \in Contents => f.part = "all" /\ f.val = k
    /\ k = "cut" => f.part \in Parts \ {"all"} /\ ~InMemory
    /\ f # NoFile /\ ~InMemory => PrefixOf[b] \in dirs

LEMMA FileStepKeeps ==
    ASSUME StoresInv, NEW t \in Threads, NEW b \in Blocks, b = call[t].block, call[t].op \in BlockOps,
           NEW f, NEW k, FileStep(t, b, f, k), NEW pc, NEW out, CallMoves(t, pc, out), CallFacts(t)'
    PROVE  StoresInv'
<1>1. TypeOK /\ files'[b] = f /\ kept'[b] = k /\ \A c \in Blocks \ {b} : files'[c] = files[c] /\ kept'[c] = kept[c]
  BY Zenon DEF StoresInv, TypeOK, FileStep
<1>2. /\ present' \in [Threads -> SUBSET Blocks]
      /\ \A u \in Threads : present'[u] \subseteq present[u] /\ \A c \in present'[u] : files'[c] # NoFile
  <2>1. CASE Still(files')
    BY <1>1, <2>1, Zenon DEF Still, TypeOK
  <2>2. CASE f # NoFile /\ UNCHANGED present
    <3>1. \A u \in Threads : present[u] \subseteq Blocks /\ \A c \in present[u] : files[c] # NoFile
      BY <1>1, Zenon DEF StoresInv, EnumerationFacts, Exists, TypeOK
    <3> QED
      BY <1>1, <2>2, <3>1, Zenon DEF TypeOK
  <2> QED
    BY <2>1, <2>2, Zenon DEF FileStep
<1>3. TypeOK'
  BY <1>1, <1>2, Zenon DEF TypeOK, FileStep, CallMoves
<1>4. StepOf(t)
  <2>1. \A c \in Blocks \ {call[t].block} : files'[c] = files[c] /\ kept'[c] = kept[c]
    BY <1>1, Zenon
  <2> QED
    BY <1>2, <2>1, Zenon DEF StepOf, FileStep, CallMoves
<1>5. BlockFacts(b)'
  BY <1>1, Zenon DEF BlockFacts, FileStep, Exists, InMemory
<1>6. EnumerationFacts(t)'
  BY <1>2, Zenon DEF EnumerationFacts, Exists, At, Out, BlockOps, CallMoves
<1> QED
  BY <1>3, <1>4, <1>5, <1>6, StepKeeps, Zenon

\* The call has its block, its data and not yet a result.
LEMMA Running ==
    ASSUME StoresInv, NEW t \in Threads, call[t].pc \in {"begin", "open", "write"}, call[t].op \in BlockOps
    PROVE  /\ TypeOK /\ CallFacts(t) /\ call[t].block \in Blocks /\ call[t].out = None
           /\ call[t].op \in {"store", "tryCreate"} => call[t].val \in Contents
           /\ BlockFacts(call[t].block) /\ files[call[t].block] \in FileType
           /\ kept[call[t].block] \in Contents \cup {None, "cut"}
BY Zenon DEF StoresInv, CallFacts, TypeOK

\* InMemoryBlockStore2
LEMMA InMemoryCallKeeps ==
    ASSUME StoresAssumption, StoresInv, NEW t \in Threads, InMemoryCall(t)
    PROVE  StoresInv'
<1>1. /\ call[t].op \in {"store", "tryCreate", "remove"} /\ call[t].op \in BlockOps /\ call[t].pc = "begin" /\ InMemory
      /\ UNCHANGED <<backend, cipher, dirs>>
  BY Zenon DEF InMemoryCall, BlockOps
<1>2. PICK b \in Blocks : b = call[t].block
  BY <1>1, Running, Zenon
<1>3. /\ TypeOK /\ CallFacts(t) /\ BlockFacts(b) /\ files[b] \in FileType /\ kept[b] \in Contents \cup {None, "cut"}
      /\ call[t].op \in {"store", "tryCreate"} => call[t].val \in Contents
  BY <1>1, <1>2, Running, Zenon
<1>a. PICK refused \in BOOLEAN : \E new :
         /\ new = IF refused THEN files[b] ELSE IF call[t].op = "remove" THEN NoFile ELSE encryptedFile(call[t].val, "all")
         /\ files' = [files EXCEPT ![b] = new] /\ kept' = [kept EXCEPT ![b] = new.val]
         /\ Still(files') /\ Return(t, IF refused THEN "false" ELSE "true")
  BY <1>2, Zenon DEF InMemoryCall
<1>4. PICK new :
         /\ new = IF refused THEN files[b] ELSE IF call[t].op = "remove" THEN NoFile ELSE encryptedFile(call[t].val, "all")
         /\ files' = [files EXCEPT ![b] = new] /\ kept' = [kept EXCEPT ![b] = new.val]
         /\ Still(files') /\ Return(t, IF refused THEN "false" ELSE "true")
  BY <1>a, Zenon
<1>5. /\ new \in FileType /\ new.val \in Contents \cup {None, "cut"} /\ (new.val = None <=> new = NoFile)
      /\ (new.val \in Contents => new.part = "all") /\ new.val # "cut"
  <2>1. CASE new = files[b]
    BY <1>1, <1>3, <2>1, NoFileIsAFile, Zenon DEF BlockFacts, StoresAssumption
  <2>2. CASE new = NoFile
    BY <2>2, NoFileIsAFile, Zenon DEF StoresAssumption
  <2>3. CASE new = encryptedFile(call[t].val, "all") /\ call[t].val \in Contents
    <3>1. "all" \in Parts
      BY Zenon DEF Parts
    <3>2. new \in FileType /\ new # NoFile /\ new.part = "all" /\ new.val = call[t].val
      BY <2>3, <3>1, FilesExist, Zenon
    <3> QED
      BY <2>3, <3>2, Zenon DEF StoresAssumption
  <2> QED
    BY <1>1, <1>3, <1>4, <2>1, <2>2, <2>3, Zenon
<1>6. FileStep(t, b, new, new.val)
  BY <1>1, <1>4, <1>5, Zenon DEF FileStep, InMemory
<1>7. PICK out \in {"false", "true"} : CallMoves(t, "returned", out)
  <2>1. CASE refused
    BY <1>3, <1>4, <2>1, ReturnView, Zenon
  <2>2. CASE ~refused
    BY <1>3, <1>4, <2>2, ReturnView, Zenon
  <2> QED
    BY <2>1, <2>2, Zenon
<1>8. CallFacts(t)'
  BY <1>1, <1>3, <1>7, Zenon DEF CallFacts, CallMoves, Out
<1> QED
  BY <1>1, <1>2, <1>6, <1>7, <1>8, FileStepKeeps, Zenon

\* Data::StoreToFile opens the file and writes it.
LEMMA OpenForWritingKeeps ==
    ASSUME StoresAssumption, StoresInv, NEW t \in Threads, OpenForWriting(t)
    PROVE  StoresInv'
<1>1. /\ call[t].pc = "open" /\ call[t].op \in {"store", "tryCreate"} /\ call[t].op \in BlockOps /\ ~InMemory
      /\ UNCHANGED <<backend, cipher, dirs, present>>
  BY Zenon DEF OpenForWriting, StoresInv, CallFacts, BlockOps
<1>2. PICK b \in Blocks : b = call[t].block
  BY <1>1, Running, Zenon
<1>3. TypeOK /\ CallFacts(t) /\ BlockFacts(b) /\ call[t].out = None
  BY <1>1, <1>2, Running, Zenon
<1>4. CASE PrefixOf[b] \notin dirs
  <2>1. Return(t, "could not open file") /\ UNCHANGED <<files, kept>>
    BY <1>2, <1>4, Zenon DEF OpenForWriting
  <2>2. CallMoves(t, "returned", "could not open file")
    BY <1>3, <2>1, ReturnView, Zenon
  <2>3. ~Exists(b) /\ kept[b] = None
    BY <1>1, <1>3, <1>4, Zenon DEF BlockFacts, Exists
  <2>4. call'[t].block = b
    BY <1>2, <2>2, Zenon DEF CallMoves
  <2>5. CallFacts(t)'
    BY <1>1, <1>2, <1>3, <2>1, <2>2, <2>3, <2>4, Zenon DEF CallFacts, CallMoves, Out, Exists
  <2> QED
    BY <1>1, <1>3, <2>1, <2>2, <2>5, QuietStep, Zenon DEF TypeOK
<1>5. CASE PrefixOf[b] \in dirs
  <2>1. PICK f : f = encryptedFile(None, "cut in file header")
    BY Zenon
  <2>2. f \in FileType /\ f # NoFile /\ f.part \in Parts \ {"all"}
    BY <2>1, FilesExist, Zenon DEF Parts
  <2>3. files' = [files EXCEPT ![b] = f] /\ kept' = [kept EXCEPT ![b] = "cut"] /\ Goto(t, "write")
    BY <1>2, <1>5, <2>1, Zenon DEF OpenForWriting
  <2>4. FileStep(t, b, f, "cut")
    BY <1>1, <1>5, <2>2, <2>3, Zenon DEF FileStep, StoresAssumption
  <2>5. CallMoves(t, "write", None)
    BY <1>3, <2>3, GotoView, Zenon
  <2>6. call'[t].block = b /\ kept'[b] = "cut"
    BY <1>2, <1>3, <2>3, <2>5, Zenon DEF CallMoves, TypeOK
  <2>7. CallFacts(t)'
    <3>1. None \notin {"is_empty throws", "remove throws", "could not open file"}
      BY Zenon DEF StoresAssumption
    <3> QED
      BY <1>1, <1>2, <1>3, <2>5, <2>6, <3>1, Zenon DEF CallFacts, CallMoves, Out, InMemory
  <2> QED
    BY <1>1, <1>2, <2>4, <2>5, <2>7, FileStepKeeps, Zenon
<1> QED
  BY <1>4, <1>5, Zenon

LEMMA WriteKeeps ==
    ASSUME StoresAssumption, StoresInv, NEW t \in Threads, Write(t)
    PROVE  StoresInv'
<1>1. /\ call[t].pc = "write" /\ call[t].op \in {"store", "tryCreate"} /\ call[t].op \in BlockOps /\ ~InMemory
      /\ UNCHANGED <<backend, cipher, dirs, present>>
  BY Zenon DEF Write, StoresInv, CallFacts, BlockOps
<1>2. PICK b \in Blocks : b = call[t].block
  BY <1>1, Running, Zenon
<1>3. TypeOK /\ CallFacts(t) /\ BlockFacts(b) /\ call[t].val \in Contents /\ kept[b] = "cut" /\ PrefixOf[b] \in dirs
  <2>1. TypeOK /\ CallFacts(t) /\ BlockFacts(b) /\ call[t].val \in Contents
    BY <1>1, <1>2, Running, Zenon
  <2>2. kept[b] = "cut"
    BY <1>1, <1>2, <2>1, Zenon DEF CallFacts
  <2> QED
    BY <1>1, <2>1, <2>2, Zenon DEF BlockFacts, Exists, StoresAssumption
<1>4. PICK part \in Parts :
         /\ files' = [files EXCEPT ![b] = encryptedFile(IF part = "all" THEN call[t].val ELSE None, part)]
         /\ IF part = "all" THEN kept' = [kept EXCEPT ![b] = call[t].val] /\ Return(t, "true")
            ELSE Return(t, "error writing") /\ UNCHANGED kept
  BY <1>2, Zenon DEF Write
<1>5. PICK f, k : f = encryptedFile(IF part = "all" THEN call[t].val ELSE None, part)
                  /\ k = IF part = "all" THEN call[t].val ELSE "cut"
  BY Zenon
<1>6. f \in FileType /\ f # NoFile /\ f.part = part /\ (part = "all" => f.val = k)
  BY <1>3, <1>5, FilesExist, Zenon
<1>7. files' = [files EXCEPT ![b] = f] /\ kept' = [kept EXCEPT ![b] = k]
  <2>1. kept = [kept EXCEPT ![b] = "cut"]
    BY <1>3, Zenon DEF TypeOK
  <2> QED
    BY <1>4, <1>5, <2>1, Zenon
<1>8. FileStep(t, b, f, k)
  <2>1. /\ k \in Contents \cup {None, "cut"} /\ k # None /\ (k \in Contents => part = "all")
        /\ (k = "cut" => part \in Parts \ {"all"})
    BY <1>3, <1>5, Zenon DEF StoresAssumption
  <2> QED
    BY <1>1, <1>3, <1>6, <1>7, <2>1, Zenon DEF FileStep
<1>9. PICK out \in {"true", "error writing"} : CallMoves(t, "returned", out)
  <2>1. CASE part = "all"
    BY <1>3, <1>4, <2>1, ReturnView, Zenon
  <2>2. CASE part # "all"
    BY <1>3, <1>4, <2>2, ReturnView, Zenon
  <2> QED
    BY <2>1, <2>2, Zenon
<1>10. CallFacts(t)'
  BY <1>1, <1>3, <1>9, Zenon DEF CallFacts, CallMoves, Out
<1> QED
  BY <1>1, <1>2, <1>8, <1>9, <1>10, FileStepKeeps, Zenon

\* remove() removes the file.
LEMMA RemoveFileKeeps ==
    ASSUME StoresAssumption, StoresInv, NEW t \in Threads, RemoveFile(t)
    PROVE  StoresInv'
<1>1. /\ call[t].pc = "begin" /\ call[t].op = "remove" /\ call[t].op \in BlockOps /\ ~InMemory
      /\ UNCHANGED <<backend, cipher, dirs>>
  BY Zenon DEF RemoveFile, At, BlockOps
<1>2. PICK b \in Blocks : b = call[t].block
  BY <1>1, Running, Zenon
<1>3. TypeOK /\ CallFacts(t) /\ call[t].out = None
  BY <1>1, <1>2, Running, Zenon
<1>4. CASE ~Exists(b)
  <2>1. Return(t, "false") /\ UNCHANGED <<files, kept, present>>
    BY <1>2, <1>4, Zenon DEF RemoveFile
  <2>2. CallMoves(t, "returned", "false")
    BY <1>3, <2>1, ReturnView, Zenon
  <2>3. CallFacts(t)'
    BY <1>1, <1>3, <2>2, Zenon DEF CallFacts, CallMoves, Out
  <2> QED
    BY <1>1, <1>3, <2>1, <2>2, <2>3, QuietStep, Zenon DEF TypeOK
<1>5. CASE Exists(b)
  <2>1. files' = [files EXCEPT ![b] = NoFile] /\ kept' = [kept EXCEPT ![b] = None] /\ Still(files') /\ Goto(t, "is empty")
    BY <1>2, <1>5, Zenon DEF RemoveFile
  <2>2. FileStep(t, b, NoFile, None)
    BY <1>1, <2>1, NoFileIsAFile, Zenon DEF FileStep, StoresAssumption
  <2>3. CallMoves(t, "is empty", None)
    BY <1>3, <2>1, GotoView, Zenon
  <2>4. call'[t].block = b /\ files'[b] = NoFile
    BY <1>2, <1>3, <2>1, <2>3, Zenon DEF CallMoves, TypeOK
  <2>5. CallFacts(t)'
    <3>1. None \notin {"is_empty throws", "remove throws", "could not open file"}
      BY Zenon DEF StoresAssumption
    <3> QED
      BY <1>1, <1>2, <1>3, <2>3, <2>4, <3>1, Zenon DEF CallFacts, CallMoves, Out, Exists
  <2> QED
    BY <1>1, <1>2, <2>2, <2>3, <2>5, FileStepKeeps, Zenon
<1> QED
  BY <1>4, <1>5, Zenon

----------------------------------------------------------------------------
\* A step of forEachBlock(), or one that ends a call, touches no file.
LEMMA CallerStep ==
    ASSUME StoresInv, NEW t \in Threads, UNCHANGED <<backend, cipher, dirs, files, kept>>,
           NEW c \in CallType, call' = [call EXCEPT ![t] = c], c.block = None, None \notin Blocks,
           NEW P \in SUBSET Blocks, present' = [present EXCEPT ![t] = P],
           CallFacts(t)', EnumerationFacts(t)'
    PROVE  StoresInv'
<1>1. TypeOK /\ call'[t] = c /\ \A u \in Threads \ {t} : call'[u] = call[u] /\ present'[u] = present[u]
  BY Zenon DEF StoresInv, TypeOK
<1>2. TypeOK'
  BY <1>1, Zenon DEF TypeOK
<1>3. StepOf(t)
  <2>1. \A u \in Threads : \A b \in present[u] : files[b] # NoFile
    BY Zenon DEF StoresInv, EnumerationFacts, Exists
  <2> QED
    BY <1>1, <2>1, Zenon DEF StepOf
<1>4. ASSUME NEW b \in Blocks PROVE BlockFacts(b)'
  <2>1. BlockFacts(b)
    BY Zenon DEF StoresInv
  <2> QED
    BY <2>1, Zenon DEF BlockFacts, Exists, InMemory
<1> QED
  BY <1>2, <1>3, <1>4, StepKeeps, Zenon

LEMMA IdleCall ==
    ASSUME StoresAssumption
    PROVE  /\ Idle \in CallType /\ Idle.op = "idle" /\ Idle.block = None /\ Idle.pc = "idle" /\ Idle.out = None
           /\ None \notin {"is_empty throws", "remove throws", "could not open file"} /\ None \notin Blocks
<1>1. Idle \in CallType /\ Idle.op = "idle" /\ Idle.block = None /\ Idle.pc = "idle" /\ Idle.out = None
  BY DEF Idle, CallType
<1> QED
  BY <1>1, Zenon DEF StoresAssumption

\* An idle thread has no facts to keep.
LEMMA IdleFacts ==
    ASSUME StoresAssumption, NEW t \in Threads, call'[t] = Idle, present'[t] = {}
    PROVE  CallFacts(t)' /\ EnumerationFacts(t)'
BY IdleCall, Zenon DEF CallFacts, EnumerationFacts, Out, At, BlockOps

LEMMA ReturnedKeeps ==
    ASSUME StoresAssumption, StoresInv, NEW t \in Threads, Returned(t)
    PROVE  StoresInv'
<1>1. call'[t] = Idle /\ present'[t] = {}
  BY Zenon DEF StoresInv, TypeOK, Returned
<1> QED
  BY <1>1, IdleCall, IdleFacts, CallerStep, Zenon DEF Returned

\* forEachBlock() begins with all directories to come.
LEMMA BeginForEachBlockKeeps ==
    ASSUME StoresAssumption, StoresInv, NEW t \in Threads, BeginForEachBlock(t)
    PROVE  StoresInv'
<1>1. PICK c : c = [Idle EXCEPT !.op = "forEachBlock", !.pc = "iterate", !.todo = dirs \cup {"cryfs.config"}]
  BY Zenon
<1>2. TypeOK /\ dirs \subseteq Prefixes
  BY Zenon DEF StoresInv, TypeOK
<1>3. /\ c \in CallType /\ c.op = "forEachBlock" /\ c.block = None /\ c.pc = "iterate" /\ c.out = None
      /\ c.todo = dirs \cup {"cryfs.config"}
  BY <1>1, <1>2 DEF Idle, CallType
<1>4. PICK P \in SUBSET Blocks : P = {b \in Blocks : Exists(b)}
  BY Zenon
<1>5. /\ call' = [call EXCEPT ![t] = c] /\ present' = [present EXCEPT ![t] = P] /\ ~InMemory
      /\ UNCHANGED <<backend, cipher, dirs, files, kept>>
  BY <1>1, <1>4, Zenon DEF BeginForEachBlock
<1>6. call'[t] = c /\ present'[t] = P
  BY <1>2, <1>5, Zenon DEF TypeOK
<1>7. CallFacts(t)'
  BY <1>3, <1>6, IdleCall, Zenon DEF CallFacts, Out, BlockOps
<1>8. EnumerationFacts(t)'
  <2>1. \A b \in P : PrefixOf[b] \in dirs /\ files[b] # NoFile
    BY <1>4, <1>5, Zenon DEF StoresInv, BlockFacts, Exists
  <2> QED
    BY <1>3, <1>5, <1>6, <2>1, Zenon DEF EnumerationFacts, Exists, At, Out, InMemory
<1> QED
  BY <1>3, <1>5, <1>7, <1>8, IdleCall, CallerStep, Zenon

\* forEachBlock() skips an entry, visits the blocks of a directory, fails or ends.
LEMMA IterateEntryKeeps ==
    ASSUME StoresAssumption, StoresInv, NEW t \in Threads, IterateEntry(t)
    PROVE  StoresInv'
<1>1. /\ TypeOK /\ CallFacts(t) /\ EnumerationFacts(t) /\ call[t] \in CallType /\ call[t].op = "forEachBlock"
      /\ call[t].pc = "iterate" /\ call[t].out = None /\ call[t].block = None /\ ~InMemory /\ present[t] \in SUBSET Blocks
  <2>1. TypeOK /\ CallFacts(t) /\ EnumerationFacts(t) /\ call[t].op = "forEachBlock" /\ call[t].pc = "iterate"
    BY Zenon DEF StoresInv, IterateEntry, At
  <2>2. call[t] \in CallType /\ present[t] \in SUBSET Blocks
    BY <2>1, Zenon DEF TypeOK
  <2>3. call[t].block \in Blocks \cup {None} /\ call[t].block \notin Blocks
    BY <2>1, <2>2, Zenon DEF CallFacts, BlockOps, CallType
  <2> QED
    BY <2>1, <2>2, <2>3, Zenon DEF CallFacts, EnumerationFacts
<1>2. UNCHANGED <<backend, cipher, dirs, files, kept, present>> /\ present' = [present EXCEPT ![t] = present[t]]
  BY <1>1, Zenon DEF IterateEntry, TypeOK
<1>3. \A b \in present[t] : b \in Blocks /\ files[b] # NoFile /\ PrefixOf[b] \in dirs
  BY <1>1, Zenon DEF StoresInv, EnumerationFacts, BlockFacts, Exists
<1>4. ASSUME NEW entry \in call[t].todo, VisitEntry(t, entry) PROVE StoresInv'
  <2>1. PICK new \in SUBSET Blocks : /\ Visit(t, call[t].todo \ {entry}, new)
                                     /\ new = IF entry \in dirs THEN InDirectory(entry) ELSE {}
    BY <1>4, Zenon DEF VisitEntry, InDirectory
  <2>2. PICK c : c = [call[t] EXCEPT !.todo = call[t].todo \ {entry}, !.visited = call[t].visited \cup new]
    BY Zenon
  <2>3. /\ c \in CallType /\ c.op = call[t].op /\ c.block = call[t].block /\ c.pc = call[t].pc /\ c.out = call[t].out
        /\ c.todo = call[t].todo \ {entry} /\ c.visited = call[t].visited \cup new
    BY <1>1, <2>1, <2>2 DEF CallType
  <2>4. call' = [call EXCEPT ![t] = c] /\ call'[t] = c
    BY <1>1, <2>1, <2>2, Zenon DEF Visit, TypeOK
  <2>5. CallFacts(t)'
    BY <1>1, <2>3, <2>4, IdleCall, Zenon DEF CallFacts, Out, BlockOps
  <2>6. \A b \in present[t] : b \in c.visited \/ PrefixOf[b] \in c.todo
    <3>1. ASSUME NEW b \in present[t], PrefixOf[b] = entry PROVE b \in new
      BY <1>3, <2>1, <3>1, Zenon DEF InDirectory, Exists
    <3>2. \A b \in present[t] : b \in call[t].visited \/ PrefixOf[b] \in call[t].todo
      BY <1>1, Zenon DEF EnumerationFacts, At
    <3> QED
      BY <2>3, <3>1, <3>2, Zenon
  <2>7. EnumerationFacts(t)'
    BY <1>1, <1>2, <1>3, <2>3, <2>4, <2>6, Zenon DEF EnumerationFacts, Exists, At, Out, InMemory
  <2> QED
    BY <1>1, <1>2, <2>3, <2>4, <2>5, <2>7, IdleCall, CallerStep, Zenon
<1>5. ASSUME NEW out \in {None, "directory_iterator throws"}, out = None => call[t].todo = {},
             call' = [call EXCEPT ![t].pc = "returned", ![t].out = out]
      PROVE  StoresInv'
  <2>1. PICK c : c = [call[t] EXCEPT !.pc = "returned", !.out = out]
    BY Zenon
  <2>2. /\ c \in CallType /\ c.op = call[t].op /\ c.block = call[t].block /\ c.pc = "returned" /\ c.out = out
        /\ c.visited = call[t].visited
    BY <1>1, <2>1 DEF CallType
  <2>3. call' = [call EXCEPT ![t] = c] /\ call'[t] = c
    BY <1>1, <1>5, <2>1, Zenon DEF TypeOK
  <2>4. CallFacts(t)'
    BY <1>1, <2>2, <2>3, IdleCall, Zenon DEF CallFacts, Out, BlockOps
  <2>5. out # "directory_iterator throws" => present[t] \subseteq call[t].visited
    BY <1>1, <1>5, Zenon DEF EnumerationFacts, At
  <2>6. EnumerationFacts(t)'
    BY <1>1, <1>2, <1>3, <2>2, <2>3, <2>5, Zenon DEF EnumerationFacts, Exists, At, Out, InMemory
  <2> QED
    BY <1>1, <1>2, <2>2, <2>3, <2>4, <2>6, IdleCall, CallerStep, Zenon
<1>6. CASE Return(t, "directory_iterator throws")
  BY <1>5, <1>6, IdleCall, Zenon DEF Return, StoresAssumption
<1>7. CASE call[t].todo = {} /\ Goto(t, "returned")
  <2>1. PICK c : c = [call[t] EXCEPT !.pc = "returned"] /\ c = [call[t] EXCEPT !.pc = "returned", !.out = None]
    BY <1>1 DEF CallType
  <2>2. call' = [call EXCEPT ![t] = c]
    BY <1>1, <1>7, <2>1, Zenon DEF Goto, TypeOK
  <2>3. call' = [call EXCEPT ![t].pc = "returned", ![t].out = None]
    BY <1>1, <2>1, <2>2, Zenon DEF TypeOK
  <2> QED
    BY <1>5, <1>7, <2>3, Zenon
<1> QED
  BY <1>4, <1>6, <1>7, Zenon DEF IterateEntry

----------------------------------------------------------------------------
\* The process dies: files being written stay cut, the threads are gone.
LEMMA CrashKeeps ==
    ASSUME StoresAssumption, StoresInv, Crash
    PROVE  StoresInv'
<1>w. PICK writing : writing = {call[t].block : t \in {x \in Threads : call[x].pc = "write"}}
  BY Zenon
<1>1. PICK part \in Parts \ {"all"} :
         files' = [b \in Blocks |-> IF b \in writing THEN [files[b] EXCEPT !.part = part] ELSE files[b]]
  BY <1>w, Zenon DEF Crash
<1>2. /\ TypeOK /\ UNCHANGED <<backend, cipher, dirs, kept>> /\ call' = [t \in Threads |-> Idle]
      /\ present' = [t \in Threads |-> {}]
  BY Zenon DEF StoresInv, Crash
<1>3. \A b \in writing : kept[b] = "cut"
  BY <1>w, Zenon DEF StoresInv, CallFacts
<1>4. ASSUME NEW b \in Blocks
      PROVE  /\ files'[b] \in FileType /\ BlockFacts(b)'
  <2>1. BlockFacts(b) /\ files[b] \in FileType
    BY <1>2, Zenon DEF StoresInv, TypeOK
  <2>2. CASE b \notin writing
    <3>1. files'[b] = files[b]
      BY <1>1, <2>2, Zenon
    <3> QED
      BY <1>2, <2>1, <3>1, Zenon DEF BlockFacts, Exists, InMemory
  <2>3. CASE b \in writing
    <3>1. files'[b] = [files[b] EXCEPT !.part = part]
      BY <1>1, <2>3, Zenon
    <3>2. files'[b] \in FileType /\ files'[b].part = part
      BY <2>1, <3>1 DEF FileType
    <3>3. files'[b] # NoFile
      BY <3>2, NoFileIsAFile DEF Parts
    <3>4. files[b] # NoFile /\ kept[b] = "cut" /\ kept[b] # None /\ kept[b] \notin Contents
      BY <1>3, <2>1, <2>3, Zenon DEF BlockFacts, StoresAssumption
    <3> QED
      BY <1>2, <2>1, <3>2, <3>3, <3>4, Zenon DEF BlockFacts, Exists, InMemory
  <2> QED
    BY <2>2, <2>3, Zenon
<1>5. ASSUME NEW t \in Threads PROVE call'[t] = Idle /\ CallFacts(t)' /\ EnumerationFacts(t)'
  BY <1>2, IdleFacts, Zenon
<1>6. TypeOK'
  <2>1. files' \in [Blocks -> FileType]
    BY <1>1, <1>4, Zenon
  <2>2. call' \in [Threads -> CallType] /\ present' \in [Threads -> SUBSET Blocks]
    BY <1>2, IdleCall, Zenon
  <2> QED
    BY <1>2, <2>1, <2>2, Zenon DEF TypeOK
<1>7. OneCallPerBlock'
  BY <1>5, IdleCall, Zenon DEF OneCallPerBlock
<1> QED
  BY <1>4, <1>5, <1>6, <1>7, Zenon DEF StoresInv

LEMMA InitInv ==
    ASSUME StoresAssumption, StoresInit
    PROVE  StoresInv
<1>1. PICK format \in {"FORMAT_VERSION_HEADER", "FORMAT_VERSION_HEADER_OLD"} :
         files = [b \in Blocks |-> IF kept[b] = None THEN NoFile ELSE File(format, kept[b], "all")]
  BY Zenon DEF StoresInit
<1>2. /\ kept \in [Blocks -> {None} \cup Contents] /\ call = [t \in Threads |-> Idle] /\ present = [t \in Threads |-> {}]
      /\ dirs = {PrefixOf[b] : b \in {x \in Blocks : kept[x] # None}}
  BY Zenon DEF StoresInit
<1>3. ASSUME NEW b \in Blocks PROVE files[b] \in FileType /\ BlockFacts(b)
  <2>1. CASE kept[b] = None
    BY <1>1, <2>1, NoFileIsAFile, Zenon DEF BlockFacts, Exists, StoresAssumption
  <2>2. CASE kept[b] # None
    <3>1. kept[b] \in Contents /\ kept[b] # "cut"
      BY <1>2, <2>2, Zenon DEF StoresAssumption
    <3>2. files[b] = File(format, kept[b], "all")
      BY <1>1, <2>2, Zenon
    <3>3. files[b] \in FileType /\ files[b].part = "all" /\ files[b].val = kept[b]
      BY <3>1, <3>2 DEF File, FileType, Parts
    <3>4. files[b] # NoFile
      BY <3>3, NoFileIsAFile
    <3>5. PrefixOf[b] \in dirs
      BY <1>2, <2>2, Zenon
    <3> QED
      BY <2>2, <3>1, <3>3, <3>4, <3>5, Zenon DEF BlockFacts
  <2> QED
    BY <2>1, <2>2, Zenon
<1>4. ASSUME NEW t \in Threads PROVE call[t] = Idle /\ CallFacts(t) /\ EnumerationFacts(t)
  BY <1>2, IdleCall, Zenon DEF CallFacts, EnumerationFacts, Out, At, BlockOps
<1>5. TypeOK
  <2>1. files \in [Blocks -> FileType]
    BY <1>1, <1>3, Zenon
  <2>2. call \in [Threads -> CallType] /\ present \in [Threads -> SUBSET Blocks] /\ kept \in [Blocks -> Contents \cup {None, "cut"}]
    BY <1>2, IdleCall, Zenon
  <2>3. dirs \subseteq Prefixes
    <3>1. \A b \in Blocks : PrefixOf[b] \in Prefixes
      BY Zenon DEF StoresAssumption
    <3> QED
      BY <1>2, <3>1, Zenon
  <2>4. cipher \in {"AEAD_Cipher", "CFB_Cipher"}
    BY Zenon DEF StoresInit, StoresAssumption
  <2> QED
    BY <2>1, <2>2, <2>3, <2>4, Zenon DEF TypeOK
<1>6. OneCallPerBlock
  BY <1>4, IdleCall, Zenon DEF OneCallPerBlock
<1> QED
  BY <1>3, <1>4, <1>5, <1>6, Zenon DEF StoresInv

LEMMA NextInv ==
    ASSUME StoresAssumption, StoresInv, [StoresNext]_svars
    PROVE  StoresInv'
<1>1. CASE Crash
  BY <1>1, CrashKeeps, Zenon
<1>2. ASSUME NEW t \in Threads, Step(t) PROVE StoresInv'
  <2>1. CASE BeginStore(t) \/ BeginTryCreate(t) \/ BeginRemove(t) \/ BeginLoad(t)
    BY <2>1, BeginKeeps, Zenon DEF BeginStore, BeginTryCreate, BeginRemove, BeginLoad, BlockOps
  <2>2. CASE InMemoryCall(t) \/ CheckExists(t) \/ CreateDirectory(t) \/ OpenForWriting(t) \/ Write(t)
    BY <2>2, InMemoryCallKeeps, CheckExistsKeeps, CreateDirectoryKeeps, OpenForWritingKeeps, WriteKeeps, Zenon
  <2>3. CASE RemoveFile(t) \/ CheckIsEmpty(t) \/ RemoveDirectory(t) \/ Load(t)
    BY <2>3, RemoveFileKeeps, CheckIsEmptyKeeps, RemoveDirectoryKeeps, LoadKeeps, Zenon
  <2>4. CASE BeginForEachBlock(t) \/ IterateEntry(t) \/ Returned(t)
    BY <2>4, BeginForEachBlockKeeps, IterateEntryKeeps, ReturnedKeeps, Zenon
  <2> QED
    BY <1>2, <2>1, <2>2, <2>3, <2>4, Zenon DEF Step
<1>3. CASE UNCHANGED svars
  <2> USE <1>3 DEF svars, Exists, InMemory, At, Out
  <2>1. ASSUME NEW b \in Blocks PROVE BlockFacts(b)'
    BY Zenon DEF StoresInv, BlockFacts
  <2>2. ASSUME NEW t \in Threads PROVE EnumerationFacts(t)'
    BY Zenon DEF StoresInv, EnumerationFacts
  <2>3. ASSUME NEW t \in Threads PROVE CallFacts(t)'
    BY Zenon DEF StoresInv, CallFacts, LoadedLast
  <2> QED
    BY <2>1, <2>2, <2>3, Zenon DEF StoresInv, TypeOK, OneCallPerBlock
<1> QED
  BY <1>1, <1>2, <1>3, Zenon DEF StoresNext

----------------------------------------------------------------------------
LEMMA Invariance ==
    ASSUME StoresAssumption
    PROVE  StoresSpec => []StoresInv
<1>1. StoresInit => StoresInv
  BY InitInv, Zenon
<1>2. StoresInv /\ [StoresNext]_svars => StoresInv'
  BY NextInv, Zenon
<1> QED
  BY <1>1, <1>2, PTL DEF StoresSpec

\* EncryptedBlockStore2::load over OnDiskBlockStore2 or InMemoryBlockStore2 returns what the last store() to the block
\* left there, for any number of threads, blocks and crashes: never older or partial data, and no block
\* that was stored is missing.
THEOREM LoadsReturnTheLastStore ==
    ASSUME StoresAssumption
    PROVE  StoresSpec => []LoadReturnsTheLastStore
<1>1. StoresInv => LoadReturnsTheLastStore
  BY Zenon DEF StoresInv, CallFacts, LoadedLast, LoadReturnsTheLastStore
<1> QED
  BY <1>1, Invariance, PTL

\* OnDiskBlockStore2: whatever threads meet in a prefix directory that is created and removed under
\* them, a remove() that throws has removed its block, a store() that cannot open its file
\* has changed nothing, and forEachBlock() misses no block that was there all the time.
THEOREM DirectoryRacesAreHarmless ==
    ASSUME StoresAssumption
    PROVE  StoresSpec => []DirectoryRacesLoseNothing
<1>1. StoresInv => DirectoryRacesLoseNothing
  BY Zenon DEF StoresInv, CallFacts, EnumerationFacts, DirectoryRacesLoseNothing, EnumerationMissesNoBlock
<1> QED
  BY <1>1, Invariance, PTL

=============================================================================
