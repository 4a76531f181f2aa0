------------------------------ MODULE MCBlocks ------------------------------
(***************************************************************************)
(* Blocks and files: block objects over the cache (LowToHighLevelBlock),   *)
(* the base stores with their encryption (BlockStores), compressed blocks  *)
(* (CompressingBlockStore) and the formats of everything that is saved     *)
(* (Formats).  A behaviour is one of these.                                *)
(***************************************************************************)
EXTENDS LowToHighLevelBlock, BlockStores, MCDocuments, TLC

CONSTANT NoClient

VARIABLES
    component,
    compressed, object, data,
    doc, file, beyond, phase, loaded

\* blocks that share one prefix directory, the case in which calls for different blocks meet
MCPrefixOf == [b \in Blocks |-> "AAA"]

ASSUME BlocksAssumption == StoresAssumption

Compressing == INSTANCE CompressingBlockStore WITH
    Blocks <- {"block"}, Bytes <- {0, 1}, MaxSize <- 7, MaxRun <- 7,
    _blocks <- compressed, content <- data

\* bytes are 0..4, integers and block ids have two of them
Files == INSTANCE Formats WITH
    Base <- 5, Width <- 2, IdLength <- 2, InnerConfigSize <- 8, OuterConfigSize <- 20, MaxRun <- 7,
    AEADCiphers <- MCAEADCiphers, CFBCiphers <- MCCFBCiphers, DefaultBlocksize <- 1,
    Documents <- AllDocuments(5, NoClient)

compressingVars == <<compressed, object, data>>
filesVars == <<doc, file, beyond, phase, loaded>>
allVars == <<component, vars, svars, compressingVars, filesVars>>

Empty == [b \in BlockIds |-> NoBlock]

BlocksInit ==
    /\ component \in {"objects", "stores", "compressing", "files"}
    /\ component # "objects" => base = Empty
    /\ component # "stores" => backend = "ondisk" /\ cipher = "AEAD_Cipher" /\ kept = [b \in BlockIds |-> None]
    /\ component # "files" => doc = FirstDocument /\ beyond = 0
    /\ Init /\ StoresInit /\ Compressing!CompressingInit /\ Files!FormatsInit

Only(name) == component = name /\ UNCHANGED component

BlocksNext ==
    \/ Only("objects") /\ Next /\ UNCHANGED <<svars, compressingVars, filesVars>>
    \/ Only("stores") /\ StoresNext /\ UNCHANGED <<vars, compressingVars, filesVars>>
    \/ Only("compressing") /\ Compressing!CompressingNext /\ UNCHANGED <<vars, svars, filesVars>>
    \/ Only("files") /\ Files!FormatsNext /\ UNCHANGED <<vars, svars, compressingVars>>

BlocksSpec == BlocksInit /\ [][BlocksNext]_allVars

Symmetry == Permutations(Threads) \cup Permutations(BlockIds) \cup Permutations(Values)

\* A compressed block has the data its users gave it (CompressingBlockStore, CompressedBlock).
CompressedDataIsTheData == Compressing!CompressedDataIsTheData

\* A file that was saved completely loads as it was saved, and one that the process died on is
\* refused (Serializer, Deserializer, Data::StoreToFile, CryConfigEncryptor, DirEntryList).
SavedFilesLoadOrAreRefused == Files!SavedFilesLoadOrAreRefused
=============================================================================
