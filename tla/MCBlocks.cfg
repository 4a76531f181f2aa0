\* A document is saved and loaded once, after which the behaviours of Formats end.
SPECIFICATION BlocksSpec
CONSTANTS
    BlockIds = {b1, b2}
    Values = {v1, v2}
    MaxEntries = 1
    Purgers = {p1}
    PromptInsert = TRUE
    NoBlock = NoBlock
    Thrown = Thrown
    Threads = {t1, t2}
    Blocks = {b1, b2}
    Prefixes = {"AAA"}
    PrefixOf <- MCPrefixOf
    Backends = {"ondisk", "inmemory"}
    Ciphers = {"AEAD_Cipher", "CFB_Cipher"}
    Contents = {v1, v2}
    MaxCrashes = 1
    None = None
    NoClient = NoClient
SYMMETRY Symmetry
INVARIANTS BlockObjectsAreCurrent LoadReturnsTheLastStore DirectoryRacesLoseNothing CompressedDataIsTheData
PROPERTY SavedFilesLoadOrAreRefused
CHECK_DEADLOCK FALSE
