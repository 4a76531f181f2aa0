SPECIFICATION BlobsSpec
CONSTANTS
    BlockIds = {b1, b2}
    Values = {v1, v2}
    MaxEntries = 1
    Purgers = {p1}
    PromptInsert = TRUE
    NoBlock = NoBlock
    Thrown = Thrown
    None = None
INVARIANTS CacheIsExact TreeIsTheBlob
PROPERTIES LeftAloneIsWrittenBack ImplementsBlockStore
