SPECIFICATION FairSpec
CONSTANTS
    BlockIds = {b1, b2}
    Values = {v1}
    MaxEntries = 1
    Purgers = {p1}
    PromptInsert = FALSE
    NoBlock = NoBlock
    Thrown = Thrown
PROPERTY RemovedBlockIsGone
