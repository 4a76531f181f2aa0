SPECIFICATION Spec
CONSTANTS
    BlockIds = {root, b1, b2, b3}
    RootBlobId = root
    Names = {n1, n2}
    MaxOpens = 1
    MaxCalls = 1
    OverwriteNonEmptyDirs = TRUE
    None = None
INVARIANTS TreeIsWhole
