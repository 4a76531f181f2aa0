SPECIFICATION FairSpec
CONSTANTS
    BlockIds = {root, b1, b2, b3}
    RootBlobId = root
    Names = {n1, n2}
    MaxOpens = 2
    MaxCalls = 1
    OverwriteNonEmptyDirs = FALSE
    None = None
INVARIANTS TreeIsWhole OpenFilesAreSafe
PROPERTIES NodesStayLinked  CallsTerminate
