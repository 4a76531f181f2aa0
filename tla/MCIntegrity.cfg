SPECIFICATION SettingsSpec
CONSTANTS
    Clients = {c1, c2}
    BlockIds = {b1}
    VersionMax = 2
    AllowIntegrityViolations = FALSE
    MissingBlockIsIntegrityViolation = FALSE
    Faults = {"rollback", "crash", "ioerror"}
    NoBlock = NoBlock
    DeletedBlock = DeletedBlock
    Idle = Idle
    ExclusiveClient = d1
    ExclusiveBlocks = {e1, e2}
SYMMETRY Symmetry
INVARIANTS NoSupersededBlockReturned VersionsAreFresh ViolationMeansFault ExclusiveClientIsSafe
CHECK_DEADLOCK FALSE
