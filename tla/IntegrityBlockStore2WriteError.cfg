SPECIFICATION Spec
CONSTANTS
    Clients = {c1}
    BlockIds = {b1}
    VersionMax = 3
    AllowIntegrityViolations = FALSE
    MissingBlockIsIntegrityViolation = FALSE
    Faults = {"ioerror"}
    NoBlock = NoBlock
    DeletedBlock = DeletedBlock
    Idle = Idle
INVARIANTS ViolationMeansRollback
CHECK_DEADLOCK FALSE
