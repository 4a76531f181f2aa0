SPECIFICATION FsBlobSpec
CONSTANTS
    Threads = {t1, t2, t3}
    Keys = {1, 2}
    LateLoads = TRUE
    NoKey = NoKey
    NoThread = NoThread
INVARIANT RemoverIsLastUser
CHECK_DEADLOCK FALSE
