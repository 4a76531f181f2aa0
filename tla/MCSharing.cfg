\* In ParallelAccessStore a remove(key) may wait for ever, the race that LostRace describes.
SPECIFICATION SharingSpec
CONSTANTS
    Threads = {t1, t2, t3}
    Keys = {1, 2}
    LateLoads = FALSE
    NoKey = NoKey
    NoThread = NoThread
INVARIANTS OneResourceWhileUsed OneFsBlobPerKey RemoverIsLastUser
PROPERTY RemovesTerminate
CHECK_DEADLOCK FALSE
