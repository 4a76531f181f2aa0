\* The calls, sessions and clocks of the model are bounded and end.
SPECIFICATION Spec
CONSTANTS
    Owners = {o1}
    OtherThreads = {x}
    MaxCatchers = 2
    None = None
    Clients = {c}
    Main = main
    Task = task
    Generator = generator
    Requests = {1, 2}
    MinSize = 2
    MaxSize = 3
    NoThread = NoThread
    Invocations <- MCInvocations
    PipeSize = 1
    BufferSize = 4
    Callers = {k1, k2}
    Timeout = 2
    MaxTime = 5
    Objects = {m1, m2}
    Refs = {r1, r2}
    Ptrs = {p}
    Eithers = {e1, e2}
    Datas = {d1, d2}
    Castable = {m1}
    MaxDataSize = 1
    Null = Null
INVARIANTS
    RegistryIsNotReadWhileWritten
    OwnSignalFindsALivingCatcher
    RandomBytesAreUsedOnce
    EveryObjectHasOneOwner
PROPERTIES
    
    SubprocessCallsEnd
    UnmountedOnlyWhenIdle
CHECK_DEADLOCK FALSE
