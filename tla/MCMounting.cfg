\* a program ends, and the crashes and replacements are bounded
SPECIFICATION MountingSpec
CONSTANTS
    Machines = {m1, m2}
    FsIds = {f1, f2}
    ClientIds = {c1, c2}
    Roots = {n1}
    Passwords = {"p"}
    MaxCrashes = 1
    MaxReplaced = 1
    None = None
SYMMETRY Symmetry
INVARIANTS ChangesNeedConsent  UserIsObeyed
PROPERTIES  ClientIdIsKept StatsReportLeakedBlocks
CHECK_DEADLOCK FALSE
