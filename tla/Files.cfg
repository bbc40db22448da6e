SPECIFICATION FairSpec
CONSTANTS
    None = None
    MaxId = 2
    Procs = {p1, p2}
    Threads = {t1, t2}
    Contents = {a, b}
    Faults = {"insert", "commit", "read", "unlink"}
    MaxDeletes = 1
    MaxCrashes = 1
    MaxFaults = 1
INVARIANTS
    OneRowPerContent
PROPERTIES
    NeverRewritten
    LiveHasFile
    LeftoversGo
\* The bounds let the processes end up with nothing left to do.
CHECK_DEADLOCK FALSE
