SPECIFICATION Spec
CONSTANTS
    p1 = p1
    p2 = p2
    NoProc = NoProc
    Ids <- MCIds
    Procs <- MCTwoProcs
    Reqs = {r1}
    MaxInterruptions = 3
    MaxTries = 0
    Faults = {"settle", "claim", "boot"}
    MaxCalls = 1
    MaxStops = 1
    MaxCrashes = 1
    MaxFaults = 2
SYMMETRY Symmetry
INVARIANTS
    OneWorker
    NoLeakedClaim
    DoneMeansReadAgain
PROPERTIES
    NoStrandedRow
    TextIsKept
    QueuedLeavesByClaim
\* The bounds let every process end up down or idle with nothing left to do.
CHECK_DEADLOCK FALSE
