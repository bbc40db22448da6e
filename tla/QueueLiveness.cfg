SPECIFICATION FairSpec
CONSTANTS
    p1 = p1
    p2 = p2
    NoProc = NoProc
    Ids <- MCIds
    Procs <- MCOneProc
    Reqs = {r1}
    MaxInterruptions = 3
    MaxTries = 1
    Faults = {"settle"}
    MaxCalls = 1
    MaxStops = 0
    MaxCrashes = 3
    MaxFaults = 3
INVARIANT
    GivesUpInTime
PROPERTY
    EveryComplaintSettles
\* The bounds let every process end up down or idle with nothing left to do.
CHECK_DEADLOCK FALSE
