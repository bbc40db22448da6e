SPECIFICATION FairSpec
CONSTANTS
    Worker = Worker
    Batch = Batch
    None = None
    Proofreads = {p1}
    Insights = {i1}
    Switchers = {s1}
    Faults = {"slow", "kill"}
    MaxCrashes = 1
PROPERTIES
    SharedSpec
    FreedAfterUse
