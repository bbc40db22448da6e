SPECIFICATION ReviewSpec
CONSTANTS
    k1 = k1
    k2 = k2
    v1 = v1
    v2 = v2
    c1 = c1
    c2 = c2
    Keys <- MCOneKey
    Values <- MCValues
    Again = {"empty_text"}
    Informational = {"outside_jurisdiction"}
    Categories <- MCCategories
    Priorities <- MCPriorities
    Analyses <- MCAnalyses
    Requests <- MCRequests
    Reviewers = {r1, r2}
    NoValue = NoValue
    NotGiven = NotGiven
    MaxRuns = 2
SYMMETRY Symmetry
INVARIANTS
    FlagIsRight
    ConsistentUnlessSpoiled
PROPERTIES
    VerdictsOutliveAnalyses
    SettlingKeepsUnseen
