SPECIFICATION FairSpec
CONSTANTS
    None = None
    CLIENTS = {"one", "two"}
    DOCS <- MCDocs
    REQUESTS <- MCRequests
    ROWS <- MCRows
    MAX_LINES = 6
    CHUNK_LINES = 2
    ALL_PAIRS = 3
    FREE_PAIRS = 1
INVARIANTS
    OneAtATime
    StreamsEndWithAVerdict
    ReportIsHonest
PROPERTY
    RunsEnd
