SPECIFICATION FairSpec
CONSTANTS
    None = None
    t1 = t1
    t2 = t2
    Threads <- MCThreads
    Unified <- MCUnified
    Legacy <- MCLegacy
    Words <- MCWords
    Endpoints <- MCEndpoints
    UnifiedOf <- MCUnifiedOf
    Forms <- MCForms
    Replies <- MCReplies
    Env = "production"
    TTL = 1
    ListTTL = 2
    Size = 2
    MaxNow = 2
    MaxAsks = 2
INVARIANTS CountIsRight 
PROPERTIES CachesHold SlotComesBack
CHECK_DEADLOCK FALSE
