SPECIFICATION Spec
CONSTANTS
    None = None
    MonthOnly = MonthOnly
    DefaultWindow = 1
    Inside <- MCInside
    Astral = {"astral"}
    ExpiryRank <- MCRank
    Subjects = {"identity"}
    DateDays <- MCDays
    ExpiryKeys = {"wakala_expiry_date_hijri"}
    StateLabels <- MCStateLabels
    StateOf <- MCStates
    SOON_DAYS = 90
    SubjectWindow = 2
    DateWindow = 8
    RAW <- MCRaw
    DOCS <- MCParty
    SLIPS <- MCSlips
    VALUES <- MCValues
    HeadingPart <- MCHeadingPart
    INPUT_CAP = 21
    SPLIT_MIN = 2
    BATCH = 2
    RECORD_MAX_PASSES = 2
    REGISTRY_MAX_PASSES = 2
    EXPIRY_LINES = 4
    MAX_CHUNKS = 4
INVARIANT PartyDateIsNotOurs
