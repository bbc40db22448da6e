SPECIFICATION RoutingSpec
CONSTANTS
    None = None
    DefaultWindow = 1
    RAWS <- MCRaws
    TEXTS <- MCTexts
    CONFIDENCES <- MCConfidences
    PartOf <- MCPartOf
    Filler = "filler"
    Within = 1
    MIN_SCORE = 5500
    MIN_MARGIN = 1800
    MIN_CONFIDENCE = 5000
    FLOOR = 3000
    REVIEW = 7000
    MaxEdits = 2
INVARIANTS
    NoDeadRule
    VerdictIsEarned
\* A file that does not load, never edited again, leaves the server down.
CHECK_DEADLOCK FALSE
