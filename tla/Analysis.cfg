CONSTANTS
    None = None
    WordChars = 300
    StructFixed = 1500
    FullFixed = 2700
    CompactFixed = 1200
    InsightsFixed = 1900
    FullFacts = 500
    BriefFacts = 200
    RowCost = 150
    Taxonomies <- MCTaxonomies
    Documents <- MCDocuments
    Windows = {4096, 8192}
    Readings <- MCReadings
    Verdicts <- MCVerdicts
    Corrections <- MCCorrections
    Boards <- MCBoards
SPECIFICATION Spec
INVARIANTS
    VerdictHonest
    OwnWordsOnly
    RestsOnWhatWasSent
    LetterFollowsRecord
PROPERTY
    Ends
