SPECIFICATION Spec
CONSTANTS
    ClassCap = 2
    Fixtures <- MCFixtures
    Decisions <- MCDecisions
    MaxLines = 4
    MaxRuns = 3
    ReviewOverlaps = FALSE
    TornWrites = TRUE
CHECK_DEADLOCK FALSE
INVARIANTS
    TypeOK
    MemoryIsNewest
    ConsumedIsLearned
    ReportMatchesLog
PROPERTIES
    OffsetNeverMovesBack
