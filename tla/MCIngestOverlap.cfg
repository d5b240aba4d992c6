SPECIFICATION Spec
CONSTANTS
    ClassCap = 2
    Fixtures <- MCFixtures
    Decisions <- MCDecisions
    MaxLines = 4
    MaxRuns = 3
    ReviewOverlaps = TRUE
    TornWrites = FALSE
CHECK_DEADLOCK FALSE
INVARIANT
    ConsumedIsLearned
