SPECIFICATION Spec
CONSTANTS
    MaxRevisions = 1
    LabelsReused = FALSE
    MaxPasses = 1
    MaxReviews = 3
    MaxDecisions = 2
CHECK_DEADLOCK FALSE
INVARIANTS
    TypeOK
    DecidedWasGated
    StoredTextReverified
    ReapplyDecidesNothingTwice
    NothingGatedIsLost
