SPECIFICATION Spec
CONSTANTS
    MaxRevisions = 1
    LabelsReused = TRUE
    MaxPasses = 2
    MaxReviews = 2
    MaxDecisions = 2
CHECK_DEADLOCK FALSE
INVARIANT
    DecidedWasGated
