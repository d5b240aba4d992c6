SPECIFICATION FairSpec
CONSTANTS
    Cases <- MCCases
    Calls <- MCCalls
    NoDoc = "-"
    MaxRounds = 2
    MaxCallsPerRound = 2
    MaxStepCalls = 3
    MaxTotalToolCalls = 5
CHECK_DEADLOCK FALSE
INVARIANTS
    TypeOK
    BudgetsHold
    AnsweredOnce
    DraftsAreInformed
    GivesUpOnlyAtCeiling
    CoverageFitsBudget
PROPERTIES
    Returns
