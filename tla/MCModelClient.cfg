SPECIFICATION FairSpec
CONSTANTS
    Stump = Stump
    MaxAttempts = 3
    MaxLines = 8
    MaxRuns = 2
CHECK_DEADLOCK FALSE
INVARIANTS
    TypeOK
    OneTracePerAttempt
    DamageConfined
    RetryTellsWhy
    ResponseMatchesTraces
PROPERTIES
    Settles
