SPECIFICATION Spec
CONSTANTS
    ClassCap = 1
    Pool <- MCPool
    Commands <- MCCommands
    Learned <- MCLearned
    Known = 2
    ExemplarCount = 1
    MaxPasses = 2
CHECK_DEADLOCK FALSE
INVARIANTS
    TablesTellOneRun
    AblationDrawsFromRecorded
