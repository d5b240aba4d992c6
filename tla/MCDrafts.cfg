SPECIFICATION Spec
CONSTANTS
    Unresolved = Unresolved
    Ledgers <- MCLedgers
    Phrases <- MCPhrases
    MaxPhrases = 4
    MaxSentences = 2
    Back = 32
    Ahead = 24
    RevisionBudget = 2
    FuzzyRevisionBudget = 1
INVARIANTS
    CaughtIsClaimed
    PassedFiguresAreBorneOut
    NoOpenInvoiceCalledPaid
    GoldenVerifiesClean
    CorruptionIsCaught
CHECK_DEADLOCK FALSE
