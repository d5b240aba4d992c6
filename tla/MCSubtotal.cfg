SPECIFICATION Spec
CONSTANTS
    Unresolved = Unresolved
    Ledgers <- MCMixedOnly
    Phrases <- MCPhrases
    MaxPhrases = 4
    MaxSentences = 2
    Back = 32
    Ahead = 24
    RevisionBudget = 2
    FuzzyRevisionBudget = 1
INVARIANT
    SubtotalNamesTwoInvoices
CHECK_DEADLOCK FALSE
