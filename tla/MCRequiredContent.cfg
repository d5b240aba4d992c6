SPECIFICATION Spec
CONSTANTS
    Unresolved = Unresolved
    Ledgers <- MCLedgers
    Drafts <- MCDrafts
    Configs <- MCConfigs
    RevisionBudget <- MCRevisionBudget
    FuzzyRevisionBudget <- MCFuzzyRevisionBudget
    MaxRevisions <- MCMaxRevisions
CHECK_DEADLOCK FALSE
INVARIANT RequiredContentPresent
