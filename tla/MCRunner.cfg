SPECIFICATION FairSpec
CONSTANTS
    Unresolved = Unresolved
    Ledgers <- MCLedgers
    Drafts <- MCDrafts
    Configs <- MCConfigs
    RevisionBudget <- MCRevisionBudget
    FuzzyRevisionBudget <- MCFuzzyRevisionBudget
    MaxRevisions <- MCMaxRevisions
CHECK_DEADLOCK FALSE
INVARIANTS
    TypeOK
    NeverOverruns
    OneOutcome
    LogReadsAsJudgedDrafts
    CorrectionDelivered
    NothingSlipsPast
    HumanGateTruthful
    WrittenDraftComplete
PROPERTIES
    Terminates
    ImplementsContract
