SPECIFICATION FairSpec
CONSTANTS
    None = None
    NaN = NaN
    Blank = Blank
    Tasks <- BudgetTasks
    Decisions <- BudgetDecisions
    ResetBatches <- BudgetReset
    StepBatches <- BudgetSteps
    Candidates = {c1}
    MaxObservations = 3
CHECK_DEADLOCK FALSE
INVARIANTS
    TypeOK
    WorkStaysInBudget
    HonestLedgerAccepted
    LearningGate
    SessionReleased
PROPERTIES
    PrimaryFailureSurvives
    KeepsPromise
    EpisodeEnds
