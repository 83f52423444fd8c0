SPECIFICATION Spec
CONSTANTS
    None = None
    NaN = NaN
    Blank = Blank
    Tasks <- AllTasks
    Courses = {"anyone", "teacher", "bounded", "negative", "curriculum"}
    Curricula <- AllCurricula
    Decisions <- AnyDecision
    Grants = {2, 6}
    MaxFaults = 1
INVARIANTS
    GuessingIsNotAdmitted
    NoEvidenceIsLost
    CreditIsExact
    TrainedLearnerSolves
    SearchesSucceed
    ChainTellsHistory
    PromotionIsEarned
PROPERTIES
    EvaluationIsReadOnly
    CourseAdvances
