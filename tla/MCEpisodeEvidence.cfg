SPECIFICATION Spec
CONSTANTS
    None = None
    NaN = NaN
    Blank = Blank
    Tasks <- EvidenceTasks
    Decisions <- EvidenceDecisions
    ResetBatches <- EvidenceReset
    StepBatches <- EvidenceSteps
    Candidates = {c1}
    MaxObservations = 3
CHECK_DEADLOCK FALSE
INVARIANTS
    AdmissionIsSound
    CostOverrunWins
