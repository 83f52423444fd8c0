SPECIFICATION Spec
CONSTANTS
    None = None
    NaN = NaN
    Blank = Blank
    Tasks <- AllTasks
    Decisions <- AllDecisions
    ResetBatches <- Reset
    StepBatches <- Steps
    Candidates = {c1, c2}
    MaxObservations = 1
    Peer = peer
    Context = context
    Key = key
    OtherKey = otherKey
    Claims = {none, isolated}
    MaxEpisodes = 2
    MaxFaults = 1
    MaxVerdicts = 2
CHECK_DEADLOCK FALSE
INVARIANTS
    LearningIsEarned
    GymFailureSurvivesClose
    TranscriptTellsEpisode
    NoSessionBeforeAttestation
    ChallengeVerifiesOnce
    RefusalKeepsChallenge
    TrainingReceiptExact
