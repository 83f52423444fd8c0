SPECIFICATION Spec
CONSTANTS
    None = None
    Observations = {o1}
    MaxEntries = 6
INVARIANTS
    VerifierDecidesEpisodeRecord
    AlterationDetected
CHECK_DEADLOCK FALSE
