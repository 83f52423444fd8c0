SPECIFICATION FairSpec
CONSTANTS
    None = None
    Malformed = Malformed
    Tasks = {task}
    MaxMessage = 2
    MaxCalls = 4
    MaxSessions = 2
    MaxFaults = 1
INVARIANTS
    TurnsInOrder
    FailStop
PROPERTIES
    CallsEnd
CHECK_DEADLOCK FALSE
