SPECIFICATION FairSpec
CONSTANTS
    None = None
    Malformed = Malformed
    UnknownTask = UnknownTask
    MaxCalls = 3
    MaxSessions = 1
    MaxFaults = 1
    Tasks = {task}
INVARIANTS
    LooksLocal
    FailStop
PROPERTIES
    CallsEnd
CHECK_DEADLOCK FALSE
