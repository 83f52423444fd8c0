SPECIFICATION EndpointSpec
CONSTANTS
    None = None
    Malformed = Malformed
    MaxCalls = 4
    MaxFaults = 1
    MaxSessions = 2
    Tasks = {task}
INVARIANTS
    TurnsInOrder
CHECK_DEADLOCK FALSE
