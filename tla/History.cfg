SPECIFICATION Spec
CONSTANTS
    Projectors = {p1, p2}
    Api = api
    Nobody = nobody
    MaxAttempt = 2
    MaxDeliveries = 2
    MaxClock = 2
    MaxSends = 4
    MaxFaults = 1
INVARIANTS HistoryIsSound
PROPERTIES TerminalIsFinal QueueDrains
CHECK_DEADLOCK FALSE
