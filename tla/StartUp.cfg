SPECIFICATION StartUpSpec
CONSTANTS
    Processes = {p1, p2}
    Requests = {q1, q2}
    Nobody = nobody
    Production = TRUE
    MaxFaults = 2
    Values = {a}
    Kinds = {TRUE}
    Absent = absent
    MaxRows = 1
    MaxRefusals = 1
INVARIANTS SchemaIsSound SecretIsKept
PROPERTIES EveryProcessIsReady
CHECK_DEADLOCK FALSE
