SPECIFICATION Spec
CONSTANTS
    w1 = w1
    w2 = w2
    Workers = {w1, w2}
    Nobody = Nobody
    NotSaved = NotSaved
    MaxDeliveries = 2
    GiveUpAt = 2
    MaxFaults = 2
SYMMETRY WorkerSymmetry
INVARIANTS ReportsAreTrue AppliedAtMostOnce
CHECK_DEADLOCK FALSE
