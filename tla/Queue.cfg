SPECIFICATION FairSpec
CONSTANTS
    Jobs = {j1}
    Workers = {w1, w2}
    Api = api
    NoJob = none
    MaxAttempts = 2
    MaxFaults = 2
    MaxApiRestarts = 1
INVARIANTS QueueIsConsistent RolledOutAtMostOnce
PROPERTIES KeepsContract VerifiedStaysRunning EveryJobSettles EveryReleaseEnds
