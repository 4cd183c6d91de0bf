SPECIFICATION FairSpec
CONSTANTS
    Configurations <- EveryMode
    Sources <- SomeSources
    MaxFaults = 1
INVARIANTS RunIsConsistent RolloutIsAuthorised
PROPERTIES HistoryIsImmutable StartedRunSettles FollowsTheQueue
CHECK_DEADLOCK FALSE
