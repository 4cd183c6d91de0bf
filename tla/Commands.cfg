SPECIFICATION CommandsSpec
CONSTANTS
    Apis = {a1, a2}
    MaxCommands = 3
    BatchSize = 1
    Interval = 3
    MaxExponent = 2
    MaxCrashes = 1
    Callers = {c1, c2}
    Workers = {w1, w2}
    NoOne = noone
    Scans = {{f1}, {f1, f2}}
    Answers = {{f2}}
    NoAnswer = none
    MaxTries = 2
    MaxFailures = 2
INVARIANTS RepeatsAreCutOffs ShownIsStored
PROPERTIES EveryCommandIsSent QueuedAnalysisEnds
CHECK_DEADLOCK FALSE
