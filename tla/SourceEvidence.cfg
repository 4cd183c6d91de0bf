SPECIFICATION EvidenceSpec
CONSTANTS
    Runs = {r1, r2, r3}
    Repositories <- EmptyAndFull
    MaxCommits = 3
    Trees <- MCTrees
    MaxCommands = 3
    MaxOutages = 2
    Problems = {x1, x2}
    MaxReported = 3
    MaxFindings = 2
SYMMETRY Alike
INVARIANTS ReuseIsSound RelevantChangesAreSeen VerdictsAreComplete ContainersAreRemoved WorstDecides
CHECK_DEADLOCK FALSE
