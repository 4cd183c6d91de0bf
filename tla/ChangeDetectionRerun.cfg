SPECIFICATION ChangesSpec
CONSTANTS
    Runs = {r1, r2, r3}
    Repositories <- EmptyAndFull
    MaxCommits = 3
SYMMETRY Alike
INVARIANTS EveryRunKeepsItsEvidence
CHECK_DEADLOCK FALSE
