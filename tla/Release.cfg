SPECIFICATION Spec
CONSTANTS
    Requests = {q1, q2}
    Deliveries = {d1, d2}
    Configurations <- SomeConfigurations
    MaxCommits = 2
    MaxReleases = 2
    MaxChanges = 1
SYMMETRY Symmetry
INVARIANTS OneReleasePerCause ServesWhatWasApproved
CHECK_DEADLOCK FALSE
