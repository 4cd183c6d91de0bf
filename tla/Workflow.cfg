SPECIFICATION Spec
CONSTANTS
    near = near
    twin = twin
    far = far
    east = east
    west = west
    p1 = p1
    p2 = p2
    Planners = {q1}
    Approvers = {a1}
    Targets = {near, far, twin}
    NoTarget = none
    RegionOf <- Region
    HostingOf <- Hosting
    Unplanned = unplanned
    DefaultRegion = east
    MaxEdits = 1
    MaxConnects = 3
    MaxChanges = 3
    MaxEvidence = 2
    MaxDeliveries = 2
    MaxFaults = 1
INVARIANTS ApprovalsAreSound ProofIsExact
SYMMETRY Alike
CHECK_DEADLOCK FALSE
