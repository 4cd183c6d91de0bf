SPECIFICATION RecordsSpec
CONSTANTS
    Users = {u1, u2}
    Founder = u1
    Requests = {q1, q2}
    Nobody = nobody
    MaxInvitations = 2
    Collectors = {c1, c2}
    OwnerRequests = {q1, q2}
    Window = 2
    SampleLimit = 3
    MaxTime = 2
    MaxIncidents = 2
    MaxAttempts = 1
    ConnectRequests = {q1, q2}
    FallbackSecret = 2
    MaxAsks = 3
SYMMETRY Alike
INVARIANTS MembershipIsSound IncidentsAreSound VerifiedIsUsable
PROPERTIES ClosedStaysClosed
CHECK_DEADLOCK FALSE
