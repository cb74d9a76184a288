SPECIFICATION FairSpec
CONSTANTS
    tk = tk  q1 = q1  q2 = q2
    Requests = {q1, q2}
    Ticker = tk
    MaxConns = 2
    MaxDiffs = 1
    Queries = 2
CHECK_DEADLOCK FALSE
INVARIANTS
    PermitsBalance
    ClosedIsQuiet
PROPERTIES
    EndsOrWedges
    GoneRequestEnds
