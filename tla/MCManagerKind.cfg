SPECIFICATION Spec
CONSTANTS
    i1 = i1
    c1 = c1  c2 = c2
    d1 = d1
    s1 = s1
    tk = tk
    r1 = r1  r2 = r2  r3 = r3
    None = None
    Ids = {i1}
    Connects = {c1, c2}
    Initial = {c1}
    InitialId = i1
    Disconnects = {d1}
    Snapshots = {s1}
    Ticker = tk
    RingNames = {r1, r2, r3}
    BodyKinds = {""}
    SeenKinds = {"logical"}
SYMMETRY RingSymmetry
CHECK_DEADLOCK FALSE
INVARIANTS
    ClusterKindInjected
