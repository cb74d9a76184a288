SPECIFICATION FairSpec
CONSTANTS
    n1 = n1  n2 = n2
    k1 = k1  k2 = k2  k3 = k3
    None = None
    Nodes = {n1, n2}
    Tests = {k1, k2, k3}
CHECK_DEADLOCK FALSE
INVARIANTS
    BusyIsOwnTest
    CardTestIsAttended
PROPERTIES
    CardTestGoes
    BusyEnds
