SPECIFICATION FairSpec
CONSTANTS
    n1 = n1  n2 = n2
    k1 = k1  k2 = k2  k3 = k3
    c1 = c1  c2 = c2  c3 = c3
    None = None
    Nodes = {n1, n2}
    Calls = {k1, k2, k3}
    Clients = {c1, c2, c3}
CHECK_DEADLOCK FALSE
INVARIANTS
    BusyIsWaiting
    OneSocketPerClient
PROPERTIES
    LeftoverHadSocket
    SocketComesBack
    ConnectingEnds
