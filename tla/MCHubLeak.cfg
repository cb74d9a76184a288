SPECIFICATION FairSpec
CONSTANTS
    w1 = w1  w2 = w2
    Clients = {w1}
    Cap = 1
    MaxTicks = 2
CHECK_DEADLOCK FALSE
PROPERTIES
    ClosedIsCleanedUp
