SPECIFICATION FairSpec
CONSTANTS
    w1 = w1  w2 = w2
    Clients = {w1, w2}
    Cap = 2
    MaxTicks = 3
CHECK_DEADLOCK FALSE
INVARIANTS
    TypeOK
    NothingLostButOverflow
PROPERTIES
    FeedSpec
    ClosedIsForgotten
    QueuedIsWritten
