CONSTANTS
    s1 = s1
    s2 = s2
    Senders <- MCSenders
    QCap = 2
    NLanes = 2
    ReplyLane = 2
    MaxPuts = 1
    MaxKeepalives = 1
    MaxQueries = 0
SPECIFICATION Spec
SYMMETRY SendersSymmetry
INVARIANTS
    WireInOrder
    DrainFlushes
PROPERTIES
    ImplementsContract
CHECK_DEADLOCK FALSE
