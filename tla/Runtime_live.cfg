CONSTANTS
    s1 = s1
    s2 = s2
    Senders <- OneSender
    QCap = 1
    NLanes = 2
    ReplyLane = 2
    MaxPuts = 1
    MaxKeepalives = 0
    MaxQueries = 1
SPECIFICATION FairSpec
PROPERTIES
    StopReachesDone
    PutReturns
CHECK_DEADLOCK FALSE
