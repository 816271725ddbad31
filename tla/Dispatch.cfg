CONSTANTS
    router = router
    peerA = peerA
    peerB = peerB
    s1 = s1
    na = na
    nb = nb
    q1 = q1
    q2 = q2
    Nodes <- MCNodes
    Qbls <- MCQbls
    NodeOf <- MCNodeOf
    MaxGets <- MCMaxGets
    QCap = 1
    Buffer = 1
    MaxReplies = 1
    Faces = {router}
    PeerMode = FALSE
    ExprIds = {1, 2}
    TokenIds = {0}
    Suffixes = {"a", "b"}
    Subs = {s1}
    Handlers = {"closure", "fifo", "ring"}
    Capacity = 1
    MaxSends = 3
    MaxInFlight = 1
    MaxLinks = 2
SPECIFICATION MCSpec
INVARIANTS
    RightKey
    NoSendOnClosedHandler
    RingKeepsNewest
    QueriesSound
    GetComplete
PROPERTIES
    DropReturns
    GetEnds
CHECK_DEADLOCK FALSE
