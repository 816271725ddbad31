CONSTANTS
    router = router
    peerA = peerA
    peerB = peerB
    s1 = s1
    na = na
    nb = nb
    q1 = q1
    q2 = q2
    Nodes <- MCNodes
    Qbls <- MCQbls
    NodeOf <- MCNodeOf
    MaxGets <- MCMaxGets
    QCap = 1
    Buffer = 1
    MaxReplies = 1
    Faces = {peerA, peerB}
    PeerMode = TRUE
    ExprIds = {}
    TokenIds = {1}
    Suffixes = {"a", "b"}
    Subs = {s1}
    Handlers = {"ring"}
    Capacity = 1
    MaxSends = 4
    MaxInFlight = 1
    MaxLinks = 1
SPECIFICATION MCSpec
INVARIANTS
    LivelinessReported
CHECK_DEADLOCK FALSE
