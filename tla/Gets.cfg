CONSTANTS
    g1 = g1
    Calls = {g1}
    Options <- MCOptions
    Buffer = 1
    MaxReplies = 3
    MaxLinks = 2
SPECIFICATION FairSpec
INVARIANTS
    NoSendOnClosed
    RepliesAccounted
PROPERTIES
    GetsEnd
CHECK_DEADLOCK FALSE
