CONSTANTS
    e1 = e1
    e2 = e2
    e3 = e3
    k1 = k1
    k2 = k2
    l1 = l1
    l2 = l2
    Entities <- MCEntities
    KindOf <- MCKindOf
    NumKinds = 2
    MaxLinks = 3
    Keys = {k1, k2}
    Listeners = {l1, l2}
    LinkBound = 2
    MaxChanges = 3
SPECIFICATION MCSpec
SYMMETRY MCSymmetry
INVARIANTS
    NoLostDeclaration
    GhostOnlyByRace
    MatchingConverges
    ListenersCurrent
    HandlersEndWell
CHECK_DEADLOCK FALSE
