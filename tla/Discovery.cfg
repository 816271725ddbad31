SPECIFICATION MCSpec
CONSTANTS
    Self = me
    Peers = {p, q}
    Addrs = {x, y}
    SelfAddr = z
    Lease = 1
    Gens = {1, 2, 3}
    MaxMoves = 3
    MaxLosses = 1
    MaxInFlight = 1
    None = None
    Scouter = me
    Nodes = {a, b}
    SendSockets = {s4}
    ListenSockets = {l4}
    Roles <- MCRoles
    Matching = {"peer", "router"}
    ChanSize = 1
    MaxHellos = 1
    NoReader = None
INVARIANTS
    Attributed
    ScoutSafe
PROPERTIES
    TableRepairs
    ScoutEnds
CHECK_DEADLOCK FALSE
