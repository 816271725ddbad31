SPECIFICATION Spec
CONSTANTS
    Lower = a
    Higher = b
    Links = {l1, l2}
    loop = loop
    hello = hello
    Dialers = {loop, hello}
    Owner <- MCOwner
    Setups <- MCSetups
    Closers = {b}
    None = None
INVARIANTS
    RegistryExact
PROPERTIES
    PeersConverge
    PeerCloseReturns
CHECK_DEADLOCK FALSE
