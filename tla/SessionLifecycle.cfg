CONSTANTS
    c1 = c1
    c2 = c2
    Closers <- MCClosers
    MaxRuntimes = 4
SPECIFICATION FairSpec
INVARIANTS
    OneLiveRuntime
    DoneMeansQuiet
PROPERTIES
    NoRuntimeAfterClosed
    ReconnectCompletes
    CloseReturnsUnlessRacingInstall
CHECK_DEADLOCK FALSE
