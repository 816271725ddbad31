CONSTANTS
    c1 = c1
    c2 = c2
    Closers <- MCClosers
    MaxRuntimes = 3
SPECIFICATION FairSpec
PROPERTIES
    CloseReturns
CHECK_DEADLOCK FALSE
