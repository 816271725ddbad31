SPECIFICATION Spec
CONSTANTS
    ZIDs = {1, 2}
    BatchSizes = {4, 6}
    Leases = {1}
    Resolutions <- MCResolutions
    FieldBits <- MCFieldBits
    Digest <- MCDigest
    Lanes <- MCLanes
    DataPriority = 5
    Overhead = 2
    HeaderSize = 1
    Sizes = {1, 5}
    MaxMessageSize = 15
    MaxMsgs = 3
    MaxFaults = 2
INVARIANTS
    HandshakeAgreement
    FitsReceiver
    SNsConsecutiveWithQoS
    BodiesGenuine
CHECK_DEADLOCK FALSE
