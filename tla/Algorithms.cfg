SPECIFICATION MCSpec
CONSTANTS
    k1 = k1
    k2 = k2
    Keys <- MCKeys
    NoKey = err
    MaxTs = 3
    MaxArrived = 5
    Batches <- MCBatches
    Integers8 = {0, 1, 3, 4, 7, 8, 9, 10, 11, 15, 16, 17, 31, 32, 63, 64, 100, 126, 127}
    Literals = {"a", "b"}
    Joinable <- MCJoinable
    MaxChunks <- MCMaxChunks
    MaxKey = 5
    Documents <- MCDocuments
    Insertions <- MCInsertions
INVARIANTS
    Consolidates
    SentIsReceived
    KeySets
    DocumentMeans
CHECK_DEADLOCK FALSE
