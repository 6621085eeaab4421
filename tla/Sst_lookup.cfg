SPECIFICATION FairSpec
CONSTANTS
    small = small
    large = large
    NotFound = NotFound
    Keys <- MCKeys
    Payloads <- MCPayloads
    Bytes <- MCBytes
    RestartIntervals = {1, 2, 3}
    BlockSizes = {1, 50, 110}
    NumHashes = 2
    NumBits <- MCNumBits
    Hash1 <- MCHash1
    Hash2 <- MCHash2
    Word <- MCWord
CHECK_DEADLOCK FALSE
INVARIANTS
    LookupIsExact
    ScanDeliversAll
    WrittenFileVerifies
PROPERTIES
    LookupEnds
