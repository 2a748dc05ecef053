SPECIFICATION FairSpec
CONSTANT
    Settings <- MCSettings
INVARIANTS
    NoPushLost
    NalsInCodingOrder
    SizesAreOwn
    SizedExactlyOnce
PROPERTIES
    OneLedgerWriter
    ExactBuffer
    FlushEnds
