SPECIFICATION FairSpec
CONSTANT
    Settings <- MCSettings
INVARIANTS
    BuffersKept
    ReadsCovered
    GatesOwn
PROPERTY
    RingEnds
\* An encode comes to its end: RingEnds says where it may stop.
CHECK_DEADLOCK FALSE
