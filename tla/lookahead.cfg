\* A ring of eleven, the smallest that gives the prefetch something to price at
\* two B pictures, and two and a half turns of it.
SPECIFICATION FairSpec
CONSTANTS
    N = 26
    BFrames = 2
    LaDepth = 10
    LaBuf = 1
    Period = 11
    Kinds <- MCKinds
    None = None
\* A closed encoder stops.
CHECK_DEADLOCK FALSE
INVARIANTS
    PlanesAreOwn
    PopIsFinal
    SettledWhenRead
    PrefetchIsWalk
PROPERTY
    CallsReturn
