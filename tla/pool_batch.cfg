SPECIFICATION FairSpec
CONSTANTS
    w1 = w1  w2 = w2  s1 = s1  s2 = s2
    g1 = g1  g2 = g2  g3 = g3  g4 = g4
    None = None
    Workers = {w1, w2}
    Submitters = {s1, s2}
    Ctxs = {g1, g2, g3, g4}
    Calls <- BatchCalls
    Kind <- BatchKind
    NRows <- BatchRows
    NCols <- BatchCols
    Gated = {g4}
    Prio = {}
    Oom = {g4}
    MaxJobs = 1
    BatchMax = 2
    CvStride = 1
    CvSlots = 2
    MaxRows = 2
\* The pool stops when every call has returned and it is destroyed.
CHECK_DEADLOCK FALSE
PROPERTIES EverythingEnds
