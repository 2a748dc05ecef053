SPECIFICATION Spec
CONSTANTS
    w1 = w1  w2 = w2  s1 = s1  s2 = s2
    g1 = g1  g2 = g2  g3 = g3  g4 = g4
    None = None
    Workers = {w1, w2}
    Submitters = {s1, s2}
    Ctxs = {g1, g2, g3}
    Calls <- ReuseCalls
    Kind <- ReuseKind
    NRows <- ReuseRows
    NCols <- ReuseCols
    Gated = {g2}
    Prio = {g3}
    Oom = {}
    MaxJobs = 2
    BatchMax = 1
    CvStride = 1
    CvSlots = 2
    MaxRows = 2
\* The pool stops when every call has returned and it is destroyed.
CHECK_DEADLOCK FALSE
SYMMETRY Symmetry
INVARIANTS JobsAreSound NoLostWake
PROPERTIES ImplementsWavefront
