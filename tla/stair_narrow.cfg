SPECIFICATION Spec
CONSTANT
    Settings <- NarrowStreams
INVARIANT
    BuffersKept
\* An encode comes to its end.
CHECK_DEADLOCK FALSE
