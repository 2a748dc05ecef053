SPECIFICATION BgFairSpec
CONSTANT NTasks = 20
\* The owner may stop submitting, and everything stops after a destroy.
CHECK_DEADLOCK FALSE
INVARIANTS RunsInOrder SyncedMeansRan NoLostWakeup
PROPERTIES EveryWaitEnds
