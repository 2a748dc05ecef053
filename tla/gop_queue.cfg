SPECIFICATION Spec
CONSTANTS
  Settings <- MCSettings
  Infinite = 1000
INVARIANTS
  OutputIsInput
  CarryIsChained
  StoreBounded
PROPERTY QueueEnds
\* The program ends; that it ends and does not hang is QueueEnds.
CHECK_DEADLOCK FALSE
