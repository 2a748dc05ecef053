SPECIFICATION Spec
CONSTANTS
  Settings <- CarrySettings
  Infinite = 1000
INVARIANT CarryIsFixed
\* The program ends.
CHECK_DEADLOCK FALSE
