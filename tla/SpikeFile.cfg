CONSTANTS
  MAX_FILES = 6
  MAX_FDS = 6
  MaxOpens = 5
SPECIFICATION Spec
CHECK_DEADLOCK FALSE
INVARIANTS
  ReachableAlive
  StderrStays
