CONSTANTS
  Versions <- MCVersions
  MaxTraps = 2
  MaxTimers = 1
SPECIFICATION Spec
INVARIANT
  ContextAlwaysPreserved
