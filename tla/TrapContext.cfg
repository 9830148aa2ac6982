CONSTANTS
  Versions <- MCVersions
  MaxTraps = 2
  MaxTimers = 1
SPECIFICATION Spec
INVARIANTS
  KernelEntered
  MTrapTransparent
  ContextPreserved
