CONSTANTS
  TIMER_INTERVAL = 3
  MaxTime = 7
  UserPCs <- MCUserPCs
  MaxDepth = 1
  Faults <- MCOneEach
SPECIFICATION Spec
PROPERTY
  EveryTickRecorded
