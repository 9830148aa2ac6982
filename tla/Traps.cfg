CONSTANTS
  TIMER_INTERVAL = 3
  MaxTime = 7
  UserPCs <- MCUserPCs
  MaxDepth = 1
  Faults <- MCOneEach
SPECIFICATION FairSpec
INVARIANTS
  TypeOK
  TrapEntrySafe
  NoSelfDeadlock
  TicksNotInvented
  TimerPaced
  BootHandsOver
  NoSupervisorNoKernel
PROPERTIES
  ResumesAtTrapPoint
  ImplementsAppView
  TickRecorded
  TrapCompletes
