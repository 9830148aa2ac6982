CONSTANTS
  Calls <- MCCalls
  OutChars <- MCOutChars
  Input <- MCInput
  MaxOps = 5
SPECIFICATION FairSpec
CHECK_DEADLOCK FALSE
INVARIANTS
  RepliesExpected
  AnswerMatches
  CharsInOrder
PROPERTIES
  ImplementsHostCall
  SyscallReturns
  MachineStops
