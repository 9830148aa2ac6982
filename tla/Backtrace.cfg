CONSTANTS
  Wrap = 161
  USER_STACK = 12
  Symtab <- MCSymtab
  Words <- MCWords
  StackTops <- MCSps
  Depths <- MCDepths
  Functions <- MCFunctions
  MaxCalls = 2
  FrameSizes <- MCSizes
  MaxDamage = 2
  Damage <- MCDamage
SPECIFICATION ChainSpec
INVARIANTS
  TypeOK
  ReadsInStack
  CountExact
  PrintsCallers
PROPERTIES
  Terminates
