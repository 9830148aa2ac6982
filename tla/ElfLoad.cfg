CONSTANTS
  Wrap = 16
  MAX_ERRNO = 2
  MAX_USER_SYMS = 2
  MAX_USER_STRTAB = 2
  SymWords = 3
  ElfFiles <- MCFiles
  CommandLines <- MCCommandLines
SPECIFICATION Spec
INVARIANTS
  SegmentsInPlace
  NoPartialLoad
  SymbolsExact
  OpensApplication
