CONSTANTS
  N = 5
  IntHex = 1
  LongHex = 2
  Char <- MCChar
  Formats <- MCFormats
  Args <- MCArgs
  Stale <- MCStale
SPECIFICATION Spec
INVARIANT
  PanicShowsArguments
