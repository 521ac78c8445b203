\* The sizes of the assignment and others; lines of up to five lexemes and three
\* arguments; words at the edges; two sets of three lines and four blocks per set,
\* one more than fits; a heap that fills up.  The programs end: no deadlock check.
SPECIFICATION Spec
CONSTANTS
  Dimensions <- MCDimensions
  MAXARGS = 4
  Lexeme <- MCLexeme
  LEXEMES = 5
  Words <- MCWords
  Pairs <- MCPairs
  Shifts = {0, 1, 7, 8, 15, 16, 30, 31}
  s = 1
  E = 3
  b = 1
  ADDRESSES = 16
  RECORDS = 6
  CHUNKSIZE = 256
  LIMIT = 184
  SIZE_T = 4096
  WORD = 256
  Size = {0, 8, 30, 50}
  Count = {2}
INVARIANTS
  EnsuresTranspose
  FewerMisses
  ParsedAsWritten
  PuzzlesRight
  RoundsToNearestEven
  SimTypeOK
  RanksArePermutation
  NoDuplicateBlock
  HeapOK
  FreeListsOK
  LiveOK
PROPERTIES
  ImplementsLRU
  ImplementsAllocator
  GrowsOnlyWhenFull
CHECK_DEADLOCK FALSE
