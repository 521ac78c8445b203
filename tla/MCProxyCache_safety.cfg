\* Four connections; the cache can overflow.  Threads end or hang: no deadlock check.
SPECIFICATION Spec
CONSTANTS
  t1 = t1
  t2 = t2
  t3 = t3
  t4 = t4
  u1 = u1
  u2 = u2
  head = head
  NULL = NULL
  Thread = {t1, t2, t3, t4}
  Uri = {u1, u2}
  ObjectSize = {1, 2}
  MAX_CACHE_SIZE = 4
  MAX_OBJECT_SIZE = 2
SYMMETRY Symmetry
INVARIANTS
  TypeOK
  LinksAgree
  TotalsRight
  WithinMaxCacheSize
  WalkersSeeWholeBlocks
PROPERTIES
  ImplementsLRUList
CHECK_DEADLOCK FALSE
