\* The third store overflows the cache.  Threads end or hang: no deadlock check.
SPECIFICATION FairSpec
CONSTANTS
  t1 = t1
  t2 = t2
  t3 = t3
  u1 = u1
  u2 = u2
  head = head
  NULL = NULL
  Thread = {t1, t2, t3}
  Uri = {u1, u2}
  ObjectSize = {1}
  MAX_CACHE_SIZE = 2
  MAX_OBJECT_SIZE = 1
PROPERTIES
  OverflowEvicts
CHECK_DEADLOCK FALSE
