\* Two creators, a mover and a walker; the cache can overflow, and lookups end all
\* the same.  Threads end or hang: no deadlock check.
SPECIFICATION FairSpec
CONSTANTS
  t1 = t1
  t2 = t2
  t3 = t3
  t4 = t4
  u1 = u1
  u2 = u2
  head = head
  NULL = NULL
  Thread = {t1, t2, t3, t4}
  Uri = {u1, u2}
  ObjectSize = {1}
  MAX_CACHE_SIZE = 2
  MAX_OBJECT_SIZE = 1
PROPERTIES
  LookupsEnd
  WorkEnds
CHECK_DEADLOCK FALSE
