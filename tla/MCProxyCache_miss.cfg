\* cache_get after a hit of cache_check.
SPECIFICATION Spec
CONSTANTS
  t1 = t1
  t2 = t2
  t3 = t3
  t4 = t4
  u1 = u1
  u2 = u2
  head = head
  NULL = NULL
  Thread = {t1, t2, t3, t4}
  Uri = {u1, u2}
  ObjectSize = {1}
  MAX_CACHE_SIZE = 4
  MAX_OBJECT_SIZE = 1
SYMMETRY Symmetry
INVARIANTS
  HitIsFound
CHECK_DEADLOCK FALSE
