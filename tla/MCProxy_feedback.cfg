\* A connect that fails.
\* Connections end: no deadlock check.
SPECIFICATION Spec
CONSTANTS
  c1 = c1
  c2 = c2
  c3 = c3
  Conn = {c1, c2, c3}
  Fd = {4, 5, 6, 7, 8, 9}
  LineLength = {1}
  LINES = 1
  MAX_OBJECT_SIZE = 2
  Faults = {"connect"}
SYMMETRY Symmetry
INVARIANTS
  FeedbackToClient
CHECK_DEADLOCK FALSE
