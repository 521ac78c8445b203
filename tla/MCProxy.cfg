\* Every fault, and descriptors run out; responses of up to three lines, shorter,
\* as long as and longer than an object.
\* Connections end: no deadlock check.
SPECIFICATION FairSpec
CONSTANTS
  c1 = c1
  c2 = c2
  Conn = {c1, c2}
  Fd = {4, 5, 6}
  LineLength = {1, 2}
  LINES = 3
  MAX_OBJECT_SIZE = 3
  Faults = {"client", "port", "resolve", "connect", "server", "full"}
INVARIANTS
  TypeOK
  OwnDescriptors
  ClientsClosed
  ServersClosed
  ObjectFits
  SmallObjectsWhole
PROPERTIES
  ConnectionsEnd
CHECK_DEADLOCK FALSE
