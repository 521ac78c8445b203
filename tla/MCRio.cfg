\* Streams of up to four bytes, any of them newlines, through a buffer of two.
\* The program stops at the end of file: no deadlock check.
SPECIFICATION FairSpec
CONSTANTS
  LENGTH = 4
  RIO_BUFSIZE = 2
  Call <- MCCall
INVARIANTS
  PassedOn
PROPERTIES
  CallsReturn
  ImplementsStream
CHECK_DEADLOCK FALSE
