\* A slot for every child; bg, fg and a key.  The shell may
\* end, hence no deadlock check.
SPECIFICATION FairSpec
CONSTANTS
  MAXJOBS = 2
  Pid = {1, 2}
  BUILTINS = {"jobs", "bg", "fg"}
  BACKGROUND = {TRUE, FALSE}
  COMMANDS = 2
  KEYS = 1
  FORKFAILS = 0
INVARIANTS
  TypeOK
  Tracked
  NoStaleJob
  StopIsKnown
PROPERTIES
  ZombiesReaped
CHECK_DEADLOCK FALSE
