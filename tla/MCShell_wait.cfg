\* The foreground wait.  The shell may
\* end, hence no deadlock check.
SPECIFICATION FairSpec
CONSTANTS
  MAXJOBS = 2
  Pid = {1, 2}
  BUILTINS = {}
  BACKGROUND = {FALSE}
  COMMANDS = 0
  KEYS = 0
  FORKFAILS = 0
PROPERTIES
  WaitEnds
CHECK_DEADLOCK FALSE
