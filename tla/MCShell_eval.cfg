\* Three children, two slots, no fg.  The shell may
\* end, hence no deadlock check.
SPECIFICATION Spec
CONSTANTS
  MAXJOBS = 2
  Pid = {1, 2, 3}
  BUILTINS = {}
  BACKGROUND = {TRUE, FALSE}
  COMMANDS = 0
  KEYS = 2
  FORKFAILS = 1
INVARIANTS
  ForegroundAwaited
PROPERTIES
  KeysHitForeground
CHECK_DEADLOCK FALSE
