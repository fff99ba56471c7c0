SPECIFICATION Spec
CONSTANTS
  Posix = FALSE
  FIBER_MAX = 2
  TIMER_MAX = 2
  NATVAR_IO_MAX = 0
  NATVAR_MUTEX_MAX = 0
  WAITERS_MAX = 0
  Sockets = {}
  Delays = {}
  Timeouts = {}
  MaxTime = 0
INVARIANTS
  JoinersResume
