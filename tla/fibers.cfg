SPECIFICATION MCFairSpec
CONSTANTS
  Nodes = {0, 1, 2}
  Graphs <- AllGraphs
  Paths = {TRUE, FALSE}
  Regions = {1}
  MAX_CANCELLED_REGIONS = 1
  MaxCancels = 1
  Posix = FALSE
  FIBER_MAX = 3
  TIMER_MAX = 3
  NATVAR_IO_MAX = 2
  NATVAR_MUTEX_MAX = 1
  WAITERS_MAX = 2
  CHAN_MAX = 1
  Sockets = {s1}
  Delays = {1, 2}
  Timeouts = {0, 1}
  MaxTime = 2
  SendsTo <- MCSendsTo
  ReceivesFrom <- MCReceivesFrom
  MaxSends = 2
  NatVarFibers = 2
  ChanTime = 1
  Clients = {c1}
  Threads = {t1, t2, t3, t4}
  N = 2
  MaxSpawn = 2
  MaxStarts = 2
  MT_DONE_CAP = 4
INVARIANTS
  DepsRespected
  FiberSafety
  ScheduleSafety
PROPERTIES
  FiberProgress
CHECK_DEADLOCK FALSE
