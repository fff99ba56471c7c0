SPECIFICATION MCFairSpec
CONSTANTS
  Senders = {s1, s2}
  Receivers = {r1}
  Values = {a, b}
  Capacity = 2
  Joiners = {j1, j2, j3}
  Ranges <- MCRanges
  Cores = {0, 2, 3, 4, 5}
  MaxThreads = 4
  SeqLimit = 2
  Caller = p1
  g_workers_count = 3
  Jobs <- MCJobs
  Kind <- MCKind
  Bounds <- MCBounds
  Nested <- MCNested
  Script <- MCScript
  NoJob = none
  CHUNKS_PER_WORKER = 1
  MAX_CHUNK = 2
  Waiters = {w1, w2}
  MAX_CONCURRENT_TIMERS = 1
  Delays = {0, 1}
  Regions = {1}
  MaxTimers = 2
  MaxTime = 1
  long = long
  short = short
  one = one
  both = both
  outer = outer
INVARIANTS
  ChannelInv
  ThreadSafety
PROPERTIES
  FifoSpec
  ThreadProgress
CHECK_DEADLOCK FALSE
