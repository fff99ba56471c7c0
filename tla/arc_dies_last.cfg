SPECIFICATION Spec
CONSTANTS
  Threads = {t1, t2}
  StrongRefs = {r1, r2}
  WeakRefs = {w1, w2}
  None = None
INVARIANTS
  AllocationDiesLast
CHECK_DEADLOCK FALSE
