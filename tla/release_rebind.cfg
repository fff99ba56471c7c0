SPECIFICATION RebindSpec
CONSTANTS
  Functions <- MCFunctions
  Names = {"x"}
  Params = {"x"}
  Borrowers = {"view", "mut_view", "method_view"}
  WidenCap = 1
  IterFactor = 8
  Trees <- MCTrees
  TreeParams = {"p"}
  Globals = {"g", "h"}
  CyclicClasses = {"C"}
  ArcClasses = {}
  MaxSteps = 40
  Classes <- MCClasses
  Modules <- MCRebind
  Threads = {t1, t2}
  StrongRefs = {r1, r2, r3}
  WeakRefs = {w1, w2}
  None = None
INVARIANT ReleasesAreSound
CHECK_DEADLOCK FALSE
