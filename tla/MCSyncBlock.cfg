SPECIFICATION Spec
CONSTANTS
  Threads = {t1, t2}
  Objects = {o1, o2}
  WeakRefs = {w1, w2}
  NULL = NULL
  CountMod <- MCCountMod
  MaxDepth = 3
  ExitOnlyHeld = TRUE
INVARIANTS
  TypeOK
  MutualExclusion
  HeldBlockAgrees
  NoUselessBlock
  WeakListsMatchTargets
PROPERTY ImplementsMonitor
