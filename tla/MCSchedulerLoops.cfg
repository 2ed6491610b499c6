SPECIFICATION FairSpec
CONSTANTS
  t1 = t1  t2 = t2  t3 = t3
  o1 = o1  o2 = o2
  w1 = w1
  Threads = {t1, t2, t3}
  Objects = {o1, o2}
  WeakRefs = {}
  NULL = NULL
  CountMod = 8
  MaxDepth = 2
  Main = t1
  Programs <- MCLoops
  Slice = 3
  TimeMod = 32
  MaxElapsed = 1
CHECK_DEADLOCK FALSE
PROPERTIES
  ReadyThreadRuns
  WaiterEnters
