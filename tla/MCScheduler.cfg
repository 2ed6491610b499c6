SPECIFICATION Spec
CONSTANTS
  t1 = t1  t2 = t2  t3 = t3
  o1 = o1  o2 = o2
  w1 = w1
  Threads = {t1, t2, t3}
  Objects = {o1, o2}
  WeakRefs = {w1}
  NULL = NULL
  CountMod = 8
  MaxDepth = 2
  Main = t1
  Programs <- MCPrograms
  Slice = 2
  TimeMod = 32
  MaxElapsed = 3
CHECK_DEADLOCK FALSE
INVARIANTS
  TypeOK
  NoThreadLost
  AllBlockedOnReturn
  LocksHeldInOwnName
