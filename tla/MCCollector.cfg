SPECIFICATION Spec
CONSTANTS
  a1 = a1  a2 = a2  a3 = a3
  s1 = s1  s2 = s2
  NULL = NULL
  Objs = {a1, a2, a3}
  Slots = {s1, s2}
  HoldRefs = {"object", "finalizable"}
  Targets = {"object", "undeletable"}
  Suppressed = {"object", "finalizable"}
SYMMETRY Symmetry
CONSTRAINT NoOrphans
INVARIANTS
  TypeOK
  NoDanglingReference
  QueueAgrees
  FinalizedAtMostOnce
  WeakRefsAgree
PROPERTY CollectsGarbage
