SPECIFICATION Spec
CONSTANTS
  Entries = {1, 2, 3, 4, 5, 6, 7, 8, 9}
  Stride = 3
  Size = 1
INVARIANTS
  TypeOK
  SearchIsExact
  Balanced
  SweepVisitsAll
