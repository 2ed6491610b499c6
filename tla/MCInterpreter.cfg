SPECIFICATION FairSpec
CONSTANTS
  Programs <- MCPrograms
  IsDerived <- MCIsDerived
  Main = "main"
  MaxLog = 30
CHECK_DEADLOCK FALSE
INVARIANTS
  TypeOK
  AsSpecified
PROPERTY Ends
