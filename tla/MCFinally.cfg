SPECIFICATION Spec
CONSTANTS
  Programs <- MCFinallyPrograms
  IsDerived <- MCIsDerived
  Main = "main"
  MaxLog = 30
CHECK_DEADLOCK FALSE
INVARIANT FinallyClausesRun
