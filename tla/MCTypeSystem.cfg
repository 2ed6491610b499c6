CONSTANT Programs <- MCPrograms
SPECIFICATION Spec
INVARIANTS
  TypeOK
  OneTypePerTerm
  VirtualCallsDispatch
  InterfaceCallsDispatch
  LayoutAsDeclared
  CastsAgree
CHECK_DEADLOCK FALSE
