CONSTANTS
  Bits = 2
  Fields <- MCFields
  Methods <- MCMethods
  Callees <- MCCallees
  Overrides <- MCOverrides
  Junk = 99
SPECIFICATION Spec
INVARIANT TypeOK
PROPERTY ImplementsCil
CHECK_DEADLOCK FALSE
