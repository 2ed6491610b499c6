CONSTANTS
  a = a
  b = b
  s = s
  r = r
  k = k
  NULL = NULL
  Threads = {a, b, s, r, k}
  Programs <- MCPrograms
  Keyboard <- MCKeyboard
  SendBuffer = 4
  BufferSize = 4
  MaxRefusals = 1
SPECIFICATION Spec
INVARIANT TypeOK
PROPERTIES
  ImplementsBlocking
  AllReturn
CHECK_DEADLOCK FALSE
