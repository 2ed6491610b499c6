CONSTANTS
  a = a
  b = b
  s = s
  r = r
  k = k
  NULL = NULL
  Threads = {a, b, s, r, k}
  Programs <- MCLargeSend
  Keyboard <- NoKeys
  SendBuffer = 2
  BufferSize = 4
  MaxRefusals = 1
SPECIFICATION Spec
INVARIANT AllDataSent
CHECK_DEADLOCK FALSE
