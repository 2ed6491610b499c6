CONSTANTS
  first = first
  small = small
  wide = wide
  ctor = ctor
  final = final
  Methods <- MCMethods
  Main = first
  MaxStack <- MCMaxStack
  Params <- MCParams
  Locals <- MCLocals
  ReturnType <- MCReturnType
  Returns <- MCReturns
  Literals <- MCLiterals
  Calls <- MCCalls
  TailCalls <- MCTailCalls
  Constructors = {ctor}
  Finalizers = {final}
  Catching = {small}
  Allocating = {wide}
  Objects = {2}
  Values = {1, 2}
  HeaderSize = 1
  ChunkSize = 13
SPECIFICATION Spec
INVARIANTS
  TypeOK
  FramesAdjoin
PROPERTY ImplementsCallFrames
CHECK_DEADLOCK FALSE
