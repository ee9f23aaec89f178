SPECIFICATION Spec
CONSTANTS
  StackMax = 6
  FrameMax = 3
  Lines = 2
  Data = {d}
  Script = Script
  A = A
  B = B
  am = am
  binit = binit
  bm = bm
  fun = fun
  Function = {am, binit, bm, fun}
  Native = {clock}
  Class = {A, B}
  Instance = {i1}
  initName = initName
  m = m
  Name = {initName, m}
  Global = {g}
  Arity <- Arities
  Owner <- Owners
  Declares <- Bodies
  Extends <- Subclass
  Initializer = initName
  Absent = Absent
  Strays = {"super"}
  MaxOperands = 2
  MaxStored = 1
CONSTRAINTS FewOperands NotFull FewStored
INVARIANTS StackMatchesCode ReceiverFits MethodsNearest
PROPERTIES ConstructorsYield PrivateActivations
