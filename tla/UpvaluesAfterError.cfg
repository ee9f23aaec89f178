SPECIFICATION MCSpec
CONSTANTS
  StackMax = 4
  FrameMax = 2
  Lines = 2
  Upval = {u1, u2, u3}
  NoUpval = NoUpval
  VarId = {v1, v2, v3}
  Temp = Temp
  Callee = Callee
  Data = {d}
  Script = Script
  Unbound = Unbound
  fa = fa
  fb = fb
  fc = fc
  fd = fd
  fe = fe
  ff = ff
  fg = fg
  fh = fh
  Programs = {"prompt"}
  Fn <- Functions
  Encl <- Enclosed
  Arity <- Arities
  Upvals <- Captures
VIEW View
CONSTRAINT Within
INVARIANT RunningUpvaluesLive
