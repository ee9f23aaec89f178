SPECIFICATION MCSpec
CONSTANTS
  StackMax = 7
  FrameMax = 3
  Lines = 2
  Upval = {u1, u2, u3, u4, u5}
  NoUpval = NoUpval
  VarId = {v1, v2, v3, v4, v5}
  Temp = Temp
  Callee = Callee
  Data = {d}
  Script = Script
  Unbound = Unbound
  fa = fa
  fb = fb
  fc = fc
  fd = fd
  fe = fe
  ff = ff
  fg = fg
  fh = fh
  Programs = {"nested", "sibling", "prompt"}
  Fn <- Functions
  Encl <- Enclosed
  Arity <- Arities
  Upvals <- Captures
VIEW View
CONSTRAINT Within
INVARIANTS TypeOK OpenSorted OpenIffListed OpenLive OneCell ClosuresComplete
PROPERTIES LexicalScoping ClosedForGood
