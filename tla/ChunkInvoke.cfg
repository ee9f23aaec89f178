SPECIFICATION ChunkSpec
CONSTANTS
  Pools = {254, 256, 65999}
  PoolMax = 66000
  JumpMax = 12
  CodeMax = 3
  NameMax = 1
  Line = {1, 2}
  Ops = {"NIL", "GET_GLOBAL", "GET_LOCAL", "SET_UPVAL", "JMP"}
  Slots = {1, 257}
  Counts = {2}
  CapturedMax = 1
INVARIANT InvokesName
