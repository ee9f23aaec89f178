SPECIFICATION MCSpec
CONSTANTS
  Name = {a, b}
  FunctionMax = 3
  LocalMax = 3
  DepthMax = 3
  UpvalMax = 2
  DeclaredMax = 3
  MAX_CALLARGS = 3
  Sources <- ShortTexts
  LengthMod = 256
  Pools = {254, 256, 65999}
  PoolMax = 66000
  JumpMax = 12
  CodeMax = 3
  NameMax = 1
  Line = {1, 2}
  Ops = {"NIL", "GET_GLOBAL", "GET_LOCAL", "SET_UPVAL", "JMP"}
  Slots = {1, 257}
  Counts = {2}
  CapturedMax = 1
VIEW View
CONSTRAINT Few
INVARIANTS DescriptorsDenote CapturedOnce CapturedIffUsed LinesCounted ParsesExpressions FollowsSource StackMirrorsScopes OpenInScope CodeReadsBack LinesKept DisassemblerFollows
PROPERTIES TokensAreLexemes NamesMeanInnermost ParserAdvances ScannerFinishes
