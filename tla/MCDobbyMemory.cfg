CONSTANTS
  Thread = {t1, t2}
  Arch = {"arm", "arm64", "x64", "ia32"}
  PageSize = 20
  Pages = 4
  Text = {2}
  Lows <- MCLows
  Data = {0}
  Zeros <- MCZeros
  Start <- MCStart
  Instrumented = {"f2"}
  Close = {"f3"}
  Paged = {"f1", "f3"}
  Unaligned = {"f2"}
  Reach = 50
  NormalSize = 3
  NearSize = 1
  ForwardSize = 4
  RelocSize = 5
  ClosureSize = 2
  BridgeSize = 3
  MaxHooked = 0
SPECIFICATION Spec
SYMMETRY MCSymmetry
ACTION_CONSTRAINT InstrumentedAlone
INVARIANTS
  HookIntact
  OnlyItsOwnBytes
  FaultNeedsCause
CHECK_DEADLOCK FALSE
