SPECIFICATION Spec
CONSTANTS
  armLoad = armLoad
  armTail = armTail
  armCall = armCall
  thumbOdd = thumbOdd
  thumb16 = thumb16
  NoFn = NoFn
  NoPage = NoPage
  Target = {armTail, thumbOdd}
  Executable = {armTail, thumbOdd}
  WantsProto = {armTail, thumbOdd}
  Thread = {w1, w2}
  Page = {p1, p2}
  MaxItems = 2
  MaxCount = 4
  OrigOffs <- mcOrigOffs
  TrampOffs <- mcTrampOffs
  TrampMid <- mcTrampMid
  CallOffs <- mcCallOffs
  TrampCalls <- mcTrampCalls
  TrampEnd <- mcTrampEnd
  Resume <- mcResume
  PatchLen <- mcPatchLen
SYMMETRY PageThreadSymmetry
CONSTRAINT Undisturbed
INVARIANTS
  FaultNeedsDisturbance
PROPERTIES
  MoveKeepsProgress
CHECK_DEADLOCK FALSE
