SPECIFICATION Spec
CONSTANTS
  armLoad = armLoad
  armTail = armTail
  armCall = armCall
  thumbOdd = thumbOdd
  thumb16 = thumb16
  NoFn = NoFn
  NoPage = NoPage
  Target = {armLoad, armCall}
  Executable = {armLoad, armCall}
  WantsProto = {armLoad, armCall}
  Thread = {w1}
  Page = {p1}
  MaxItems = 1
  MaxCount = 4
  OrigOffs <- mcOrigOffs
  TrampOffs <- mcTrampOffs
  TrampMid <- mcTrampMid
  CallOffs <- mcCallOffs
  TrampCalls <- mcTrampCalls
  TrampEnd <- mcTrampEnd
  Resume <- mcResume
  PatchLen <- mcPatchLen
INVARIANTS
  BoundariesAsDocumented
CHECK_DEADLOCK FALSE
