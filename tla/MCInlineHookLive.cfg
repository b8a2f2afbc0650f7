SPECIFICATION FairSpec
CONSTANTS
  armLoad = armLoad
  armTail = armTail
  armCall = armCall
  thumbOdd = thumbOdd
  thumb16 = thumb16
  NoFn = NoFn
  NoPage = NoPage
  Target = {armCall, armLoad}
  Executable = {armCall}
  WantsProto = {armCall}
  Thread = {w1}
  Page = {p1}
  MaxItems = 1
  MaxCount = 4
  OrigOffs <- mcOrigOffs
  TrampOffs <- mcTrampOffs
  TrampMid <- mcTrampMid
  CallOffs <- mcCallOffs
  TrampCalls <- mcTrampCalls
  TrampEnd <- mcTrampEnd
  Resume <- mcResume
  PatchLen <- mcPatchLen
PROPERTIES
  HookCompletes
  CallCompletes
CHECK_DEADLOCK FALSE
