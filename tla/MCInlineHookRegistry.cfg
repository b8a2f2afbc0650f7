SPECIFICATION Spec
CONSTANTS
  armLoad = armLoad
  armTail = armTail
  armCall = armCall
  thumbOdd = thumbOdd
  thumb16 = thumb16
  NoFn = NoFn
  NoPage = NoPage
  Target = {armLoad, armTail, armCall}
  Executable = {armLoad, armTail, armCall}
  WantsProto = {armLoad, armCall}
  Thread = {}
  Page = {p1, p2}
  MaxItems = 2
  MaxCount = 4
  OrigOffs <- mcOrigOffs
  TrampOffs <- mcTrampOffs
  TrampMid <- mcTrampMid
  CallOffs <- mcCallOffs
  TrampCalls <- mcTrampCalls
  TrampEnd <- mcTrampEnd
  Resume <- mcResume
  PatchLen <- mcPatchLen
SYMMETRY PageSymmetry
INVARIANTS
  TypeOK
  OneItemPerTarget
  PatchMatchesStatus
  SavedBytesAreOriginal
  TrampolinesOwned
  StaleOnlyWhenMoved
  ProtoLive
  FirstUseIsExact
PROPERTY Implements
CHECK_DEADLOCK FALSE
