SPECIFICATION Spec
CONSTANTS
  Thread <- Threads
  Lib = {"dobby", "inline"}
  Text <- Texts
  MapFile <- Files
  Stop = {0, 8}
  Split = 8
  UnhookAt = 2
  MaxCalls = 2
CHECK_DEADLOCK FALSE
INVARIANTS
  TypeOK
  ReplacedAsMapped
  LengthAgrees
  FreedNeedsOverlap
  OwnLinesInOrder
