SPECIFICATION Spec
CONSTANTS
  Base = 1000
  MaxHooks = 6
  t1 = t1
  t2 = t2
  Thread = {t1, t2}
  Main = t1
  Class = {1, 2}
  Lib = {"dobby", "inline"}
  FileKind = {"addresses", "zeros", "getOnly", "noBar"}
CONSTRAINT Undisturbed
INVARIANTS
  TypeOK
  WildHookNeedsDisturbance
  OneClassHooked
