SPECIFICATION FairSpec
CONSTANTS
  Base = 1000
  MaxHooks = 2
  t1 = t1
  t2 = t2
  Thread = {t1, t2}
  Main = t1
  Class = {1}
  Lib = {"dobby", "inline"}
  FileKind = {"addresses", "zeros"}
INVARIANT ReplacementReady
PROPERTY LoadedIsHooked
