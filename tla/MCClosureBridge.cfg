SPECIFICATION Spec
CONSTANTS
  Arch <- AllArch
  Bases <- AllBases
INVARIANTS
  HandlerSeesTruth
  ResumesFaithfully
  StackUntouched
