CONSTANTS
  Cases <- MCCases
  Base = 131072
SPECIFICATION Spec
INVARIANTS
  DobbyMeaningKept
  LengthAsManual
PROPERTY RelocationEnds
CHECK_DEADLOCK FALSE
