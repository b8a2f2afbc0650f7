SPECIFICATION Spec
CONSTANTS
  Arch <- AllArch
  Label = {"l1", "l2"}
  Registers <- Codes
  MaxItems = 6
CHECK_DEADLOCK FALSE
INVARIANTS
  ReferencesFound
  EncodedAsAsked
  BufferHolds
