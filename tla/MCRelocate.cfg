SPECIFICATION Spec
CONSTANTS
  ThumbInsn <- ThumbKinds
  ArmInsn <- ArmKinds
  MaxSpecial = 2
INVARIANTS
  TypeOK
  TablesPair
  BlocksAligned
  ResumeSafe
  MeaningKept
