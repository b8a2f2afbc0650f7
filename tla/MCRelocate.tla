---------------------------- MODULE MCRelocate ----------------------------
(* Instances of Relocate: which instructions a function may begin with.    *)
EXTENDS Relocate

I(type, cond, rd, rm, imm) ==
  [type |-> type, cond |-> cond, rd |-> rd, rm |-> rm, imm |-> imm]
Op0(type) == I(type, FALSE, 0, 0, 0)

(* One of each kind whose block is meant to do what the instruction does.  *)
ThumbKinds ==
  {Op0("UNDEFINE16"), Op0("UNDEFINE32"),
   I("B1_THUMB16", TRUE, 0, 0, -20), I("CB_THUMB16", TRUE, 0, 0, 40),
   I("B2_THUMB16", FALSE, 0, 0, 40), I("ADD_THUMB16", FALSE, 7, 0, 0),
   I("ADD_THUMB16", FALSE, 9, 0, 0), I("MOV_THUMB16", FALSE, 3, 0, 0),
   I("LDR_THUMB16", FALSE, 7, 0, 5), I("BLX_THUMB32", FALSE, 0, 0, 400),
   I("LDR_THUMB32", FALSE, 8, 0, -16), I("LDR_THUMB32", FALSE, PC, 0, 24)}
ArmKinds ==
  {Op0("UNDEFINE_ARM"), I("UNDEFINE_ARM", TRUE, 0, 0, 0),
   I("BLX_ARM", FALSE, 0, 0, 402), I("BL_ARM", FALSE, 0, 0, -400),
   I("B_ARM", FALSE, 0, 0, 80), I("BX_ARM", FALSE, 0, 0, 0),
   I("ADD_ARM", FALSE, 12, 11, 0), I("ADD_ARM", TRUE, 3, 12, 0),
   I("ADR1_ARM", FALSE, 4, 0, 60), I("ADR2_ARM", FALSE, 4, 0, 60),
   I("LDR_ARM", FALSE, 5, 0, -32), I("LDR_ARM", FALSE, PC, 0, -4),
   I("MOV_ARM", FALSE, 14, 0, 0)}

(* Prologues with one kind whose block does something else: each violates  *)
(* MeaningKept when it takes the place of ArmKinds or ThumbKinds.          *)
ArmConditional == {Op0("UNDEFINE_ARM"), I("B_ARM", TRUE, 0, 0, 80)}
ThumbCall == {Op0("UNDEFINE16"), I("BL_THUMB32", FALSE, 0, 0, 400)}
ThumbIf == {Op0("UNDEFINE16"), Op0("IT")}
ThumbAdr == {Op0("UNDEFINE16"), I("ADR_THUMB16", FALSE, 2, 0, 3)}
ThumbTable == {Op0("UNDEFINE32"), I("TBB_THUMB32", FALSE, 0, 1, 0)}
ThumbPlain == {Op0("UNDEFINE16"), Op0("UNDEFINE32")}
ArmPlain == {Op0("UNDEFINE_ARM")}
=============================================================================
