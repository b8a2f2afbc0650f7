---------------------------- MODULE MCAssembler ----------------------------
(* Two labels, registers on both sides of every boundary of an encoding.   *)
EXTENDS Assembler

AllArch == {"arm", "thumb", "arm64", "x64", "ia32"}
Codes == {0, 1, 4, 5, 8, 12, 13, 15}
=============================================================================
