-------------------------- MODULE MCClosureBridge --------------------------
(* All four architectures, with sp wherever the model lets it be.          *)
EXTENDS ClosureBridge

AllArch == {"arm", "arm64", "x64", "ia32"}
AllBases == {s \in 800..992 : s % 8 = 0}
=============================================================================
