---------------------------- MODULE Arm64Rewrite ----------------------------
(***************************************************************************)
(* ARM64InstructionRelocation.cc: how Dobby rewrites one arm64             *)
(* instruction.  x17 is the scratch register.                              *)
(***************************************************************************)
EXTENDS Rewrite

(* What the instruction means where it was (external: the processor).      *)
Arm64Original(i, a, id) ==
  LET to == a + i.off
  IN  CASE i.op = "plain" -> Plain(4, id)
        [] i.op = "ldr_w" -> Item("load", 4, "rt", to)
        [] i.op = "ldr_x" -> Width("x", Item("load", 4, "rt", to))
        [] i.op \in {"ldr_d", "ldr_q", "ldrsw", "prfm"} -> Plain(4, id)
        [] i.op = "adr" -> Item("mov", 4, "rt", to)
        [] i.op = "adrp" -> Item("mov", 4, "rt", Floor(a, 4096) + i.off)
        [] i.op \in {"b", "bl"} -> Item(i.op, 4, "none", i.off)
        [] i.op \in {"tbz", "cbz", "b_cond"} -> If(TRUE, Item("b", 4, "none", i.off))

(* decode_imm14_offset, decode_imm19_offset, decode_imm26_offset,          *)
(* decode_immhi_immlo_offset: the field, extended by its sign.             *)
SignExtend(x, m) == IF x >= 2^(m - 1) THEN x - 2^m ELSE x
decode_offset(off, m) == SignExtend(off % 2^m, m)

Debug(items) == <<Nop(4)>> \o items \o <<Nop(4)>>
Mov(r, v) == Item("mov", 16, r, v)

(* ldr literal: always a load of 64 bits (LoadStore of module AsmArm64);   *)
(* the registers of SIMD are taken for general ones.                       *)
LdrLiteral(i, a) ==
  Debug(<<Mov("sc", a + decode_offset(i.off, 21)), Width("x", Deref("rt", 1))>>)
AdrAdrp(i, a) ==
  Debug(<<Mov("rt", IF i.op = "adr" THEN a + decode_offset(i.off, 21)
                    ELSE Floor(a, 4096) + decode_offset(i.off \div 4096, 21) * 4096)>>)
BranchImm(i, a) ==
  Debug(<<Ldl("sc", a + decode_offset(i.off, 28)),
          Item(IF i.op = "bl" THEN "blr" ELSE "br", 4, "none", 0)>>)
(* tbz, cbz, b.cond: the opposite branch, over the ldr and the br.         *)
BranchOver(i, a, m) ==
  Debug(<<Item("bnot", 4, "none", 12), Ldl("sc", a + decode_offset(i.off, m)), Item("br", 4, "none", 0)>>)

Arm64RelocateSingle(i, a, id) ==
  CASE i.op \in {"ldr_w", "ldr_x", "ldr_d"} -> LdrLiteral(i, a)
    [] i.op \in {"adr", "adrp"} -> AdrAdrp(i, a)
    [] i.op \in {"b", "bl"} -> BranchImm(i, a)
    [] i.op = "tbz" -> BranchOver(i, a, 16)
    [] i.op = "cbz" -> BranchOver(i, a, 21)
    [] i.op = "b_cond" -> BranchOver(i, a, 21)
    [] OTHER -> <<Arm64Original(i, a, id)>>

(* UNIMPLEMENTED: the literal loads of other widths.                       *)
Arm64Aborts(i) == i.op \in {"ldr_q", "ldrsw", "prfm"}

(* LiteralLdrBranch to the rest of the function.                           *)
Arm64Rest(to) == <<Ldl("sc", to), Item("br", 4, "none", 0)>>

(* What these rewritings get wrong.                                        *)
Arm64Distorts(i, a, flag, span) ==
  \/ Arm64Aborts(i) \/ i.op \in {"ldr_w", "ldr_d"}
  \/ i.op \in {"b", "bl"} /\ a + i.off \in span
  \/ i.op \in {"tbz", "cbz", "b_cond"} /\ flag /\ a + i.off \in span
=============================================================================
