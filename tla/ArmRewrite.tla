----------------------------- MODULE ArmRewrite -----------------------------
(***************************************************************************)
(* ARMInstructionRelocation.cc: how Dobby rewrites one ARM, Thumb or       *)
(* Thumb-2 instruction.                                                    *)
(***************************************************************************)
EXTENDS Rewrite

(* What the instruction means where it was (external: the processor).      *)
ArmOriginal(i, a, id) ==
  LET to == a + 8 + i.off
  IN  CASE i.op = "plain" -> Plain(4, id)
        [] i.op = "ldr" -> If(i.cc, Item("load", 4, i.r, to))
        [] i.op = "ldrb" -> If(i.cc, Width("b", Item("load", 4, "rt", to)))
        [] i.op \in {"adr", "adr_rotated"} -> If(i.cc, Item("mov", 4, "rt", to))
        [] i.op \in {"b", "bl", "blx"} -> If(i.cc, Item(i.op, 4, "none", 8 + i.off))
        [] i.op = "add_pc" -> Item("pcadd", 4, "rt", 8)

ThumbOriginal(i, a, id) ==
  LET pc == a + 4
  IN  CASE i.op \in {"plain", "svc", "addw"} -> Plain(i.len, id)
        [] i.op = "it" -> Item("it", 2, "none", 0)
        [] i.op = "mov_pc" -> Item("mov", 2, "rt", pc)
        [] i.op = "bx_pc" -> Item("goto", 2, "none", pc)
        [] i.op \in {"ldr", "ldr_w"} -> Item("load", i.len, i.r, Floor(pc, 4) + i.off)
        [] i.op \in {"adr", "adr_w"} -> Item("mov", i.len, "rt", Floor(pc, 4) + i.off)
        [] i.op \in {"b_cond", "cbz", "b_cond_w"} -> If(TRUE, Item("b", i.len, "none", 4 + i.off))
        [] i.op \in {"b", "b_w"} -> Item("b", i.len, "none", 4 + i.off)
        [] i.op = "bl_w" -> Item("bl", 4, "none", 4 + i.off)
        [] i.op = "blx_w" -> Item("blx", 4, "none", Floor(pc, 4) - a + i.off)
        [] i.op = "tbb" -> Item("pcadd", 4, "rt", 4)

-----------------------------------------------------------------------------
(* ARMRelocateSingleInstr, pc = address + 8.  A literal load keeps neither *)
(* its condition nor its width; ADR takes the immediate as it is encoded   *)
(* (a byte and a rotation).                                                *)
LoadLiteralFix(i, pc) ==
  IF i.r = "pc" THEN <<Ldl("sc", pc + i.off), Deref("pc", 1)>>
                ELSE <<Ldl("rt", pc + i.off), Deref("rt", 0)>>

Encoded(i) == IF i.op = "adr_rotated" THEN 15 * 256 + i.off \div 4 ELSE i.off
AdrFix(i, pc) == <<Ldl("rt", pc + Encoded(i))>>

(* The branch goes 12 bytes on, to the word behind the ldr; b assembles as *)
(* bl; the 24 bits of the offset are taken for an unsigned number.         *)
BranchFix(i, pc) ==
  <<If(i.cc, Item(i.op, 4, "none", 12)), Item("bl", 4, "none", 12),
    Near(4, "pc", 4), Data(4, pc + (i.off % 2^26))>>

ARMRelocateSingleInstr(i, pc, id) ==
  CASE i.op \in {"ldr", "ldrb"} -> LoadLiteralFix(i, pc)
    [] i.op \in {"adr", "adr_rotated"} -> AdrFix(i, pc)
    [] i.op \in {"b", "bl", "blx"} -> BranchFix(i, pc)
    [] OTHER -> <<ArmOriginal(i, pc - 8, id)>>

-----------------------------------------------------------------------------
(* The Thumb assembler: AlignThumbNop, t2_b, t2_bl; T2_Ldr is Ldl and      *)
(* t2_ldr of the pc is Near.                                               *)
AlignThumbNop(o) == IF o % 4 = 0 THEN <<>> ELSE <<Nop(2)>>
EmitThumb2Branch(op, n) == Item(op, 4, "none", 4 + n)

(* Thumb1RelocateSingleInstr, pc = address + 4, o the offset in the buffer.*)
RegisterPc(pc) == <<Ldl("sc", pc), Item("movsc", 2, "rt", 0)>>
BxPc(pc, o) == AlignThumbNop(o) \o <<Ldl("pc", pc)>>
T1Ldr(i, pc) == <<Ldl("rt", Floor(pc + i.off, 4)), Deref("rt", 0)>>
T1Adr(i, pc) == <<Ldl("rt", pc + i.off \div 4)>>

(* B<cond>: the offset unsigned; the new one keeps the upper four bits of  *)
(* the old.                                                                *)
Signed8(n) == IF n >= 128 THEN n - 256 ELSE n
ShortOffset(imm8) == 2 * Signed8(Floor(imm8, 16) + 2)
T1BCond(i, pc, o) ==
  LET imm8 == (i.off % 512) \div 2
  IN  <<If(TRUE, Item("b", 2, "none", 4 + ShortOffset(imm8)))>>
        \o AlignThumbNop(o + 2)
        \o <<EmitThumb2Branch("b", 4), Ldl("pc", pc + 2 * imm8 + 1)>>

(* CBZ, CBNZ: two bytes on, and a branch over nothing.                     *)
T1Cbz(i, pc, o) ==
  <<If(TRUE, Item("b", 2, "none", 6))>>
    \o AlignThumbNop(o + 2)
    \o <<EmitThumb2Branch("b", 0), Ldl("pc", pc + i.off + 1)>>

T1B(i, pc, o) == AlignThumbNop(o) \o <<Ldl("pc", pc + (i.off % 4096) + 1)>>

Thumb1RelocateSingleInstr(i, pc, o, id) ==
  CASE i.op = "mov_pc" -> RegisterPc(pc)
    [] i.op = "bx_pc" -> BxPc(pc, o)
    [] i.op = "ldr" -> T1Ldr(i, pc)
    [] i.op = "adr" -> T1Adr(i, pc)
    [] i.op = "b_cond" -> T1BCond(i, pc, o)
    [] i.op = "cbz" -> T1Cbz(i, pc, o)
    [] i.op = "b" -> T1B(i, pc, o)
    [] OTHER -> <<ThumbOriginal(i, pc - 4, id)>>

(* Thumb2RelocateSingleInstr, from an aligned offset.                      *)
T2Bl(to) ==
  <<EmitThumb2Branch("bl", 4), EmitThumb2Branch("b", 8), Near(4, "pc", 4), Data(4, to)>>
T2B(i, pc) == <<Near(4, "pc", 4), Data(4, pc + i.off + 1)>>
(* B<cond>.W keeps its sign bit; when it is not taken, the code runs on    *)
(* into the literal.                                                       *)
T2BCond(i, pc) ==
  <<If(TRUE, Item("b", 4, "none", IF i.off < 0 THEN 8 - 2^20 ELSE 8)),
    EmitThumb2Branch("b", 4)>> \o T2B(i, pc)
(* ADR.W, and with it every ADDW and SUBW; the same way into the literal.  *)
T2Simple(i, pc) ==
  <<Near(4, "rt", 8), EmitThumb2Branch("b", 0), Data(4, IF i.op = "adr_w" THEN pc + i.off ELSE 0)>>
T2Ldr(i, pc) ==
  <<Near(4, i.r, 8), EmitThumb2Branch("b", 4), Data(4, Floor(pc + i.off, 4)), Deref(i.r, 0)>>

Thumb2RelocateSingleInstr(i, pc, o, id) ==
  AlignThumbNop(o) \o
  CASE i.op = "b_cond_w" -> T2BCond(i, pc)
    [] i.op = "b_w" -> T2B(i, pc)
    [] i.op = "bl_w" -> T2Bl(pc + i.off + 1)
    [] i.op = "blx_w" -> T2Bl(Floor(pc, 4) + i.off)
    [] i.op \in {"adr_w", "addw"} -> T2Simple(i, pc)
    [] i.op = "ldr_w" -> T2Ldr(i, pc)
    [] OTHER -> <<ThumbOriginal(i, pc - 4, id)>>

(* UNREACHABLE: the encodings of SVC and UDF among those of B<cond>.       *)
ThumbAborts(i) == i.op = "svc"

-----------------------------------------------------------------------------
(* What these rewritings get wrong, at address a, with flag the condition, *)
(* o the offset of the rewritten code and span the prologue's addresses.   *)
ArmDistorts(i, a, flag, span) ==
  \/ i.op \in {"ldrb", "adr_rotated", "b", "bl", "blx", "add_pc"}
  \/ i.cc /\ ~flag
  \/ i.op \in {"ldr", "adr"} /\ a + 8 + i.off \in span

ThumbDistorts(i, a, flag, o, span) ==
  LET to == a + 4 + i.off
  IN  \/ i.op \in {"svc", "adr", "adr_w", "addw", "tbb"}
      \/ i.op = "it" /\ ~flag
      \/ i.op = "mov_pc" /\ a + 4 \in span
      \/ i.op = "ldr" /\ Floor(to, 4) \in span
      \/ i.op = "b" /\ (i.off < 0 \/ to \in span)
      \/ i.op = "b_cond" /\ flag /\ (i.off < 0 \/ i.off >= 32 \/ o % 4 # 0 \/ to \in span)
      \/ i.op = "cbz" /\ (~flag \/ o % 4 = 0 \/ to \in span)
      \/ i.op = "b_cond_w" /\ (i.off < 0 \/ ~flag \/ to \in span)
      \/ i.op \in {"b_w", "bl_w"} /\ to \in span
      \/ i.op = "ldr_w" /\ (i.r = "pc" \/ i.off % 4 # 0)
=============================================================================
