-------------------------- MODULE MCDobbyRelocate --------------------------
(* Prologues of two instructions of each instruction set, of every kind    *)
(* the relocation tells apart, filled up with plain ones; and every opcode *)
(* of x86 with the forms of ModRM and SIB that change its length.          *)
EXTENDS DobbyRelocate

Of(set, S) == {[isa |-> set, i |-> i] : i \in S}

Offs == {-4, 40, 64, -100}
ArmSet ==
  {Ins("plain", 4, 0, "rt", FALSE), Ins("adr_rotated", 4, 4, "rt", FALSE), Ins("add_pc", 4, 0, "rt", FALSE),
   Ins("ldrb", 4, 40, "rt", FALSE)}
    \cup {Ins(op, 4, o, "rt", cc) : op \in {"ldr", "adr", "b", "bl"}, o \in Offs, cc \in BOOLEAN}
    \cup {Ins("ldr", 4, 64, "pc", FALSE), Ins("blx", 4, 64, "rt", FALSE)}

ThumbSet ==
  {Ins(op, 2, o, "rt", FALSE) : op \in {"b_cond", "b"}, o \in {-100, -2, 2, 20, 64}}
    \cup {Ins(op, 2, 0, "rt", FALSE) : op \in {"plain", "svc", "it", "mov_pc"}}
    \cup {Ins(op, 2, o, "rt", FALSE) : op \in {"ldr", "adr"}, o \in {4, 40}}
    \cup {Ins("cbz", 2, 20, "rt", FALSE)}
    \cup {Ins(op, 4, o, "rt", FALSE) : op \in {"b_cond_w", "b_w", "bl_w"}, o \in {-100, 2, 64}}
    \cup {Ins(op, 4, 64, "rt", FALSE) : op \in {"plain", "addw", "tbb", "blx_w", "adr_w"}}
    \cup {Ins("ldr_w", 4, o, r, FALSE) : o \in {-64, 62, 64}, r \in {"rt", "pc"}}

Arm64Set ==
  {Ins("plain", 4, 0, "rt", FALSE)}
    \cup {Ins(op, 4, o, "rt", FALSE) : op \in {"b", "bl", "tbz", "cbz", "b_cond", "adr"}, o \in {-400, 4, 64}}
    \cup {Ins(op, 4, o, "rt", FALSE) : op \in {"ldr_w", "ldr_x", "ldr_d", "ldr_q", "ldrsw", "prfm"}, o \in {-64, 64}}
    \cup {Ins("adrp", 4, o, "rt", FALSE) : o \in {-4096, 8192}}

PlainX == X86(<<>>, 144, 3, 0, 0, 0, 0)
X86Pairs ==
  {PlainX, X86(RexW, 137, 1, 0, 4, 4, 0), X86(RexW, 199, 2, 0, 4, 4, 0), X86(TwoByte, 132, 1, 0, 0, 0, 64),
   X86(<<>>, 139, 0, 0, 5, 0, 64), X86(RexW, 141, 0, 0, 5, 0, -64), X86(<<>>, 129, 0, 0, 5, 0, 64),
   X86(<<>>, 226, 3, 0, 0, 0, 64), X86(<<>>, 198, 3, 0, 0, 0, 0), X86(RexB, 198, 0, 0, 0, 0, 1),
   X86(OperandSize, 145, 3, 0, 0, 0, 0)}
    \cup {X86(<<>>, o, 3, 0, 0, 0, off) : o \in {116, 232, 233, 235}, off \in {-64, 1, 64}}
Pres == {<<>>, OperandSize, RexW, RexB, TwoByte}
Forms == {<<0, 0, 0>>, <<0, 4, 0>>, <<0, 4, 5>>, <<0, 5, 0>>, <<1, 4, 5>>, <<1, 5, 0>>, <<2, 0, 0>>, <<2, 4, 0>>, <<3, 4, 0>>}
X86All(set) ==
  {i \in {X86(pre, o, f[1], 0, f[2], f[3], off) :
             pre \in Pres, o \in 0..255, f \in {<<3, 0, 0>>, <<1, 4, 0>>}, off \in {0, 68, 192}} :
     Valid(set, i) /\ (IF i.pre = TwoByte /\ i.opcode \in 128..143 THEN TRUE ELSE i.off = 0 /\ i.mod = 3)}
    \cup {i \in {X86(pre, o, f[1], reg, f[2], f[3], 0) : pre \in Pres, o \in 0..255, reg \in {0, 2}, f \in Forms} :
             Valid(set, i) /\ HasModRM(set, i) /\ (i.reg = 0 \/ i.opcode \in {246, 247})}

Fill(p) == <<p, p, p, p, p, p, p>>
Case(start, size, c) == [start |-> start, size |-> size, code |-> c]
Pairs(set, S) == {<<[isa |-> set, i |-> x], [isa |-> set, i |-> y]>> : x \in S, y \in S}
Arm == {Case(8192, 8, c) : c \in Pairs("arm", ArmSet)}
ThumbFill == Fill([isa |-> "thumb", i |-> Ins("plain", 2, 0, "rt", FALSE)])
Thumb ==
  {Case(8192, 8, c \o ThumbFill) : c \in Pairs("thumb", ThumbSet)}
    \cup {Case(8194, 10, c \o ThumbFill) : c \in Pairs("thumb", ThumbSet)}
Interwork ==
  {Case(8192, 8, <<[isa |-> "thumb", i |-> Ins("bx_pc", 2, 0, "rt", FALSE)], ThumbFill[1], x>>) : x \in Of("arm", ArmSet)}
    \cup {Case(8194, 10, <<ThumbFill[1], [isa |-> "thumb", i |-> Ins("bx_pc", 2, 0, "rt", FALSE)], ThumbFill[1], x>>) :
            x \in Of("arm", ArmSet)}
Arm64 == {Case(8192, 12, c \o Fill([isa |-> "arm64", i |-> Ins("plain", 4, 0, "rt", FALSE)])) : c \in Pairs("arm64", Arm64Set)}
X64 == {Case(8192, 6, c \o Fill([isa |-> "x64", i |-> PlainX])) : c \in Pairs("x64", X86Pairs)}
Single(set) ==
  {Case(8192, 4, <<x>> \o SubSeq(Fill([isa |-> set, i |-> PlainX]), 1, 4)) : x \in Of(set, X86All(set))}

MCCases == Arm \cup Thumb \cup Interwork \cup Arm64 \cup X64 \cup Single("x64") \cup Single("ia32")
=============================================================================
