----------------------------- MODULE X86Rewrite -----------------------------
(***************************************************************************)
(* X86OpcodoDecodeTable.cc, X64InstructionRelocation.cc and                *)
(* X86InstructionRelocation.cc: how Dobby finds the length of one          *)
(* instruction of ia32 or x64, and how it rewrites it.                     *)
(*                                                                         *)
(* An instruction is its bytes: pre the prefixes (as the table reads them: *)
(* 0F is one), opcode a byte, mod, reg, rm the fields of ModRM, base that  *)
(* of SIB, off its displacement and its immediate.                         *)
(***************************************************************************)
EXTENDS Rewrite

OperandSize == <<102>>
RexW == <<72>>
RexB == <<65>>
TwoByte == <<15>>

X86(pre, opcode, mod, reg, rm, base, off) ==
  [pre |-> pre, opcode |-> opcode, mod |-> mod, reg |-> reg, rm |-> rm, base |-> base, off |-> off]

(* OpcodeDecodeTable: the opcodes of each handler, and of each size of     *)
(* immediate; 1632 is "16 or 32 bits".  Rows 00 to 3F ...                  *)
Arith == 0..63
InvalidLow(isa) ==
  IF isa = "x64" THEN {6, 7, 14, 22, 23, 30, 31, 39, 47, 55, 63} ELSE {}
PrefixLow == {15, 38, 46, 54, 62}
ModRMLow == {o \in Arith : o % 8 < 4}
ImmLow(o) == IF o % 8 = 4 THEN 1 ELSE 1632
TableLow(isa, o) ==
  CASE o \in PrefixLow -> <<"prefix", 0>>
    [] o \in InvalidLow(isa) -> <<"none", 0>>
    [] o \in ModRMLow -> <<"modrm", 0>>
    [] o % 8 \in {4, 5} -> <<"op", ImmLow(o)>>
    [] OTHER -> <<"op", 0>>

(* ... 40 to 8F ...                                                        *)
TableMiddle(isa, o) ==
  CASE o \in 64..79 -> IF isa = "x64" THEN <<"prefix", 0>> ELSE <<"op", 0>>
    [] o \in 96..97 -> IF isa = "x64" THEN <<"none", 0>> ELSE <<"op", 0>>
    [] o = 98 -> IF isa = "x64" THEN <<"none", 0>> ELSE <<"modrm", 0>>
    [] o \in 100..103 -> <<"prefix", 0>>
    [] o = 104 -> <<"op", 1632>>
    [] o = 105 -> <<"modrm", 1632>>
    [] o = 107 -> <<"modrm", 1>>
    [] o = 106 \/ o \in 112..127 -> <<"op", 1>>
    [] o \in {128, 131} -> <<"modrm", 1>>
    [] o = 129 -> <<"modrm", 1632>>
    [] o = 130 -> <<"none", 0>>
    [] o = 99 \/ o \in 132..143 -> <<"modrm", 0>>
    [] OTHER -> <<"op", 0>>

(* ... and 90 to FF.                                                       *)
Missing == 145..151 \cup 160..163 \cup {196, 197, 198, 214, 234} \cup 216..223
TableHigh(isa, o) ==
  CASE o \in Missing -> <<"none", 0>>
    [] isa = "x64" /\ o \in {154, 206, 212, 213} -> <<"none", 0>>
    [] o \in {168, 205, 235} \cup 176..183 \cup 224..231 -> <<"op", 1>>
    [] isa = "ia32" /\ o \in {212, 213} -> <<"op", 1>>
    [] o \in {169, 232, 233} \cup 184..191 -> <<"op", 1632>>
    [] o \in {192, 246} -> <<"modrm", 1>>
    [] o \in {193, 199, 247} -> <<"modrm", 1632>>
    [] o \in {194, 202} -> <<"op", 2>>
    [] o = 200 -> <<"op", 3>>
    [] o \in 208..211 \cup {254, 255} -> <<"modrm", 0>>
    [] o = 240 -> <<"prefix", 0>>
    [] OTHER -> <<"op", 0>>

(* Mutant: the rows of the REX prefixes are missing.                       *)
TableNoRex(isa, o) ==
  CASE o \in 64..79 /\ isa = "x64" -> <<"none", 0>>
    [] o < 64 -> TableLow(isa, o)
    [] o \in 80..143 \/ (o \in 64..79 /\ isa = "ia32") -> TableMiddle(isa, o)
    [] OTHER -> TableHigh(isa, o)

Table(isa, o) ==
  IF o < 64 THEN TableLow(isa, o) ELSE IF o < 144 THEN TableMiddle(isa, o) ELSE TableHigh(isa, o)

(* _DecodeModRM: with a SIB byte, the displacement goes by mod alone.      *)
RipRelative(isa, i) == isa = "x64" /\ i.mod = 0 /\ i.rm = 5

(* Mutant: the SIB byte is not counted.                                    *)
_DecodeModRM_NoSib(isa, i) ==
  CASE i.mod = 0 -> IF i.rm = 5 THEN 5 ELSE 1
    [] i.mod = 1 -> 2
    [] i.mod = 2 -> 5
    [] i.mod = 3 -> 1

_DecodeModRM(isa, i) ==
  LET sib == IF i.mod # 3 /\ i.rm = 4 THEN 1 ELSE 0
  IN  CASE i.mod = 0 -> IF i.rm = 5 THEN 5 ELSE 1 + sib
        [] i.mod = 1 -> 2 + sib
        [] i.mod = 2 -> 5 + sib
        [] i.mod = 3 -> 1

(* _DecodeLegacyPrefix, _DecodePrefix_66 and _DecodeREXPrefix: each counts *)
(* its byte; the last prefix but those of REX is remembered.               *)
Rex == 64..79
Size66(i) ==
  \E n \in 1..Len(i.pre) : i.pre[n] = 102 /\ \A m \in n + 1..Len(i.pre) : i.pre[m] \in Rex

PrefixLen(i) == Len(i.pre)

(* _DecodeImmedite.                                                        *)
_DecodeImmedite(i, sz) == IF sz = 1632 THEN IF Size66(i) THEN 2 ELSE 4 ELSE sz

(* The operands, as the handler of the opcode reads them ...               *)
_DecodeOpEn(isa, i, row) ==
  (IF row[1] = "modrm" THEN _DecodeModRM(isa, i) ELSE 0) + _DecodeImmedite(i, row[2])

(* ... and the length it comes to; an opcode without a handler adds        *)
(* nothing.                                                                *)
DecodedLen(isa, i) ==
  LET row == Table(isa, i.opcode)
  IN  PrefixLen(i) + IF row[1] = "none" THEN 0 ELSE 1 + _DecodeOpEn(isa, i, row)

-----------------------------------------------------------------------------
(* The true length (external: the processor's manual).                     *)
HasModRM(isa, i) ==
  LET o == i.opcode
  IN  IF i.pre = TwoByte THEN o \in {31, 175, 182, 186}
      ELSE \/ o \in Arith /\ o % 8 < 4
           \/ o \in {99, 105, 107} \cup 128..143 \cup {192, 193, 198, 199} \cup 208..211
                    \cup 216..223 \cup {246, 247, 254, 255}
           \/ isa = "ia32" /\ o \in {98, 196, 197}
ModRMLen(isa, i) ==
  LET sib == i.mod # 3 /\ i.rm = 4
      wide == i.mod = 2 \/ (i.mod = 0 /\ (i.rm = 5 \/ (sib /\ i.base = 5)))
  IN  1 + (IF sib THEN 1 ELSE 0) + (IF wide THEN 4 ELSE IF i.mod = 1 THEN 1 ELSE 0)
Word(i) == IF Size66(i) THEN 2 ELSE 4
ImmediateOf0F(o) == IF o \in 128..143 THEN 4 ELSE IF o = 186 THEN 1 ELSE 0
ImmediateLow(i) == IF i.opcode % 8 = 4 THEN 1 ELSE IF i.opcode % 8 = 5 THEN Word(i) ELSE 0
ImmediateHigh(isa, i) ==
  LET o == i.opcode
  IN  CASE o \in {232, 233} -> IF isa = "x64" THEN 4 ELSE Word(i)
        [] o \in {104, 105, 129, 169, 199} -> Word(i)
        [] o \in {106, 107, 128, 130, 131, 168, 192, 193, 198, 205, 212, 213, 235}
                  \cup 112..127 \cup 176..183 \cup 224..231 -> 1
        [] o \in 160..163 -> IF isa = "x64" THEN 8 ELSE 4
        [] o \in 184..191 -> IF i.pre = RexW THEN 8 ELSE Word(i)
        [] o \in {194, 202} -> 2
        [] o = 200 -> 3
        [] o \in {154, 234} -> Word(i) + 2
        [] o = 246 -> IF i.reg < 2 THEN 1 ELSE 0
        [] o = 247 -> IF i.reg < 2 THEN Word(i) ELSE 0
        [] OTHER -> 0
ImmediateLen(isa, i) ==
  IF i.pre = TwoByte THEN ImmediateOf0F(i.opcode)
  ELSE IF i.opcode \in Arith THEN ImmediateLow(i) ELSE ImmediateHigh(isa, i)
TrueLen(isa, i) ==
  PrefixLen(i) + 1 + (IF HasModRM(isa, i) THEN ModRMLen(isa, i) ELSE 0) + ImmediateLen(isa, i)

(* Bytes that are an instruction at all: neither a prefix nor, on x64, an  *)
(* opcode that is none there.                                              *)
NoInstruction(isa) ==
  {38, 46, 54, 62, 15, 100, 101, 102, 103, 240, 242, 243} \cup
  IF isa = "x64" THEN InvalidLow("x64") \cup 64..79 \cup {96, 97, 98, 130, 154, 196, 197, 206, 212, 213, 214, 234} ELSE {214}
X86Bytes ==
  [pre : {<<>>, OperandSize, RexW, RexB, TwoByte}, opcode : 0..255, mod : 0..3, reg : 0..7, rm : 0..7, base : 0..7,
   off : Int]
ModRM(i) == 64 * i.mod + 8 * i.reg + i.rm
Valid(isa, i) ==
  IF i.pre = TwoByte
    THEN \/ i.opcode \in {5, 31, 162, 175, 182, 186}
         \/ i.opcode \in 128..143 /\ i.off % 256 = ModRM(i)
    ELSE i.opcode \notin NoInstruction(isa) /\ (i.pre \in {RexW, RexB} => isa = "x64")

(* The bytes of an instruction (external), the immediate and displacement  *)
(* low byte first.  That of 0F 8x, which has no ModRM, begins with what    *)
(* the table reads as one.                                                 *)
LowFirst(v, n) ==
  [b \in 1..n |-> IF b <= 4 THEN (v \div 256^(b - 1)) % 256 ELSE IF v < 0 THEN 255 ELSE 0]
HasSib(i) == i.mod # 3 /\ i.rm = 4
ModRMBytes(isa, i) ==
  <<ModRM(i)>> \o
  IF HasSib(i) THEN <<32 + i.base>> \o LowFirst(i.off, ModRMLen(isa, i) - 2)
  ELSE LowFirst(i.off, ModRMLen(isa, i) - 1)
Bytes(isa, i) ==
  i.pre \o <<i.opcode>> \o (IF HasModRM(isa, i) THEN ModRMBytes(isa, i) ELSE <<>>)
    \o LowFirst(i.off, ImmediateLen(isa, i))

(* A SIB byte without a base: a displacement follows it.                   *)
NoBase(i) == i.mod = 0 /\ i.rm = 4 /\ i.base = 5

(* The instructions that the table reads otherwise: two-byte opcodes,      *)
(* those without a handler, the shifts by an immediate, TEST's group       *)
(* without one, a 64-bit immediate, far calls, a near branch of x64 with   *)
(* prefix 66, a SIB byte without a base.                                   *)
Misread(isa, i) ==
  \/ i.pre = TwoByte
  \/ i.opcode \in Missing \cup {130, 154, 193}
  \/ i.opcode \in {246, 247} /\ i.reg >= 2
  \/ i.opcode \in 184..191 /\ i.pre = RexW
  \/ i.opcode \in {232, 233} /\ isa = "x64" /\ Size66(i)
  \/ HasModRM(isa, i) /\ NoBase(i)

(* Those of them that come to the right length all the same: the second    *)
(* byte of the opcode has a row of its own that fits, or the immediate it  *)
(* counts too much is as long as the displacement it misses.               *)
RightByChance(isa, i) ==
  \/ i.pre = TwoByte /\ i.opcode = 182 /\ ModRMLen(isa, i) = 1
  \/ i.pre = TwoByte /\ i.opcode \in {128, 131, 186} /\ i.mod = 1 /\ i.rm = 4
  \/ i.opcode = 247 /\ i.reg >= 2 /\ NoBase(i) /\ ~Size66(i)

-----------------------------------------------------------------------------
X86Jumps(i) == i.pre # TwoByte /\ i.opcode \in 112..127 \cup {232, 233, 235}
Disp(isa, i) == i.pre # TwoByte /\ HasModRM(isa, i) /\ RipRelative(isa, i)

(* What the instruction means where it was.                                *)
X86Original(isa, i, a, id) ==
  LET n == TrueLen(isa, i)
  IN  CASE X86Jumps(i) /\ i.opcode < 128 -> If(TRUE, Item("b", n, "none", n + i.off))
        [] X86Jumps(i) /\ i.opcode = 232 -> Item("bl", n, "none", n + i.off)
        [] X86Jumps(i) /\ i.opcode \in {233, 235} -> Item("b", n, "none", n + i.off)
        [] Disp(isa, i) -> Item("pcadd", n, "rt", n + i.off)
        [] OTHER -> Plain(n, id)

(* GenRelocateCodeFixed: ip and relo are where the instruction is and goes *)
(* to.  Jcc becomes 0F 7x, which is not a jump; the offset of JMP rel8 is  *)
(* cut to a byte; an immediate behind the displacement is lost.            *)
JccFix == <<Item("garbage", 6, "none", 0)>>
JmpRel8Fix(i, ip, relo) ==
  <<Item("goto", 5, "none", relo + 5 + ((ip + (i.off % 256) - relo) % 256))>>
Rel32Fix(i, ip, relo) ==
  <<Item(IF i.opcode = 232 THEN "bl" ELSE "b", 5, "none", 5 + (ip + i.off - relo))>>
DispFix(isa, i, ip, relo) ==
  LET at == PrefixLen(i) + 2
  IN  IF ImmediateLen(isa, i) # 0 THEN <<Item("garbage", at + 4, "none", 0)>>
      ELSE <<Item("pcadd", at + 4, "rt", at + 4 + (ip + i.off - relo))>>

(* kIPRelativeAddress, set by whatever handler reads a ModRM.              *)
IPRelative(isa, i) == Table(isa, i.opcode)[1] = "modrm" /\ RipRelative(isa, i)

X86RelocateSingle(isa, i, ip, relo, id) ==
  CASE i.opcode \in 112..127 -> JccFix
    [] i.opcode = 235 -> JmpRel8Fix(i, ip, relo)
    [] i.opcode \in {232, 233} -> Rel32Fix(i, ip, relo)
    [] IPRelative(isa, i) -> DispFix(isa, i, ip, relo)
    [] OTHER -> <<X86Original(isa, i, ip, id)>>

(* The same of bytes that are no instruction, or not the whole of one: how *)
(* many bytes are emitted; what they do is not followed.                   *)
EmittedLen(isa, i) ==
  CASE i.opcode \in 112..127 -> 6
    [] i.opcode \in {232, 233, 235} -> 5
    [] IPRelative(isa, i) -> PrefixLen(i) + 6
    [] OTHER -> DecodedLen(isa, i)
X86RelocateBytes(isa, i) ==
  IF EmittedLen(isa, i) = 0 THEN <<>> ELSE <<Item("garbage", EmittedLen(isa, i), "none", 0)>>

(* UNIMPLEMENTED: LOOP and JCXZ.                                           *)
X86Aborts(i) == i.opcode \in 224..227

(* JmpNearIndirect to the word behind it: relative to the ip on x64, an    *)
(* address on ia32.                                                        *)
X86Rest(isa, to) ==
  <<IF isa = "x64" THEN Near(6, "pc", 6) ELSE Item("garbage", 6, "none", 0), Data(8, to)>>

(* What these rewritings get wrong.                                        *)
X86Distorts(isa, i, a, span) ==
  \/ isa = "ia32" \/ Misread(isa, i) \/ X86Aborts(i)
  \/ X86Jumps(i) /\ (i.opcode \notin {232, 233} \/ i.pre # <<>> \/ a + 5 + i.off \in span)
  \/ Disp(isa, i) /\ ImmediateLen(isa, i) # 0
=============================================================================
