--------------------------- MODULE DobbyRelocate ---------------------------
(***************************************************************************)
(* GenRelocateCode of Dobby's five instruction sets: the prologue that the *)
(* trampoline overwrites is rewritten to run elsewhere.  The behaviour     *)
(* takes one instruction of the prologue after the other, adds the branch  *)
(* to the rest of the function, and then runs the prologue where it was    *)
(* and where it went.                                                      *)
(***************************************************************************)
EXTENDS ArmRewrite, Arm64Rewrite, X86Rewrite

CONSTANTS
  Cases,   \* [start, size, code]: code a sequence of [isa, i]
  Base     \* where the rewritten code goes, a multiple of 4

(* The code of ia32 and x64 in a case is code: bytes of an instruction.    *)
ASSUME CasesAssumption ==
  \A c \in Cases : \A n \in 1..Len(c.code) :
    c.code[n].isa \in {"x64", "ia32"} => c.code[n].i \in X86Bytes /\ Valid(c.code[n].isa, c.code[n].i)

VARIABLES
  case,     \* the case: where the function starts, the size of its trampoline
            \* and its first instructions
  orig,     \* that code in its place
  buffer,   \* its bytes (x64, ia32)
  taken,    \* whether conditions hold
  isa,      \* the instruction set of the assembler in use
  k,        \* instructions taken so far (arm, thumb, arm64)
  cursor,   \* address of the next one (buffer_cursor, curr_orig_pc)
  relo,     \* relo_map: for each instruction taken, its offset in the buffer
  code,     \* the items emitted, placed at Base
  changed,  \* execute_state_changed_pc
  phase,    \* "relocate", "original", "rewritten", "over"
  verdict,  \* how the relocation ended: "ran", "abort", "unwritten"
  ref, cpu  \* the processor on the original and on the rewritten code

vars == <<case, orig, buffer, taken, isa, k, cursor, relo, code, changed, phase, verdict, ref, cpu>>

LenOf(p) == IF p.isa \in {"x64", "ia32"} THEN TrueLen(p.isa, p.i) ELSE p.i.len
Where(n) == orig[n].at
End == case.start + case.size
Prologue == case.start .. (End - 1)

Original(p, a, id) ==
  CASE p.isa = "arm" -> ArmOriginal(p.i, a, id)
    [] p.isa = "thumb" -> ThumbOriginal(p.i, a, id)
    [] p.isa = "arm64" -> Arm64Original(p.i, a, id)
    [] OTHER -> X86Original(p.isa, p.i, a, id)
OriginalCode(c) ==
  LET upto == Sum([n \in 1..Len(c.code) |-> LenOf(c.code[n])])
      at(n) == c.start + upto[n - 1]
  IN  [n \in 1..Len(c.code) |-> Placed(Original(c.code[n], at(n), n), at(n), c.code[n].isa)]

X86Set(set) == set \in {"x64", "ia32"}
BufferOf(c) ==
  IF X86Set(c.code[1].isa) THEN FlattenSeq([n \in 1..Len(c.code) |-> Bytes(c.code[n].isa, c.code[n].i)])
                           ELSE <<>>

Init ==
  /\ case \in Cases /\ orig = OriginalCode(case) /\ buffer = BufferOf(case) /\ taken \in BOOLEAN
  /\ isa = case.code[1].isa
  /\ k = 0 /\ cursor = case.start /\ relo = <<>> /\ code = <<>> /\ changed = 0
  /\ phase = "relocate" /\ verdict = "ran"
  /\ ref = Fresh(case.start, isa, taken) /\ cpu = Fresh(Base, isa, taken)

-----------------------------------------------------------------------------
Ended == IF code = <<>> THEN Base ELSE Last(code).at + Last(code).len
Emit(items) == \E s \in {items} : code' = code \o Place(s, Ended, isa)
Taken(n) == k' = k + 1 /\ cursor' = cursor + n /\ relo' = Append(relo, Ended - Base)
More == phase = "relocate" /\ cursor < End
Cur == case.code[k + 1]
Over(v) == phase' = "over" /\ verdict' = v

(* What the table of x64 and ia32 makes of the bytes from an address on,   *)
(* plain ones behind the prologue: the prefixes, then the first byte that  *)
(* is none, whatever it was meant to be.                                   *)
Byte(a) == IF a - case.start < Len(buffer) THEN buffer[a - case.start + 1] ELSE 144
PrefixAt(a) == Table(isa, Byte(a))[1] = "prefix"
Read(a) ==
  LET o == CHOOSE o \in a .. case.start + Len(buffer) : ~PrefixAt(o) /\ \A n \in a .. o - 1 : PrefixAt(n)
      modrm == Byte(o + 1)
  IN  X86([n \in 1..o - a |-> Byte(a + n - 1)], Byte(o),
          modrm \div 64, (modrm \div 8) % 8, modrm % 8, Byte(o + 2) % 8, 0)

Abort ==
  /\ More
  /\ \/ isa = "thumb" /\ ThumbAborts(Cur.i)
     \/ isa = "arm64" /\ Arm64Aborts(Cur.i)
     \/ X86Set(isa) /\ \E i \in {Read(cursor)} : X86Aborts(i)
  /\ Over("abort")
  /\ UNCHANGED <<case, orig, buffer, taken, isa, k, cursor, relo, code, changed, ref, cpu>>

(* gen_arm_relocate_code.                                                  *)
gen_arm_relocate_code ==
  /\ More /\ isa = "arm"
  /\ Emit(ARMRelocateSingleInstr(Cur.i, cursor + 8, k + 1)) /\ Taken(4)
  /\ UNCHANGED <<case, orig, buffer, taken, isa, changed, phase, verdict, ref, cpu>>

(* gen_thumb_relocate_code: a nop before each instruction; after BX PC the *)
(* code it leads to is ARM, and once it is reached the loop is left.       *)
ThumbItems(o) ==
  <<Nop(2)>> \o
  IF Cur.i.len = 4 THEN Thumb2RelocateSingleInstr(Cur.i, cursor + 4, o + 2, k + 1)
                   ELSE Thumb1RelocateSingleInstr(Cur.i, cursor + 4, o + 2, k + 1)
Interrupted(c, next) == c # 0 /\ next = c /\ next < End

gen_thumb_relocate_code ==
  /\ More /\ isa = "thumb" /\ ~ThumbAborts(Cur.i)
  /\ LET o == Ended - Base
         next == cursor + Cur.i.len
         c == IF Cur.i.op = "bx_pc" THEN cursor + 4 ELSE changed
     IN  /\ \E items \in {ThumbItems(o)} :
              Emit(items \o IF Interrupted(c, next) THEN AlignThumbNop(o + Size(items)) ELSE <<>>)
         /\ Taken(Cur.i.len)
         /\ changed' = IF Interrupted(c, next) THEN 0 ELSE c
         /\ isa' = IF Interrupted(c, next) THEN "arm" ELSE "thumb"
  /\ UNCHANGED <<case, orig, buffer, taken, phase, verdict, ref, cpu>>

GenRelocateCode_arm64 ==
  /\ More /\ isa = "arm64" /\ ~Arm64Aborts(Cur.i)
  /\ Emit(Arm64RelocateSingle(Cur.i, cursor, k + 1)) /\ Taken(4)
  /\ UNCHANGED <<case, orig, buffer, taken, isa, changed, phase, verdict, ref, cpu>>

(* GenRelocateCodeFixed of x64 and x86: the loop goes on behind what it    *)
(* took for an instruction, right or wrong.  What it takes whole is an     *)
(* instruction of the prologue; anything else comes out as bytes.  An      *)
(* opcode without a handler and without a prefix has no length: the loop   *)
(* repeats with nothing changed.                                           *)
Beginning(a) == {n \in 1..Len(case.code) : Where(n) = a}
Whole(a, len) == {n \in Beginning(a) : TrueLen(isa, case.code[n].i) = len}

GenRelocateCodeFixed ==
  /\ More /\ X86Set(isa)
  /\ \E i \in {Read(cursor)} :
       LET len == DecodedLen(isa, i)
       IN  /\ ~X86Aborts(i)
           /\ \/ \E n \in Whole(cursor, len) :
                   Emit(X86RelocateSingle(isa, case.code[n].i, cursor, Ended, n))
              \/ Whole(cursor, len) = {} /\ Emit(X86RelocateBytes(isa, i))
           /\ cursor' = cursor + len
  /\ UNCHANGED <<case, orig, buffer, taken, isa, k, relo, changed, phase, verdict, ref, cpu>>

-----------------------------------------------------------------------------
(* get_orig_instr_relocated_addr: where an instruction of the prologue     *)
(* went, or 0.                                                             *)
get_orig_instr_relocated_addr(v) ==
  LET n == {m \in 1..k : Where(m) = v} IN IF n = {} THEN 0 ELSE relo[CHOOSE m \in n : TRUE]

(* Mutant: the offset of the instruction, without the address of the code. *)
FixedUnbased(v) == IF v \in Prologue THEN get_orig_instr_relocated_addr(v) ELSE v

(* reloc_label_fixup: a label with an address in the prologue.  A branch   *)
(* of Thumb has the address plus one.                                      *)
Fixed(v) == IF v \in Prologue THEN Base + get_orig_instr_relocated_addr(v) ELSE v
reloc_label_fixup(items) ==
  [n \in 1..Len(items) |-> IF items[n].op = "ldl" THEN [items[n] EXCEPT !.v = Fixed(@)] ELSE items[n]]

(* The end of GenRelocateCode: a branch to the rest of the function, which *)
(* arm and thumb take to begin behind the trampoline, the labels, the copy *)
(* to the executable page.                                                 *)
LiteralLdrBranch(a) == <<Near(4, "pc", 4), Data(4, a)>>
Rest ==
  CASE isa = "thumb" -> AlignThumbNop(Ended - Base) \o LiteralLdrBranch(End + 1)
    [] isa = "arm" -> LiteralLdrBranch(End)
    [] isa = "arm64" -> Arm64Rest(cursor)
    [] OTHER -> X86Rest(isa, cursor)

(* GenRelocateCode of x64 and ia32 reserves 32 bytes beforehand; for code  *)
(* that is longer it reserves 48 and writes nothing there.                 *)
NotEnough(all) == X86Set(isa) /\ Last(all).at + Last(all).len - Base > 32

GenRelocateCode ==
  /\ phase = "relocate" /\ cursor >= End
  /\ LET all == code \o Place(Rest, Ended, isa)
     IN  IF NotEnough(all)
           THEN Over("unwritten") /\ UNCHANGED code
           ELSE /\ code' = IF isa \in {"arm", "thumb"} THEN reloc_label_fixup(all) ELSE all
                /\ phase' = "original" /\ UNCHANGED verdict
  /\ UNCHANGED <<case, orig, buffer, taken, isa, k, cursor, relo, changed, ref, cpu>>

RunOriginal ==
  /\ phase = "original"
  /\ ref' = Run(orig, case.start, End, ref)
  /\ phase' = IF ref'.out = "running" THEN "original" ELSE "rewritten"
  /\ UNCHANGED <<case, orig, buffer, taken, isa, k, cursor, relo, code, changed, verdict, cpu>>

RunRewritten ==
  /\ phase = "rewritten"
  /\ cpu' = Run(code, Base, Ended, cpu)
  /\ phase' = IF cpu'.out = "running" THEN "rewritten" ELSE "over"
  /\ UNCHANGED <<case, orig, buffer, taken, isa, k, cursor, relo, code, changed, verdict, ref>>

Next ==
  \/ Abort \/ gen_arm_relocate_code \/ gen_thumb_relocate_code \/ GenRelocateCode_arm64
  \/ GenRelocateCodeFixed \/ GenRelocateCode \/ RunOriginal \/ RunRewritten

Spec == Init /\ [][Next]_vars /\ WF_vars(Next)
-----------------------------------------------------------------------------
(* What the rewriting of an instruction of this prologue gets wrong.       *)
Distorts(n) ==
  LET p == case.code[n]
      a == Where(n)
  IN  CASE p.isa = "arm" -> ArmDistorts(p.i, a, taken, Prologue)
        [] p.isa = "thumb" -> ThumbDistorts(p.i, a, taken, IF n <= k THEN relo[n] + 2 ELSE 0, Prologue)
        [] p.isa = "arm64" -> Arm64Distorts(p.i, a, taken, Prologue)
        [] OTHER -> X86Distorts(p.isa, p.i, a, Prologue)

(* Thumb: the last instruction begins in the prologue and ends behind it.  *)
Straddles == case.code[1].isa = "thumb" /\ cursor > End
Sound == ~Straddles /\ \A n \in 1..Len(case.code) : ~Distorts(n)

(* The rewritten prologue does what the prologue does (GenRelocateCode of  *)
(* each instruction set): the same instructions, the same addresses loaded *)
(* from, the same calls, and it goes on at the same place in the same      *)
(* instruction set, with only the scratch register changed - for every     *)
(* prologue of Cases without one of the instructions that Distorts lists.  *)
DobbyMeaningKept ==
  phase = "over" /\ Sound => verdict = "ran" /\ Outcome(cpu) = Outcome(ref)

(* OpcodeDecodeTable gives an instruction of ia32 or x64 its length if and *)
(* only if Misread does not list it, or the errors cancel.                 *)
LengthAsManual ==
  \A n \in 1..Len(case.code) :
    case.code[n].isa \in {"x64", "ia32"} =>
      (DecodedLen(case.code[n].isa, case.code[n].i) = TrueLen(case.code[n].isa, case.code[n].i)
        <=> ~Misread(case.code[n].isa, case.code[n].i) \/ RightByChance(case.code[n].isa, case.code[n].i))

(* The relocation comes to an end (the loops of GenRelocateCode move their *)
(* cursors), and so do the prologue and the code it makes of it, whatever  *)
(* that is, if the table gives every instruction of the prologue its       *)
(* length.  Otherwise the loop of GenRelocateCodeFixed may come, rounds    *)
(* later and in the middle of an instruction, to a byte without a handler, *)
(* where it stays for ever; it comes to no other end.                      *)
ReadRight ==
  \A n \in 1..Len(case.code) :
    X86Set(case.code[n].isa) /\ Where(n) < End
      => DecodedLen(case.code[n].isa, case.code[n].i) = TrueLen(case.code[n].isa, case.code[n].i)
Stalled == More /\ X86Set(isa) /\ \E i \in {Read(cursor)} : DecodedLen(isa, i) = 0
RelocationEnds ==
  /\ ReadRight => <>(phase = "over")
  /\ <>(phase = "over" \/ Stalled)
=============================================================================
