------------------------------ MODULE Relocate ------------------------------
(***************************************************************************)
(* relocateInstruction (inlineHook/relocate.c): the loop that copies the   *)
(* instructions an entry jump will overwrite into a trampoline, replacing  *)
(* each one that reads the PC by a block that computes the same from a     *)
(* literal; and a thread that then runs the trampoline, one emitted        *)
(* instruction at a time, beside what the original instruction would have  *)
(* done at its own address.                                                *)
(*                                                                         *)
(* An instruction is a record of its type and operands, not its bits.  The *)
(* trampoline is indexed as in the code, by halfword in Thumb and by word  *)
(* in ARM state.                                                           *)
(***************************************************************************)
EXTENDS Integers, Sequences, FiniteSets

CONSTANTS
  ThumbInsn,    \* the Thumb instructions a function may begin with
  ArmInsn,      \* the ARM instructions a function may begin with
  MaxSpecial    \* bound: PC-relative instructions among those copied

-----------------------------------------------------------------------------
(* enum INSTRUCTION_TYPE, with UNDEFINE (any instruction that does not     *)
(* read the PC) split by encoding and IT, an UNDEFINE instruction that     *)
(* makes the next one conditional, told apart.                             *)
Thumb16Type == {"B1_THUMB16", "B2_THUMB16", "BX_THUMB16", "ADD_THUMB16",
                "MOV_THUMB16", "ADR_THUMB16", "LDR_THUMB16", "CB_THUMB16",
                "UNDEFINE16", "IT"}
Thumb32Type == {"BLX_THUMB32", "BL_THUMB32", "B1_THUMB32", "B2_THUMB32",
                "ADR1_THUMB32", "ADR2_THUMB32", "LDR_THUMB32",
                "TBB_THUMB32", "TBH_THUMB32", "UNDEFINE32"}
ArmType == {"BLX_ARM", "BL_ARM", "B_ARM", "BX_ARM", "ADD_ARM", "ADR1_ARM",
            "ADR2_ARM", "MOV_ARM", "LDR_ARM", "UNDEFINE_ARM"}
Plain == {"UNDEFINE16", "UNDEFINE32", "UNDEFINE_ARM"}

Reg == 0 .. 14
LR == 14
PC == 15

(* cond: the instruction tests the flags (or, for CB, a register).  imm is *)
(* the operand as the code extracts it: a signed displacement for a        *)
(* branch, the unscaled field for ADR_THUMB16 and LDR_THUMB16, a signed    *)
(* offset for the other loads, the unsigned immediate for the other ADRs.  *)
Insn == [type : Thumb16Type \cup Thumb32Type \cup ArmType, cond : BOOLEAN,
         rd : Reg \cup {PC}, rm : Reg, imm : Int]

ASSUME RelocateAssumption ==
  /\ ThumbInsn \subseteq {x \in Insn : x.type \in Thumb16Type \cup Thumb32Type}
  /\ ArmInsn \subseteq {x \in Insn : x.type \in ArmType}
  /\ MaxSpecial \in Nat

VARIABLES
  mode,    \* bit 0 of target_addr
  base,    \* target_addr with that bit cleared
  src,     \* the instructions relocated so far
  opos,    \* orig_pos, in units
  tpos,    \* trampoline_pos, in units
  obnd,    \* orig_boundaries, from the entry *count of a fresh item on
  tbnd,    \* trampoline_boundaries, likewise
  tramp,   \* unit -> the instruction or literal that starts there, or Half
  phase,   \* "copy", "jump" (loop left), "ready", "run", "out"
  m,       \* the thread in the trampoline
  want     \* what the original instruction does with it

copying == <<src, opos, tpos, obnd, tbnd, tramp>>
vars == <<mode, base, src, opos, tpos, obnd, tbnd, tramp, phase, m, want>>

Thumb == mode = "thumb"
Unit == IF Thumb THEN 2 ELSE 4          \* sizeof(uint16_t), sizeof(uint32_t)
Ahead == IF Thumb THEN 4 ELSE 8         \* how far the PC reads ahead
Length == IF Thumb THEN 12 ELSE 8       \* item->length of registerInlineHook
Bit == IF Thumb THEN 1 ELSE 0

CodeBase == 1024     \* where the function is: any address will do
TrampBase == 4096    \* the trampoline is a page: mmap aligns it

(* What memory holds: a word and a branch-table entry, told apart by their *)
(* addresses.                                                              *)
WordAt(a) == 100000 + a
EntryAt(a) == a % 8

ALIGN_PC(pc) == pc - (pc % 4)

-----------------------------------------------------------------------------
(* The instructions the trampoline is made of; len is in units.            *)
Op(o, len, rd, rn, v) == [op |-> o, len |-> len, rd |-> rd, rn |-> rn, rm |-> 0,
                          v |-> v, cond |-> FALSE]
Keep(x) == [Op(IF x.type = "IT" THEN "it" ELSE "insn",
               IF x.type = "UNDEFINE32" THEN 2 ELSE 1, 0, 0, 0)
              EXCEPT !.cond = x.cond]
Nop == Op("nop", 1, 0, 0, 0)
B(imm) == Op("b", 1, 0, 0, imm)                    \* B PC, #imm; ADD PC, PC
BCond(imm) == Op("bcond", 1, 0, 0, imm)            \* B<c> or CB{N}Z, #imm
Ldr(len, r, imm) == Op("ldr", len, r, 0, imm)      \* LDR Rr, [PC, #imm]
Word(v) == Op("word", 2, 0, 0, v)
Push(r) == Op("push", 1, r, 0, 0)
Pop(r) == Op("pop", 1, r, 0, 0)
Mov(rd, rn) == Op("mov", 1, rd, rn, 0)
AddImm(r, v) == Op("addi", 1, r, 0, v)
AddLR(len, imm) == Op("addlr", len, 0, 0, imm)     \* ADD LR, PC, #imm
Load(r) == Op("load", 1, r, 0, 0)                  \* LDRB/LDRH Rx, [Rx]
Bx(r) == Op("bx", 1, r, 0, 0)
(* rd := rn + k * rm *)
Add(len, rd, rn, rm, k) == [Op("add", len, rd, rn, k) EXCEPT !.rm = rm]

(* The second halfword of an instruction or literal, in Thumb.            *)
Half == Op("half", 1, 0, 0, 0)

(* for (r = top; ; --r) if (r not in S) break;                             *)
Scratch(top, S) ==
  CHOOSE r \in 0 .. top : r \notin S /\ \A q \in r + 1 .. top : q \in S

(* A block is the sequence of its units; its length is what the functions  *)
(* below return.  LDR.W PC, [PC] and its literal:                          *)
ThumbJump(value) == <<Ldr(2, PC, 0), Half, Word(value), Half>>

(* A branch on condition around the branch around the jump.                *)
CondJump(value) == <<BCond(0), B(6)>> \o ThumbJump(value)

(* Mutant: the copied 16-bit instruction is not padded.                    *)
Thumb16WithoutNop(pc, x) ==
  IF x.type \in {"B2_THUMB16", "BX_THUMB16"} THEN ThumbJump(pc + x.imm + 1)
                                             ELSE <<Keep(x)>>

relocateInstructionInThumb16(pc, x) ==
  CASE x.type \in {"B1_THUMB16", "CB_THUMB16"} -> CondJump(pc + x.imm + 1)
    [] x.type = "B2_THUMB16" -> ThumbJump(pc + x.imm + 1)
    [] x.type = "BX_THUMB16" -> ThumbJump(pc + 1)
    [] x.type = "ADD_THUMB16" ->
         LET r == Scratch(7, {x.rd})
         IN  <<Push(r), Ldr(1, r, 8), Add(1, x.rd, x.rd, r, 1), Pop(r), B(4), Nop, Word(pc), Half>>
    [] x.type \in {"MOV_THUMB16", "ADR_THUMB16", "LDR_THUMB16"} ->
         LET value == CASE x.type = "MOV_THUMB16" -> pc
                        [] x.type = "ADR_THUMB16" -> (ALIGN_PC(pc) + x.imm) * 4
                        [] x.type = "LDR_THUMB16" -> WordAt(ALIGN_PC(pc) + x.imm * 4)
         IN  <<Ldr(1, x.rd % 8, 0), B(2), Word(value), Half>>
    [] OTHER -> <<Keep(x), Nop>>

(* (i << 31) | (imm3 << 30) | (imm8 << 27), as a signed 32-bit integer, of *)
(* the 12-bit immediate i:imm3:imm8.                                       *)
AdrImm(imm) ==
  LET i == imm \div 2048
      imm3 == (imm \div 256) % 8
      imm8 == imm % 256
      bit30 == 1 \in {imm3 % 2, (imm8 \div 8) % 2}
      bit31 == 1 \in {i, (imm3 \div 2) % 2, (imm8 \div 16) % 2}
  IN  (imm8 % 8) * 2 ^ 27 + (IF bit30 THEN 2 ^ 30 ELSE 0)
        + (IF bit31 THEN -(2 ^ 30) - 2 ^ 30 ELSE 0)

relocateInstructionInThumb32(pc, x) ==
  CASE x.type = "BLX_THUMB32" -> <<AddLR(2, 9), Half>> \o ThumbJump(ALIGN_PC(pc) + x.imm)
    [] x.type = "BL_THUMB32" -> <<AddLR(2, 9), Half>> \o ThumbJump(ALIGN_PC(pc) + x.imm + 1)
    [] x.type = "B1_THUMB32" -> CondJump(ALIGN_PC(pc) + x.imm + 1)
    [] x.type = "B2_THUMB32" -> ThumbJump(ALIGN_PC(pc) + x.imm + 1)
    [] x.type \in {"ADR1_THUMB32", "ADR2_THUMB32", "LDR_THUMB32"} ->
         LET value == CASE x.type = "ADR1_THUMB32" -> ALIGN_PC(pc) + AdrImm(x.imm)
                        [] x.type = "ADR2_THUMB32" -> ALIGN_PC(pc) - AdrImm(x.imm)
                        [] x.type = "LDR_THUMB32" -> WordAt(ALIGN_PC(pc) + x.imm)
         IN  <<Ldr(2, x.rd, 4), Half, Nop, B(2), Word(value), Half>>
    [] x.type \in {"TBB_THUMB32", "TBH_THUMB32"} ->
         LET r == Scratch(7, {x.rm})
             rx == Scratch(7, {x.rm, r})
             k == IF x.type = "TBB_THUMB32" THEN 1 ELSE 2
         IN  <<Push(rx), Ldr(1, r, 20), Mov(rx, x.rm), Add(2, rx, r, rx, k), Half, Load(rx),
               Add(2, r, r, rx, 2), Half, AddImm(r, 1), Pop(rx), Bx(r), Nop, Word(pc), Half>>
    [] OTHER -> <<Keep(x), Half>>

(* LDR PC, [PC, #-4] and its literal.                                      *)
ArmJump(value) == <<Ldr(1, PC, -4), Word(value)>>

(* The body of relocateInstructionInArm's loop.                            *)
InArm(pc, x) ==
  CASE x.type = "BLX_ARM" -> <<AddLR(1, 4)>> \o ArmJump(pc + x.imm + 1)
    [] x.type = "BL_ARM" -> <<AddLR(1, 4)>> \o ArmJump(pc + x.imm)
    [] x.type = "B_ARM" -> ArmJump(pc + x.imm)
    [] x.type = "BX_ARM" -> ArmJump(pc)
    [] x.type = "ADD_ARM" ->
         LET r == Scratch(12, {x.rd, x.rm})
         IN  <<Push(r), Ldr(1, r, 8), [Add(1, x.rd, r, x.rm, 1) EXCEPT !.cond = x.cond],
               Pop(r), B(0), Word(pc)>>
    [] x.type \in {"ADR1_ARM", "ADR2_ARM", "LDR_ARM", "MOV_ARM"} ->
         LET value == CASE x.type = "ADR1_ARM" -> pc + x.imm
                        [] x.type = "ADR2_ARM" -> pc - x.imm
                        [] x.type = "LDR_ARM" -> WordAt(pc + x.imm)
                        [] x.type = "MOV_ARM" -> pc
         IN  <<Ldr(1, x.rd, 0), B(0), Word(value)>>
    [] OTHER -> <<Keep(x)>>

-----------------------------------------------------------------------------
(* No thread is in the trampoline.                                         *)
NoExit == -1
Regs0 == [r \in Reg |-> 40 + 8 * r]
NoThread == [i |-> 0, k |-> 0, flag |-> FALSE, it |-> 0, did |-> 0, regs |-> Regs0,
             stack |-> <<>>, exit |-> NoExit, lost |-> FALSE]
NoWant == [it |-> 0, did |-> 0, regs |-> Regs0, exit |-> NoExit, end |-> 0]

(* A Thumb function is aligned to a halfword only, an ARM one to a word.   *)
Init ==
  /\ \/ mode = "thumb" /\ base \in {CodeBase, CodeBase + 2}
     \/ mode = "arm" /\ base = CodeBase
  /\ src = <<>>
  /\ opos = 0
  /\ tpos = 0
  /\ obnd = <<>>
  /\ tbnd = <<>>
  /\ tramp = <<>>
  /\ phase = "copy"
  /\ m = NoThread
  /\ want = NoWant

(* Mutant: the entry is the boundary of the instruction before.            *)
BoundaryOfPrevious ==
  /\ obnd' = Append(obnd, (opos - 1) * Unit)
  /\ tbnd' = Append(tbnd, tpos * Unit)

(* The entries for an instruction, recorded before it is relocated.        *)
Boundary ==
  /\ obnd' = Append(obnd, opos * Unit)
  /\ tbnd' = Append(tbnd, tpos * Unit)

(* The trampoline with a block stored at trampoline_pos.                   *)
Place(block) ==
  LET end == tpos + Len(block)
  IN  [i \in DOMAIN tramp \cup tpos .. end - 1 |->
         IF i \in tpos .. end - 1 THEN block[i - tpos + 1] ELSE tramp[i]]

Pc == base + opos * Unit + Ahead

(* Bound: at most MaxSpecial instructions of a program read the PC.        *)
Admitted(x) ==
  \/ x.type \in Plain
  \/ Cardinality({i \in DOMAIN src : src[i].type \notin Plain}) < MaxSpecial

(* Mutant: an instruction that does not read the PC takes no room.         *)
EmitInPlace(x, units, block) ==
  /\ src' = Append(src, x)
  /\ tramp' = Place(block)
  /\ tpos' = IF x.type \in Plain THEN tpos ELSE tpos + Len(block)
  /\ opos' = opos + units
  /\ phase' = IF opos + units >= Length \div Unit THEN "jump" ELSE "copy"

(* The block is stored and both positions advance past it; the loop ends   *)
(* with the last unit.                                                     *)
Emit(x, units, block) ==
  /\ src' = Append(src, x)
  /\ tramp' = Place(block)
  /\ tpos' = tpos + Len(block)
  /\ opos' = opos + units
  /\ phase' = IF opos + units >= Length \div Unit THEN "jump" ELSE "copy"

(* relocateInstructionInThumb, an iteration that meets a 16-bit            *)
(* instruction.                                                            *)
CopyThumb16(x) ==
  /\ phase = "copy" /\ Thumb /\ x.type \in Thumb16Type
  /\ Admitted(x)
  /\ Boundary
  /\ Emit(x, 1, relocateInstructionInThumb16(Pc, x))
  /\ UNCHANGED <<mode, base, m, want>>

(* Mutant: the last halfword may begin a 32-bit instruction.               *)
CopyThumb32PastEnd(x) ==
  /\ phase = "copy" /\ Thumb /\ x.type \in Thumb32Type
  /\ Admitted(x)
  /\ Boundary
  /\ Emit(x, 2, relocateInstructionInThumb32(Pc, x))
  /\ UNCHANGED <<mode, base, m, want>>

(* ... a 32-bit instruction that was copied whole.                         *)
CopyThumb32(x) ==
  /\ phase = "copy" /\ Thumb /\ x.type \in Thumb32Type
  /\ Admitted(x)
  /\ opos + 2 <= Length \div Unit
  /\ Boundary
  /\ Emit(x, 2, relocateInstructionInThumb32(Pc, x))
  /\ UNCHANGED <<mode, base, m, want>>

(* ... the first half of a 32-bit instruction: the loop is left, after the *)
(* boundary was recorded.                                                  *)
CopyThumbTail ==
  /\ phase = "copy" /\ Thumb
  /\ opos + 2 > Length \div Unit
  /\ Boundary
  /\ phase' = "jump"
  /\ UNCHANGED <<mode, base, src, opos, tpos, tramp, m, want>>

(* relocateInstructionInArm, an iteration.                                 *)
CopyArm(x) ==
  /\ phase = "copy" /\ ~Thumb
  /\ Admitted(x)
  /\ Boundary
  /\ Emit(x, 1, InArm(Pc, x))
  /\ UNCHANGED <<mode, base, m, want>>

(* Mutant: the jump goes back past the entry jump, not past what was       *)
(* copied.                                                                 *)
FinalJumpPastPatch ==
  /\ phase = "jump"
  /\ tramp' = Place(IF Thumb THEN ThumbJump(base + 8 + 1) ELSE ArmJump(base + Length))
  /\ phase' = "ready"
  /\ UNCHANGED <<mode, base, src, opos, tpos, obnd, tbnd, m, want>>

(* The jump back, to lr.                                                   *)
FinalJump ==
  /\ phase = "jump"
  /\ tramp' = Place(IF Thumb THEN ThumbJump(base + opos * Unit + 1) ELSE ArmJump(base + Length))
  /\ phase' = "ready"
  /\ UNCHANGED <<mode, base, src, opos, tpos, obnd, tbnd, m, want>>

-----------------------------------------------------------------------------
(* The reference: what an ARM processor does with the original instruction *)
(* x at its own address, where the PC reads pc.  go is where it jumps,     *)
(* with bit 0 for Thumb state; rd (PC for none) is the register it sets.   *)
(* A call must return to the block of the instruction after it, at ret.    *)
Effect(go, rd, val) == [go |-> go, rd |-> rd, val |-> val]
Jumps(a) == Effect(a, PC, 0)
Calls(a, ret) == Effect(a, LR, ret)
Sets(r, v) == IF r = PC THEN Jumps(v) ELSE Effect(NoExit, r, v)

Meaning(x, pc, regs, ret) ==
  CASE x.type \in {"B1_THUMB16", "B2_THUMB16", "CB_THUMB16", "B1_THUMB32",
                   "B2_THUMB32"} -> Jumps(pc + x.imm + 1)
    [] x.type = "BX_THUMB16" -> Jumps(pc)
    [] x.type = "ADD_THUMB16" -> Sets(x.rd, regs[x.rd] + pc)
    [] x.type \in {"MOV_THUMB16", "MOV_ARM"} -> Sets(x.rd, pc)
    [] x.type = "ADR_THUMB16" -> Sets(x.rd, ALIGN_PC(pc) + x.imm * 4)
    [] x.type = "LDR_THUMB16" -> Sets(x.rd, WordAt(ALIGN_PC(pc) + x.imm * 4))
    [] x.type = "BLX_THUMB32" -> Calls(ALIGN_PC(pc) + x.imm, ret)
    [] x.type = "BL_THUMB32" -> Calls(pc + x.imm + 1, ret)
    [] x.type = "ADR1_THUMB32" -> Sets(x.rd, ALIGN_PC(pc) - x.imm)
    [] x.type = "ADR2_THUMB32" -> Sets(x.rd, ALIGN_PC(pc) + x.imm)
    [] x.type \in {"LDR_THUMB32", "LDR_ARM"} -> Sets(x.rd, WordAt(ALIGN_PC(pc) + x.imm))
    [] x.type = "TBB_THUMB32" -> Jumps(pc + 2 * EntryAt(pc + regs[x.rm]) + 1)
    [] x.type = "TBH_THUMB32" -> Jumps(pc + 2 * EntryAt(pc + 2 * regs[x.rm]) + 1)
    [] x.type = "BLX_ARM" -> Calls(pc + x.imm + 1, ret)
    [] x.type = "BL_ARM" -> Calls(pc + x.imm, ret)
    [] x.type = "B_ARM" -> Jumps(pc + x.imm)
    [] x.type = "BX_ARM" -> Jumps(pc)
    [] x.type = "ADD_ARM" -> Sets(x.rd, pc + regs[x.rm])
    [] x.type = "ADR1_ARM" -> Sets(x.rd, pc + x.imm)
    [] x.type = "ADR2_ARM" -> Sets(x.rd, pc - x.imm)
    [] OTHER -> Effect(NoExit, PC, 0)

BlockStart(k) == IF k <= Len(src) THEN tbnd[k] \div Unit ELSE tpos
OrigStart(k) == IF k <= Len(src) THEN base + obnd[k] ELSE base + opos * Unit

(* What instruction k does to thread t, or for the one after the last, the *)
(* jump back to it.                                                        *)
Wanted(k, t) ==
  IF k > Len(src)
    THEN [it |-> 0, did |-> 0, regs |-> t.regs, exit |-> OrigStart(k) + Bit,
          end |-> NoExit]
    ELSE LET x == src[k]
             on == (x.cond \/ t.it = 1) => t.flag
             e == Meaning(x, OrigStart(k) + Ahead, t.regs,
                          TrampBase + BlockStart(k + 1) * Unit + Bit)
         IN  [it |-> IF x.type = "IT" THEN 1 ELSE 0,
              did |-> IF on /\ x.type \in Plain THEN 1 ELSE 0,
              regs |-> IF on /\ e.rd # PC THEN [t.regs EXCEPT ![e.rd] = e.val]
                                           ELSE t.regs,
              exit |-> IF on THEN e.go ELSE NoExit,
              end |-> BlockStart(k + 1)]

(* The thread comes to block k; the flags are whatever they are.           *)
Enter(k, t) ==
  \E f \in BOOLEAN :
    LET u == [t EXCEPT !.k = k, !.i = BlockStart(k), !.flag = f, !.did = 0]
    IN  m' = u /\ want' = Wanted(k, u)

(* A thread calls the trampoline through *proto_addr, or doProcessThreadPC *)
(* has moved it from an original boundary to the trampoline's.             *)
Start(k) ==
  /\ phase = "ready"
  /\ Enter(k, [NoThread EXCEPT !.it = IF k > 1 /\ src[k - 1].type = "IT" THEN 1 ELSE 0])
  /\ phase' = "run"
  /\ UNCHANGED <<mode, base, copying>>

(* One instruction of the trampoline, executed.                            *)
Executed(t, o) ==
  LET pc == TrampBase + t.i * Unit + Ahead
      literal == (ALIGN_PC(pc) + o.v - TrampBase) \div Unit
      u == [t EXCEPT !.i = t.i + o.len, !.it = 0]
      Branched == [u EXCEPT !.i = (pc + o.v - TrampBase) \div Unit]
      Lost == [u EXCEPT !.lost = TRUE]
      Set(r, v) == [u EXCEPT !.regs[r] = v]
  IN  IF (o.cond \/ t.it = 1) /\ ~t.flag THEN u
      ELSE CASE o.op = "nop" -> u
             [] o.op = "insn" -> [u EXCEPT !.did = @ + 1]
             [] o.op = "it" -> [u EXCEPT !.it = 1]
             [] o.op = "b" -> Branched
             [] o.op = "bcond" -> IF t.flag THEN Branched ELSE u
             [] o.op = "ldr" ->
                  IF literal \notin DOMAIN tramp \/ tramp[literal].op # "word" THEN Lost
                  ELSE IF o.rd = PC THEN [u EXCEPT !.exit = tramp[literal].v]
                  ELSE Set(o.rd, tramp[literal].v)
             [] o.op = "push" -> [u EXCEPT !.stack = Append(@, t.regs[o.rd])]
             [] o.op = "pop" -> [Set(o.rd, t.stack[Len(t.stack)]) EXCEPT
                                   !.stack = SubSeq(@, 1, Len(@) - 1)]
             [] o.op = "mov" -> Set(o.rd, t.regs[o.rn])
             [] o.op = "add" -> Set(o.rd, t.regs[o.rn] + o.v * t.regs[o.rm])
             [] o.op = "addi" -> Set(o.rd, t.regs[o.rd] + o.v)
             [] o.op = "addlr" -> Set(LR, ALIGN_PC(pc) + o.v)
             [] o.op = "load" -> Set(o.rd, EntryAt(t.regs[o.rd]))
             [] o.op = "bx" -> [u EXCEPT !.exit = t.regs[o.rd]]
             [] o.op \in {"word", "half"} -> Lost

Running == phase = "run" /\ m.exit = NoExit /\ ~m.lost

Step ==
  /\ Running /\ m.i # want.end
  /\ m' = IF m.i \in DOMAIN tramp THEN Executed(m, tramp[m.i])
                                  ELSE [m EXCEPT !.lost = TRUE]
  /\ UNCHANGED <<mode, base, copying, phase, want>>

NextBlock ==
  /\ Running /\ m.i = want.end
  /\ Enter(m.k + 1, m)
  /\ UNCHANGED <<mode, base, copying, phase>>

Leave ==
  /\ phase = "run" /\ m.exit # NoExit
  /\ phase' = "ready"
  /\ m' = NoThread
  /\ want' = NoWant
  /\ UNCHANGED <<mode, base, copying>>

Next ==
  \/ \E x \in ThumbInsn : CopyThumb16(x) \/ CopyThumb32(x)
  \/ CopyThumbTail
  \/ \E x \in ArmInsn : CopyArm(x)
  \/ FinalJump
  \/ \E k \in 1 .. Len(obnd) : Start(k)
  \/ Step
  \/ NextBlock
  \/ Leave

Spec == Init /\ [][Next]_vars

-----------------------------------------------------------------------------
TypeOK ==
  /\ mode \in {"thumb", "arm"}
  /\ base \in Nat
  /\ src \in Seq(ThumbInsn \cup ArmInsn)
  /\ opos \in Nat
  /\ tpos \in Nat
  /\ obnd \in Seq(Nat)
  /\ tbnd \in Seq(Nat)
  /\ phase \in {"copy", "jump", "ready", "run"}

(* The two boundary tables go together: both grow, so that                 *)
(* doProcessThreadPC finds one entry for an offset, and with one entry per *)
(* instruction copied, plus one where the loop was left early.             *)
TablesPair ==
  /\ Len(obnd) = Len(tbnd)
  /\ Len(obnd) \in {Len(src), Len(src) + 1}
  /\ \A j, k \in DOMAIN obnd : j < k => obnd[j] < obnd[k] /\ tbnd[j] < tbnd[k]

(* Every block begins at a word: the PC-relative loads of a Thumb block    *)
(* find their literal only if it does, since LDR aligns the PC.            *)
BlocksAligned ==
  /\ (tpos * Unit) % 4 = 0
  /\ \A k \in DOMAIN tbnd : tbnd[k] % 4 = 0

(* Bytes that doInlineHook overwrites: a NOP before the jump where the     *)
(* function is not aligned to a word.                                      *)
PatchBytes == IF Thumb /\ base % 4 # 0 THEN 10 ELSE 8

(* The copy covers all that the entry jump overwrites, so that the jump    *)
(* back never lands in it, and never reads past what was saved.            *)
ResumeSafe ==
  /\ opos * Unit <= Length
  /\ phase \in {"jump", "ready", "run"} => opos * Unit >= PatchBytes

(* From any boundary, each block of the trampoline does what its original  *)
(* instruction did, and leaves registers, stack and IT state as that would *)
(* have; the thread never executes a literal or half an instruction.       *)
MeaningKept ==
  /\ ~m.lost
  /\ phase = "run" /\ (m.exit # NoExit \/ m.i = want.end) =>
       /\ m.exit = want.exit
       /\ m.regs = want.regs
       /\ m.it = want.it
       /\ m.did = want.did
       /\ m.stack = <<>>
====
