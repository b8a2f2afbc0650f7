--------------------------- MODULE RelocateProofs ---------------------------
(***************************************************************************)
(* What relocateInstruction leaves behind, for every set of instructions a *)
(* function may begin with: the two tables agree, blocks are aligned, and  *)
(* the jump back clears the entry jump.                                    *)
(***************************************************************************)
EXTENDS Relocate, TLAPS

(* The block of a 16-bit Thumb instruction takes an even number of         *)
(* halfwords: the NOP after a copied instruction is there for that.        *)
LEMMA Thumb16Room ==
  ASSUME NEW pc, NEW x
  PROVE  Len(relocateInstructionInThumb16(pc, x)) \in {2, 4, 6, 8}
<1>1. CASE x.type \in {"B1_THUMB16", "CB_THUMB16"}
  BY <1>1 DEF relocateInstructionInThumb16, CondJump, ThumbJump
<1>2. CASE x.type \in {"B2_THUMB16", "BX_THUMB16"}
  BY <1>2 DEF relocateInstructionInThumb16, CondJump, ThumbJump
<1>3. CASE x.type = "ADD_THUMB16"
  BY <1>3 DEF relocateInstructionInThumb16, CondJump, ThumbJump
<1>4. CASE x.type \in {"MOV_THUMB16", "ADR_THUMB16", "LDR_THUMB16"}
  BY <1>4 DEF relocateInstructionInThumb16, CondJump, ThumbJump
<1>5. CASE x.type \notin {"B1_THUMB16", "CB_THUMB16", "B2_THUMB16", "BX_THUMB16",
                          "ADD_THUMB16", "MOV_THUMB16", "ADR_THUMB16", "LDR_THUMB16"}
  BY <1>5 DEF relocateInstructionInThumb16, CondJump, ThumbJump
<1> QED BY <1>1, <1>2, <1>3, <1>4, <1>5

(* So does the block of a 32-bit Thumb instruction.                        *)
LEMMA Thumb32Room ==
  ASSUME NEW pc, NEW x
  PROVE  Len(relocateInstructionInThumb32(pc, x)) \in {2, 4, 6, 14}
<1>1. CASE x.type \in {"BLX_THUMB32", "BL_THUMB32", "B1_THUMB32", "B2_THUMB32"}
  BY <1>1 DEF relocateInstructionInThumb32, CondJump, ThumbJump
<1>2. CASE x.type \in {"ADR1_THUMB32", "ADR2_THUMB32", "LDR_THUMB32"}
  BY <1>2 DEF relocateInstructionInThumb32, CondJump, ThumbJump
<1>3. CASE x.type \in {"TBB_THUMB32", "TBH_THUMB32"}
  BY <1>3 DEF relocateInstructionInThumb32, CondJump, ThumbJump
<1>4. CASE x.type \notin {"BLX_THUMB32", "BL_THUMB32", "B1_THUMB32", "B2_THUMB32",
                          "ADR1_THUMB32", "ADR2_THUMB32", "LDR_THUMB32",
                          "TBB_THUMB32", "TBH_THUMB32"}
  BY <1>4 DEF relocateInstructionInThumb32, CondJump, ThumbJump
<1> QED BY <1>1, <1>2, <1>3, <1>4

(* The block of an ARM instruction takes whole words, at least one.        *)
LEMMA ArmRoom ==
  ASSUME NEW pc, NEW x
  PROVE  Len(InArm(pc, x)) \in {1, 2, 3, 6}
<1>1. CASE x.type \in {"BLX_ARM", "BL_ARM", "B_ARM", "BX_ARM"}
  BY <1>1 DEF InArm, ArmJump
<1>2. CASE x.type = "ADD_ARM"
  BY <1>2 DEF InArm, ArmJump
<1>3. CASE x.type \in {"ADR1_ARM", "ADR2_ARM", "LDR_ARM", "MOV_ARM"}
  BY <1>3 DEF InArm, ArmJump
<1>4. CASE x.type \notin {"BLX_ARM", "BL_ARM", "B_ARM", "BX_ARM", "ADD_ARM",
                          "ADR1_ARM", "ADR2_ARM", "LDR_ARM", "MOV_ARM"}
  BY <1>4 DEF InArm, ArmJump
<1> QED BY <1>1, <1>2, <1>3, <1>4

-----------------------------------------------------------------------------
(* While the loop runs, it has not reached the end, and what it recorded   *)
(* lies behind both positions; that is what makes TablesPair inductive.    *)
Behind ==
  /\ phase = "copy" =>
       /\ opos < Length \div Unit
       /\ Len(obnd) = Len(src)
       /\ \A k \in DOMAIN obnd : obnd[k] < opos * Unit /\ tbnd[k] < tpos * Unit

RelocateInv == TypeOK /\ TablesPair /\ BlocksAligned /\ ResumeSafe /\ Behind

(* Sizes for the two states of the processor.                              *)
LEMMA Sizes ==
  ASSUME mode \in {"thumb", "arm"}
  PROVE  /\ Thumb => Unit = 2 /\ Length = 12 /\ Length \div Unit = 6
         /\ ~Thumb => Unit = 4 /\ Length = 8 /\ Length \div Unit = 2
         /\ PatchBytes \in {8, 10}
         /\ ~Thumb => PatchBytes = 8
  BY DEF Thumb, Unit, Length, PatchBytes

(* The loop begins with empty tables at both starts.                       *)
LEMMA InitInv == Init => RelocateInv
  BY DEF Init, RelocateInv, TypeOK, TablesPair, BlocksAligned, ResumeSafe, Behind,
         CodeBase, Unit, Length, Thumb, PatchBytes

(* A position that advances grows.                                         *)
LEMMA Grows ==
  ASSUME NEW a \in Nat, NEW b \in Nat \ {0}
  PROVE  a + b \in Nat /\ a < a + b
OBVIOUS

(* Positions in units are ordered as they are in bytes.                    *)
LEMMA Scaled ==
  ASSUME NEW u \in {2, 4}, NEW a \in Nat, NEW b \in Nat
  PROVE  /\ a * u \in Nat
         /\ a < b => a * u < b * u
         /\ a <= b => a * u <= b * u
<1>1. CASE u = 2
  BY <1>1
<1>2. CASE u = 4
  BY <1>2
<1> QED BY <1>1, <1>2

(* A halfword position that is word-aligned is even.                       *)
LEMMA EvenUnits ==
  ASSUME NEW t \in Nat, (t * 2) % 4 = 0
  PROVE  \E a \in Nat : t = 2 * a
<1>1. PICK q \in Nat : t = 2 * q \/ t = 2 * q + 1
  OBVIOUS
<1>2. CASE t = 2 * q + 1
  <2>1. t * 2 = 4 * q + 2
    BY <1>2
  <2>2. (4 * q + 2) % 4 = 2
    OBVIOUS
  <2> QED BY <2>1, <2>2
<1> QED BY <1>1, <1>2

(* The instruction ends inside the bytes to relocate, and its block is a   *)
(* whole number of words.                                                  *)
Fits(units) == opos + units <= Length \div Unit
WholeWords(block) == Len(block) \in Nat \ {0} /\ (Thumb => Len(block) % 2 = 0)

(* A block of as many units as those of the Thumb instructions take.       *)
LEMMA Whole ==
  ASSUME NEW block, NEW n \in {2, 4, 6, 8, 14}, Len(block) = n
  PROVE  WholeWords(block)
<1>1. n \in Nat \ {0} /\ n % 2 = 0
  OBVIOUS
<1> QED BY <1>1 DEF WholeWords

(* One iteration that relocates an instruction, of either state: it        *)
(* advances by at least one unit and by a whole number of words.           *)
LEMMA Iteration ==
  ASSUME RelocateInv, phase = "copy",
         NEW x \in ThumbInsn \cup ArmInsn, NEW units \in {1, 2}, NEW block,
         Fits(units), WholeWords(block),
         Boundary, Emit(x, units, block), UNCHANGED <<mode, base>>
  PROVE  RelocateInv'
<1>0. PICK u \in {2, 4}, n \in {2, 6} :
         /\ u = Unit /\ n = Length \div Unit /\ Length = n * u
         /\ Thumb => u = 2
         /\ ~Thumb => u = 4
         /\ PatchBytes \in {8, 10} /\ PatchBytes <= n * u
  <2>1. CASE Thumb
    BY <2>1, Sizes DEF RelocateInv, TypeOK
  <2>2. CASE ~Thumb
    BY <2>2, Sizes DEF RelocateInv, TypeOK
  <2> QED BY <2>1, <2>2
<1>1. /\ mode \in {"thumb", "arm"} /\ Unit' = u /\ Length' = n * u
      /\ (Length \div Unit)' = n /\ PatchBytes' = PatchBytes
  BY <1>0 DEF RelocateInv, TypeOK, Unit, Length, Thumb, PatchBytes
<1>2. opos \in Nat /\ tpos \in Nat /\ base \in Nat /\ src \in Seq(ThumbInsn \cup ArmInsn)
      /\ obnd \in Seq(Nat) /\ tbnd \in Seq(Nat)
  BY DEF RelocateInv, TypeOK
<1>3. opos * u \in Nat /\ tpos * u \in Nat
  BY <1>2, Scaled
<1>4. /\ obnd' = Append(obnd, opos * u) /\ tbnd' = Append(tbnd, tpos * u)
      /\ src' = Append(src, x) /\ opos' = opos + units /\ tpos' = tpos + Len(block)
      /\ phase' = IF opos + units >= n THEN "jump" ELSE "copy"
      /\ opos + units <= n
  BY <1>0 DEF Boundary, Emit, Fits
<1>5. /\ opos * u < opos' * u /\ tpos * u < tpos' * u
      /\ opos' \in Nat /\ tpos' \in Nat
  <2>1. opos' \in Nat /\ opos < opos'
    <3>1. opos' = opos + units
      BY <1>4
    <3>2. opos \in Nat
      BY <1>2
    <3>3. units \in Nat \ {0}
      OBVIOUS
    <3> QED BY <3>1, <3>2, <3>3, Grows
  <2>2. tpos' \in Nat /\ tpos < tpos'
    <3>1. tpos' = tpos + Len(block)
      BY <1>4
    <3>2. tpos \in Nat
      BY <1>2
    <3>3. Len(block) \in Nat \ {0}
      BY DEF WholeWords
    <3> QED BY <3>1, <3>2, <3>3, Grows
  <2> QED BY <1>2, <2>1, <2>2, Scaled
<1>6. TypeOK'
  <2>1. obnd' \in Seq(Nat) /\ tbnd' \in Seq(Nat) /\ src' \in Seq(ThumbInsn \cup ArmInsn)
    BY <1>2, <1>3, <1>4
  <2>2. mode' = mode /\ base' = base
    OBVIOUS
  <2>3. phase' \in {"copy", "jump", "ready", "run"}
    BY <1>4
  <2> QED BY <1>1, <1>2, <1>5, <2>1, <2>2, <2>3 DEF TypeOK
<1>7. /\ Len(obnd) = Len(src) /\ Len(tbnd) = Len(obnd)
      /\ \A k \in DOMAIN obnd : obnd[k] < opos * u /\ tbnd[k] < tpos * u
  BY <1>0 DEF RelocateInv, Behind, TablesPair
<1>8. Len(obnd') = Len(obnd) + 1 /\ Len(tbnd') = Len(obnd) + 1 /\ Len(src') = Len(obnd) + 1
  BY <1>2, <1>3, <1>4, <1>7
<1>9. /\ DOMAIN obnd' = 1 .. Len(obnd) + 1 /\ DOMAIN tbnd' = DOMAIN obnd'
      /\ DOMAIN obnd = 1 .. Len(obnd) /\ DOMAIN tbnd = DOMAIN obnd
      /\ obnd'[Len(obnd) + 1] = opos * u /\ tbnd'[Len(obnd) + 1] = tpos * u
      /\ \A k \in DOMAIN obnd : obnd'[k] = obnd[k] /\ tbnd'[k] = tbnd[k]
  <2>1. /\ DOMAIN obnd' = 1 .. Len(obnd) + 1 /\ DOMAIN obnd = 1 .. Len(obnd)
        /\ DOMAIN tbnd' = 1 .. Len(obnd) + 1 /\ DOMAIN tbnd = 1 .. Len(obnd)
    BY <1>2, <1>3, <1>4, <1>7
  <2>2. /\ obnd'[Len(obnd) + 1] = opos * u
        /\ \A k \in DOMAIN obnd : obnd'[k] = obnd[k]
    BY <1>2, <1>3, <1>4
  <2>3. /\ tbnd'[Len(tbnd) + 1] = tpos * u
        /\ \A k \in DOMAIN tbnd : tbnd'[k] = tbnd[k]
    BY <1>2, <1>3, <1>4
  <2> QED BY <1>7, <2>1, <2>2, <2>3
<1>10. TablesPair'
  <2>1. \A j, k \in DOMAIN obnd : j < k => obnd[j] < obnd[k] /\ tbnd[j] < tbnd[k]
    BY DEF RelocateInv, TablesPair
  <2>2. ASSUME NEW j \in DOMAIN obnd', NEW k \in DOMAIN obnd', j < k
        PROVE  obnd'[j] < obnd'[k] /\ tbnd'[j] < tbnd'[k]
    <3>1. j \in DOMAIN obnd /\ Len(obnd) \in Nat
      BY <2>2, <1>2, <1>9
    <3>2. CASE k = Len(obnd) + 1
      BY <3>1, <3>2, <1>7, <1>9
    <3>3. CASE k # Len(obnd) + 1
      <4>1. k \in DOMAIN obnd
        BY <3>1, <3>3, <1>9
      <4> QED BY <2>1, <2>2, <3>1, <4>1, <1>9
    <3> QED BY <3>2, <3>3
  <2> QED BY <2>2, <1>8 DEF TablesPair
<1>11. BlocksAligned'
  <2>1. (tpos * u) % 4 = 0 /\ \A k \in DOMAIN tbnd : tbnd[k] % 4 = 0
    BY <1>0 DEF RelocateInv, BlocksAligned
  <2>2. (tpos' * u) % 4 = 0
    <3>1. CASE Thumb
      <4>1. u = 2 /\ Len(block) % 2 = 0
        BY <1>0, <3>1 DEF WholeWords
      <4>2. PICK a \in Nat : tpos = 2 * a
        BY <1>2, <2>1, <4>1, EvenUnits
      <4>3. PICK b \in Nat : Len(block) = 2 * b
        BY <4>1 DEF WholeWords
      <4>4. tpos' * u = 4 * (a + b)
        BY <1>4, <4>1, <4>2, <4>3
      <4> QED BY <4>4
    <3>2. CASE ~Thumb
      <4>1. u = 4
        BY <1>0, <3>2
      <4>2. Len(block) \in Nat
        BY DEF WholeWords
      <4> QED BY <1>2, <1>4, <4>1, <4>2
    <3> QED BY <3>1, <3>2
  <2>3. \A k \in DOMAIN tbnd' : tbnd'[k] % 4 = 0
    <3> SUFFICES ASSUME NEW k \in DOMAIN tbnd'
                 PROVE  tbnd'[k] % 4 = 0
      OBVIOUS
    <3>1. CASE k = Len(obnd) + 1
      BY <3>1, <1>9, <2>1
    <3>2. CASE k # Len(obnd) + 1
      <4>1. k \in DOMAIN obnd
        BY <3>2, <1>2, <1>9
      <4> QED BY <4>1, <1>9, <2>1
    <3> QED BY <3>1, <3>2
  <2> QED BY <2>2, <2>3, <1>1 DEF BlocksAligned
<1>12. opos' * u <= n * u /\ (phase' = "jump" => opos' = n)
  <2>1. opos' <= n /\ (phase' = "jump" => opos' = n)
    BY <1>2, <1>4
  <2> QED BY <1>5, <2>1, Scaled
<1>13. ResumeSafe'
  <2>1. opos' * u <= n * u /\ (phase' \in {"jump", "ready", "run"} => opos' * u >= PatchBytes)
    BY <1>0, <1>4, <1>12
  <2> QED BY <1>1, <2>1 DEF ResumeSafe
<1>14. Behind'
  <2>1. phase' = "copy" => opos' < (Length \div Unit)'
    <3>1. phase' = "copy" => opos' < n
      BY <1>2, <1>4
    <3> QED BY <1>1, <3>1
  <2>2. \A k \in DOMAIN obnd' : obnd'[k] < opos' * u /\ tbnd'[k] < tpos' * u
    <3> SUFFICES ASSUME NEW k \in DOMAIN obnd'
                 PROVE  obnd'[k] < opos' * u /\ tbnd'[k] < tpos' * u
      OBVIOUS
    <3>1. opos * u < opos' * u /\ tpos * u < tpos' * u /\ opos' * u \in Int /\ tpos' * u \in Int
      BY <1>5, Scaled
    <3>2. CASE k = Len(obnd) + 1
      BY <3>1, <3>2, <1>9
    <3>3. CASE k # Len(obnd) + 1
      <4>1. k \in DOMAIN obnd /\ obnd[k] \in Nat /\ tbnd[k] \in Nat
        BY <3>3, <1>2, <1>9
      <4>2. obnd'[k] = obnd[k] /\ obnd[k] < opos * u /\ tbnd'[k] = tbnd[k] /\ tbnd[k] < tpos * u
        BY <4>1, <1>7, <1>9
      <4> QED BY <3>1, <4>1, <4>2, <1>3
    <3> QED BY <3>2, <3>3
  <2> QED BY <2>1, <2>2, <1>0, <1>1, <1>8 DEF Behind
<1> QED BY <1>6, <1>10, <1>11, <1>13, <1>14 DEF RelocateInv

-----------------------------------------------------------------------------
(* Every step keeps the invariant; only the loop's actions can disturb it. *)
LEMMA NextInv == RelocateInv /\ [Next]_vars => RelocateInv'
<1> SUFFICES ASSUME RelocateInv, [Next]_vars
             PROVE  RelocateInv'
  OBVIOUS
<1>0. mode \in {"thumb", "arm"} /\ opos \in Nat
  BY DEF RelocateInv, TypeOK
<1>1. ASSUME NEW x \in ThumbInsn, CopyThumb16(x)
      PROVE  RelocateInv'
  <2> DEFINE b == relocateInstructionInThumb16(Pc, x)
  <2>1. Thumb /\ phase = "copy" /\ Boundary /\ Emit(x, 1, b) /\ UNCHANGED <<mode, base>>
    BY <1>1 DEF CopyThumb16
  <2>2. Fits(1)
    BY <1>0, <2>1, Sizes DEF RelocateInv, Behind, Fits
  <2>3. Len(b) \in {2, 4, 6, 8}
    BY Thumb16Room
  <2> HIDE DEF b
  <2>4. WholeWords(b)
    BY <2>3, Whole
  <2> QED BY <2>1, <2>2, <2>4, Iteration
<1>2. ASSUME NEW x \in ThumbInsn, CopyThumb32(x)
      PROVE  RelocateInv'
  <2> DEFINE b == relocateInstructionInThumb32(Pc, x)
  <2>1. /\ Thumb /\ phase = "copy" /\ Boundary /\ Emit(x, 2, b) /\ UNCHANGED <<mode, base>>
        /\ Fits(2)
    BY <1>2 DEF CopyThumb32, Fits
  <2>3. Len(b) \in {2, 4, 6, 14}
    BY Thumb32Room
  <2> HIDE DEF b
  <2>4. WholeWords(b)
    BY <2>3, Whole
  <2> QED BY <2>1, <2>4, Iteration
<1>3. ASSUME NEW x \in ArmInsn, CopyArm(x)
      PROVE  RelocateInv'
  <2> DEFINE b == InArm(Pc, x)
  <2>1. ~Thumb /\ phase = "copy" /\ Boundary /\ Emit(x, 1, b) /\ UNCHANGED <<mode, base>>
    BY <1>3 DEF CopyArm
  <2>2. Fits(1)
    BY <1>0, <2>1, Sizes DEF RelocateInv, Behind, Fits
  <2>3. Len(b) \in {1, 2, 3, 6}
    BY ArmRoom
  <2> HIDE DEF b
  <2>4. WholeWords(b)
    BY <2>1, <2>3 DEF WholeWords
  <2> QED BY <2>1, <2>2, <2>4, Iteration
<1>4. CASE CopyThumbTail
  <2>1. /\ Thumb /\ phase = "copy" /\ phase' = "jump" /\ Boundary
        /\ opos + 2 > Length \div Unit
        /\ UNCHANGED <<mode, base, src, opos, tpos>>
    BY <1>4 DEF CopyThumbTail
  <2>2. /\ Unit = 2 /\ Length = 12 /\ Length \div Unit = 6 /\ PatchBytes \in {8, 10}
        /\ Unit' = 2 /\ Length' = 12 /\ PatchBytes' = PatchBytes
    BY <1>0, <2>1, Sizes DEF Unit, Length, Thumb, PatchBytes
  <2>3. /\ opos = 5 /\ tpos \in Nat /\ obnd \in Seq(Nat) /\ tbnd \in Seq(Nat)
        /\ Len(obnd) = Len(src) /\ Len(tbnd) = Len(obnd)
        /\ \A k \in DOMAIN obnd : obnd[k] < 10 /\ tbnd[k] < tpos * 2
        /\ \A j, k \in DOMAIN obnd : j < k => obnd[j] < obnd[k] /\ tbnd[j] < tbnd[k]
        /\ (tpos * 2) % 4 = 0 /\ \A k \in DOMAIN tbnd : tbnd[k] % 4 = 0
    BY <1>0, <2>1, <2>2 DEF RelocateInv, Behind, TypeOK, TablesPair, BlocksAligned
  <2>4. obnd' = Append(obnd, 10) /\ tbnd' = Append(tbnd, tpos * 2) /\ tpos * 2 \in Nat
    BY <2>1, <2>2, <2>3 DEF Boundary
  <2>5. /\ DOMAIN obnd = 1 .. Len(obnd) /\ DOMAIN tbnd = 1 .. Len(obnd)
        /\ DOMAIN obnd' = 1 .. Len(obnd) + 1 /\ DOMAIN tbnd' = 1 .. Len(obnd) + 1
        /\ Len(obnd) \in Nat /\ Len(obnd') = Len(obnd) + 1 /\ Len(tbnd') = Len(obnd) + 1
    BY <2>3, <2>4
  <2>6. /\ obnd'[Len(obnd) + 1] = 10
        /\ \A k \in DOMAIN obnd : obnd'[k] = obnd[k]
    BY <2>3, <2>4
  <2>7. /\ tbnd'[Len(tbnd) + 1] = tpos * 2
        /\ \A k \in DOMAIN tbnd : tbnd'[k] = tbnd[k]
    BY <2>3, <2>4
  <2>8. TypeOK'
    BY <2>1, <2>3, <2>4 DEF RelocateInv, TypeOK
  <2>9. TablesPair'
    <3>1. ASSUME NEW j \in DOMAIN obnd', NEW k \in DOMAIN obnd', j < k
          PROVE  obnd'[j] < obnd'[k] /\ tbnd'[j] < tbnd'[k]
      <4>1. j \in DOMAIN obnd
        BY <3>1, <2>5
      <4>2. CASE k = Len(obnd) + 1
        BY <4>1, <4>2, <2>3, <2>5, <2>6, <2>7
      <4>3. CASE k # Len(obnd) + 1
        <5>1. k \in DOMAIN obnd
          BY <4>3, <2>5
        <5> QED BY <3>1, <4>1, <5>1, <2>3, <2>5, <2>6, <2>7
      <4> QED BY <4>2, <4>3
    <3> QED BY <3>1, <2>1, <2>3, <2>5 DEF TablesPair
  <2>10. BlocksAligned'
    <3>1. ASSUME NEW k \in DOMAIN tbnd'
          PROVE  tbnd'[k] % 4 = 0
      <4>1. CASE k = Len(obnd) + 1
        BY <4>1, <2>3, <2>7
      <4>2. CASE k # Len(obnd) + 1
        <5>1. k \in DOMAIN tbnd
          BY <4>2, <2>5
        <5> QED BY <5>1, <2>3, <2>7
      <4> QED BY <4>1, <4>2
    <3> QED BY <3>1, <2>1, <2>2, <2>3 DEF BlocksAligned
  <2>11. ResumeSafe' /\ Behind'
    BY <2>1, <2>2, <2>3 DEF ResumeSafe, Behind
  <2> QED BY <2>8, <2>9, <2>10, <2>11 DEF RelocateInv
<1>5. ASSUME UNCHANGED <<mode, base, src, opos, tpos, obnd, tbnd>>,
             \/ UNCHANGED phase
             \/ phase # "copy" /\ phase' \in {"ready", "run"}
      PROVE  RelocateInv'
  BY <1>5 DEF RelocateInv, TypeOK, TablesPair, BlocksAligned, ResumeSafe, Behind,
              Unit, Length, Thumb, PatchBytes
<1>6. CASE FinalJump
  BY <1>5, <1>6 DEF FinalJump
<1>7. ASSUME NEW k \in 1 .. Len(obnd), Start(k)
      PROVE  RelocateInv'
  BY <1>5, <1>7 DEF Start, copying
<1>8. CASE Step
  BY <1>5, <1>8 DEF Step, copying
<1>9. CASE NextBlock
  BY <1>5, <1>9 DEF NextBlock, copying
<1>10. CASE Leave
  BY <1>5, <1>10 DEF Leave, copying
<1>11. CASE UNCHANGED vars
  BY <1>5, <1>11 DEF vars
<1> QED BY <1>1, <1>2, <1>3, <1>4, <1>6, <1>7, <1>8, <1>9, <1>10, <1>11 DEF Next

(* The invariant holds in every behaviour.                                 *)
LEMMA Invariant == Spec => []RelocateInv
  BY InitInv, NextInv, PTL DEF Spec

(* The positions, tables and phases of relocateInstruction keep their      *)
(* types, whatever a function begins with.                                 *)
THEOREM RelocateTypes == Spec => []TypeOK
  BY Invariant, PTL DEF RelocateInv

(* orig_boundaries and trampoline_boundaries pair up and grow, so that     *)
(* doProcessThreadPC's first match is its only match.                      *)
THEOREM BoundaryTablesPair == Spec => []TablesPair
  BY Invariant, PTL DEF RelocateInv

(* Every block of the trampoline, and the jump back after them, begins at  *)
(* a word, as the PC-relative loads in it require.                         *)
THEOREM LiteralsAligned == Spec => []BlocksAligned
  BY Invariant, PTL DEF RelocateInv

(* The jump back of the trampoline lands past all the bytes doInlineHook   *)
(* overwrites, and no instruction is read past the bytes that were saved.  *)
THEOREM ResumesPastPatch == Spec => []ResumeSafe
  BY Invariant, PTL DEF RelocateInv
-----------------------------------------------------------------------------
(***************************************************************************)
(* What a thread that runs the trampoline does, for every set of           *)
(* instructions a function may begin with: when each of the instructions   *)
(* copied is of a kind the relocator handles, every block does what its    *)
(* original instruction did, from whichever boundary the thread came in.   *)
(***************************************************************************)

(* The instructions whose block means the same, x at an address where the  *)
(* PC reads pc.  Left out: a condition the block does not test; IT, whose  *)
(* condition lands on the wrong instruction; the branch tables, ADR in     *)
(* Thumb and BX PC, computed wrongly; BL and B.W off a word, where         *)
(* ALIGN_PC is wrong; ADD of or to SP, which the block's push moves.       *)
Unconditional ==
  {"BLX_ARM", "BL_ARM", "B_ARM", "BX_ARM", "ADR1_ARM", "ADR2_ARM", "LDR_ARM", "MOV_ARM",
   "B2_THUMB16", "ADD_THUMB16", "MOV_THUMB16", "LDR_THUMB16",
   "BLX_THUMB32", "BL_THUMB32", "B2_THUMB32", "LDR_THUMB32"}
Conditional == {"B1_THUMB16", "CB_THUMB16", "B1_THUMB32"}
EitherWay == {"ADD_ARM"} \cup Plain
SP == 13

Names(x, pc) == IF x.type = "ADR2_ARM" THEN ALIGN_PC(pc) - x.imm ELSE ALIGN_PC(pc) + x.imm

Faithful(x, pc) ==
  /\ x.type \in Unconditional \cup Conditional \cup EitherWay
  /\ x.type \in Unconditional => x.cond = FALSE
  /\ x.type \in Conditional => x.cond = TRUE
  /\ x.type \in {"ADD_ARM", "ADD_THUMB16"} => x.rd \notin {PC, SP} /\ x.rm # SP
  /\ x.type \in {"MOV_THUMB16", "LDR_THUMB16"} => x.rd < 8
  /\ x.type \in {"BL_THUMB32", "B1_THUMB32", "B2_THUMB32"} => pc % 4 = 0
  /\ Names(x, pc) \in Nat          \* an address

AllFaithful == \A k \in 1 .. Len(src) : Faithful(src[k], OrigStart(k) + Ahead)

-----------------------------------------------------------------------------
(* The block that relocateInstructionInThumb or relocateInstructionInArm   *)
(* makes of x.                                                             *)
BlockOf(pc, x) ==
  CASE x.type \in Thumb16Type -> relocateInstructionInThumb16(pc, x)
    [] x.type \in Thumb32Type -> relocateInstructionInThumb32(pc, x)
    [] x.type \in ArmType -> InArm(pc, x)

(* A block's units are in the trampoline from unit s on.                   *)
Placed(s, block) ==
  \A j \in 1 .. Len(block) : s + j - 1 \in DOMAIN tramp /\ tramp[s + j - 1] = block[j]

Back == IF Thumb THEN ThumbJump(base + opos * Unit + 1) ELSE ArmJump(base + Length)

(* The blocks lie one behind the other, each with its own instruction's    *)
(* address in it, and the jump back behind them: what is stored later      *)
(* never replaces a unit.                                                  *)
Layout ==
  /\ \A k \in 1 .. Len(src) :
       /\ src[k].type \in (IF Thumb THEN Thumb16Type \cup Thumb32Type ELSE ArmType)
       /\ BlockStart(k + 1) = BlockStart(k) + Len(BlockOf(OrigStart(k) + Ahead, src[k]))
       /\ Placed(BlockStart(k), BlockOf(OrigStart(k) + Ahead, src[k]))
       /\ ~Thumb => OrigStart(k) % 4 = 0
  /\ phase \in {"copy", "jump"} => \A i \in DOMAIN tramp : i \in Nat /\ i < tpos
  /\ phase \in {"ready", "run"} => Placed(tpos, Back)
  /\ ~Thumb => base % 4 = 0 /\ (phase # "copy" => opos = 2)

-----------------------------------------------------------------------------
(* Thread t at unit i.                                                     *)
At(t, i, did, regs, stack, exit) ==
  [i |-> i, k |-> t.k, flag |-> t.flag, it |-> 0, did |-> did, regs |-> regs, stack |-> stack,
   exit |-> exit, lost |-> FALSE]
Within(t, i, regs) == At(t, i, 0, regs, <<>>, NoExit)
Outside(t, i, regs, a) == At(t, i, 0, regs, <<>>, a)
With(regs, r, v) == [regs EXCEPT ![r] = v]

(* The states thread t passes through from the start of a block to its end *)
(* or its exit.                                                            *)
Jumping(t, n, a) == {t, Outside(t, t.i + n, t.regs, a)}
Calling(t, n, a, ret) ==
  {t, Within(t, t.i + n, With(t.regs, LR, ret)),
      Outside(t, t.i + 2 * n, With(t.regs, LR, ret), a)}
Testing(t, a) ==
  {t} \cup IF t.flag THEN {Within(t, t.i + 2, t.regs), Outside(t, t.i + 4, t.regs, a)}
                     ELSE {Within(t, t.i + 1, t.regs), Within(t, t.i + 6, t.regs)}
Loading(t, n, d, v, steps) ==
  {t} \cup IF d = PC THEN {Outside(t, t.i + n, t.regs, v)}
                     ELSE {Within(t, t.i + j, With(t.regs, d, v)) : j \in steps}
Adding(t, r, pc, d, sum, end) ==
  LET Saved(n, regs) == At(t, t.i + n, 0, regs, <<t.regs[r]>>, NoExit)
  IN  {t, Saved(1, t.regs), Saved(2, With(t.regs, r, pc)),
          Saved(3, With(With(t.regs, r, pc), d, sum)),
          Within(t, t.i + 4, With(t.regs, d, sum)),
          Within(t, t.i + end, With(t.regs, d, sum))}
Keeping(t, x, steps) ==
  {t} \cup {At(t, t.i + j, IF x.cond => t.flag THEN 1 ELSE 0, t.regs, <<>>, NoExit) : j \in steps}

Path(x, pc, t, ret) ==
  CASE x.type \in {"B1_THUMB16", "CB_THUMB16", "B1_THUMB32"} -> Testing(t, pc + x.imm + 1)
    [] x.type \in {"B2_THUMB16", "B2_THUMB32"} -> Jumping(t, 2, pc + x.imm + 1)
    [] x.type = "B_ARM" -> Jumping(t, 1, pc + x.imm)
    [] x.type = "BX_ARM" -> Jumping(t, 1, pc)
    [] x.type = "BLX_THUMB32" -> Calling(t, 2, ALIGN_PC(pc) + x.imm, ret)
    [] x.type = "BL_THUMB32" -> Calling(t, 2, pc + x.imm + 1, ret)
    [] x.type = "BLX_ARM" -> Calling(t, 1, pc + x.imm + 1, ret)
    [] x.type = "BL_ARM" -> Calling(t, 1, pc + x.imm, ret)
    [] x.type = "ADD_THUMB16" -> Adding(t, Scratch(7, {x.rd}), pc, x.rd, t.regs[x.rd] + pc, 8)
    [] x.type = "ADD_ARM" ->
         Adding(t, Scratch(12, {x.rd, x.rm}), pc, x.rd,
                IF x.cond => t.flag THEN pc + t.regs[x.rm] ELSE t.regs[x.rd], 6)
    [] x.type = "MOV_THUMB16" -> Loading(t, 1, x.rd, pc, {1, 4})
    [] x.type = "LDR_THUMB16" -> Loading(t, 1, x.rd, WordAt(ALIGN_PC(pc) + x.imm * 4), {1, 4})
    [] x.type = "LDR_THUMB32" -> Loading(t, 2, x.rd, WordAt(ALIGN_PC(pc) + x.imm), {2, 3, 6})
    [] x.type = "ADR1_ARM" -> Loading(t, 1, x.rd, pc + x.imm, {1, 3})
    [] x.type = "ADR2_ARM" -> Loading(t, 1, x.rd, pc - x.imm, {1, 3})
    [] x.type = "LDR_ARM" -> Loading(t, 1, x.rd, WordAt(pc + x.imm), {1, 3})
    [] x.type = "MOV_ARM" -> Loading(t, 1, x.rd, pc, {1, 3})
    [] x.type = "UNDEFINE16" -> Keeping(t, x, {1, 2})
    [] x.type = "UNDEFINE32" -> Keeping(t, x, {2})
    [] x.type = "UNDEFINE_ARM" -> Keeping(t, x, {1})

RegFile == [Reg -> Int]

(* A thread on its way through a block: no IT block is open, nothing lost. *)
Thread == [i : Nat, k : Nat, flag : BOOLEAN, it : {0}, did : Nat, regs : RegFile,
           stack : Seq(Int), exit : Int, lost : {FALSE}]

(* The thread at the start of block k, and where it may be from there on.  *)
Entered(t, k) == t.i = BlockStart(k) /\ t.k = k /\ t.did = 0 /\ t.stack = <<>> /\ t.exit = NoExit

Way(t, k) ==
  IF k <= Len(src)
    THEN Path(src[k], OrigStart(k) + Ahead, t, TrampBase + BlockStart(k + 1) * Unit + Bit)
    ELSE Jumping(t, IF Thumb THEN 2 ELSE 1, OrigStart(k) + Bit)

(* Thread u entered a block, is on its way through it, and w is what the   *)
(* original instruction would have done with it.                           *)
Follows(u, w) ==
  /\ u.k \in 1 .. Len(src) + 1
  /\ \E t \in Thread : Entered(t, u.k) /\ u \in Way(t, u.k) /\ w = Wanted(u.k, t)

-----------------------------------------------------------------------------
LiteralAt(i, v) == (ALIGN_PC(TrampBase + i * Unit + Ahead) + v - TrampBase) \div Unit

(* LDR from a literal.                                                     *)
LEMMA RunLdr ==
  ASSUME NEW t \in Thread, NEW len \in Nat, NEW r \in Reg, NEW v \in Int, NEW w \in Int,
         LiteralAt(t.i, v) \in DOMAIN tramp, tramp[LiteralAt(t.i, v)] = Word(w)
  PROVE  Executed(t, Ldr(len, r, v)) = At(t, t.i + len, t.did, With(t.regs, r, w), t.stack, t.exit)
<1> DEFINE o == Ldr(len, r, v)
           u == [t EXCEPT !.i = t.i + len, !.it = 0]
<1>1. o.op = "ldr" /\ o.len = len /\ o.rd = r /\ o.v = v /\ o.cond = FALSE
  BY DEF Ldr, Op
<1>2. Word(w).op = "word" /\ Word(w).v = w
  BY DEF Word, Op
<1>3. t.it = 0 /\ r # PC
  BY DEF Thread, RegFile, Reg, PC
<1>6. ~((o.cond \/ t.it = 1) /\ ~t.flag)
  BY <1>1, <1>3
<1> HIDE DEF o, u
<1>4. Executed(t, o) = [u EXCEPT !.regs[r] = w]
  BY <1>1, <1>2, <1>3, <1>6 DEF Executed, LiteralAt, u
<1>5. u = [t EXCEPT !.i = t.i + len]
  BY <1>3 DEF Thread, RegFile, u
<1> QED BY <1>4, <1>5 DEF Thread, RegFile, At, With, o

(* LDR into the PC leaves the trampoline.                                  *)
LEMMA RunLdrPC ==
  ASSUME NEW t \in Thread, NEW len \in Nat, NEW v \in Int, NEW w \in Int,
         LiteralAt(t.i, v) \in DOMAIN tramp, tramp[LiteralAt(t.i, v)] = Word(w)
  PROVE  Executed(t, Ldr(len, PC, v)) = At(t, t.i + len, t.did, t.regs, t.stack, w)
<1> DEFINE o == Ldr(len, PC, v)
           u == [t EXCEPT !.i = t.i + len, !.it = 0]
<1>1. /\ o.op = "ldr" /\ o.len = len /\ o.rd = PC /\ o.v = v /\ o.cond = FALSE
      /\ Word(w).op = "word" /\ Word(w).v = w
  BY DEF Ldr, Word, Op
<1>2. t.it = 0
  BY DEF Thread, RegFile
<1>3. ~((o.cond \/ t.it = 1) /\ ~t.flag)
  BY <1>1, <1>2
<1> HIDE DEF o, u
<1>4. Executed(t, o) = [u EXCEPT !.exit = w]
  BY <1>1, <1>2, <1>3 DEF Executed, LiteralAt, u
<1>5. u = [t EXCEPT !.i = t.i + len]
  BY <1>2 DEF Thread, RegFile, u
<1> QED BY <1>4, <1>5 DEF Thread, RegFile, At, With, o

TargetOf(i, v) == (TrampBase + i * Unit + Ahead + v - TrampBase) \div Unit

(* B, and ADD PC, PC.                                                      *)
LEMMA RunB ==
  ASSUME NEW t \in Thread, NEW v \in Int
  PROVE  Executed(t, B(v)) = At(t, TargetOf(t.i, v), t.did, t.regs, t.stack, t.exit)
<1> DEFINE o == B(v)
           u == [t EXCEPT !.i = t.i + 1, !.it = 0]
<1>1. o.op = "b" /\ o.len = 1 /\ o.v = v /\ o.cond = FALSE
  BY DEF B, Op
<1>2. t.it = 0
  BY DEF Thread, RegFile
<1>3. ~((o.cond \/ t.it = 1) /\ ~t.flag)
  BY <1>1, <1>2
<1> HIDE DEF o, u
<1>4. Executed(t, o) = [u EXCEPT !.i = TargetOf(t.i, v)]
  BY <1>1, <1>2, <1>3 DEF Executed, TargetOf, u
<1>5. u = [t EXCEPT !.i = t.i + 1]
  BY <1>2 DEF Thread, RegFile, u
<1> QED BY <1>4, <1>5 DEF Thread, RegFile, At, With, o

(* B<c> and CB{N}Z.                                                        *)
LEMMA RunBCond ==
  ASSUME NEW t \in Thread, NEW v \in Int
  PROVE  Executed(t, BCond(v)) = At(t, IF t.flag THEN TargetOf(t.i, v) ELSE t.i + 1, t.did, t.regs,
                                    t.stack, t.exit)
<1> DEFINE o == BCond(v)
           u == [t EXCEPT !.i = t.i + 1, !.it = 0]
<1>1. o.op = "bcond" /\ o.len = 1 /\ o.v = v /\ o.cond = FALSE
  BY DEF BCond, Op
<1>2. t.it = 0
  BY DEF Thread, RegFile
<1>3. ~((o.cond \/ t.it = 1) /\ ~t.flag)
  BY <1>1, <1>2
<1> HIDE DEF o, u
<1>4. Executed(t, o) = IF t.flag THEN [u EXCEPT !.i = TargetOf(t.i, v)] ELSE u
  BY <1>1, <1>2, <1>3 DEF Executed, TargetOf, u
<1>5. u = [t EXCEPT !.i = t.i + 1]
  BY <1>2 DEF Thread, RegFile, u
<1> QED BY <1>4, <1>5 DEF Thread, RegFile, At, With, o

PcAt(i) == ALIGN_PC(TrampBase + i * Unit + Ahead)

(* ADD LR, PC, the return address of a call.                               *)
LEMMA RunAddLR ==
  ASSUME NEW t \in Thread, NEW len \in Nat, NEW v \in Int
  PROVE  Executed(t, AddLR(len, v)) = At(t, t.i + len, t.did, With(t.regs, LR, PcAt(t.i) + v), t.stack, t.exit)
<1> DEFINE o == AddLR(len, v)
           u == [t EXCEPT !.i = t.i + len, !.it = 0]
<1>1. o.op = "addlr" /\ o.len = len /\ o.v = v /\ o.cond = FALSE
  BY DEF AddLR, Op
<1>2. t.it = 0
  BY DEF Thread, RegFile
<1>3. ~((o.cond \/ t.it = 1) /\ ~t.flag)
  BY <1>1, <1>2
<1> HIDE DEF o, u
<1>4. Executed(t, o) = [u EXCEPT !.regs[LR] = PcAt(t.i) + v]
  BY <1>1, <1>2, <1>3 DEF Executed, PcAt, u
<1>5. u = [t EXCEPT !.i = t.i + len]
  BY <1>2 DEF Thread, RegFile, u
<1> QED BY <1>4, <1>5 DEF Thread, RegFile, At, With, o

(* PUSH of one register.                                                   *)
LEMMA RunPush ==
  ASSUME NEW t \in Thread, NEW r \in Reg, t.stack = <<>>
  PROVE  Executed(t, Push(r)) = At(t, t.i + 1, t.did, t.regs, <<t.regs[r]>>, t.exit)
<1> DEFINE o == Push(r)
           u == [t EXCEPT !.i = t.i + 1, !.it = 0]
<1>1. o.op = "push" /\ o.len = 1 /\ o.rd = r /\ o.cond = FALSE
  BY DEF Push, Op
<1>2. t.it = 0
  BY DEF Thread, RegFile
<1>3. ~((o.cond \/ t.it = 1) /\ ~t.flag)
  BY <1>1, <1>2
<1> HIDE DEF o, u
<1>4. Executed(t, o) = [u EXCEPT !.stack = Append(@, t.regs[r])]
  BY <1>1, <1>2, <1>3 DEF Executed, u
<1>5. u = [t EXCEPT !.i = t.i + 1]
  BY <1>2 DEF Thread, RegFile, u
<1>6. t.regs[r] \in Int /\ t.regs \in RegFile
  BY DEF Thread, RegFile
<1>7. Append(u.stack, t.regs[r]) = <<t.regs[r]>>
  <2>1. u.stack = <<>>
    BY <1>5 DEF Thread, RegFile
  <2> QED BY <1>6, <2>1
<1> QED BY <1>4, <1>5, <1>7 DEF Thread, RegFile, At, With, o

(* POP of one register.                                                    *)
LEMMA RunPop ==
  ASSUME NEW t \in Thread, NEW r \in Reg, NEW v \in Int, t.stack = <<v>>
  PROVE  Executed(t, Pop(r)) = At(t, t.i + 1, t.did, With(t.regs, r, v), <<>>, t.exit)
<1> DEFINE o == Pop(r)
           u == [t EXCEPT !.i = t.i + 1, !.it = 0]
<1>1. o.op = "pop" /\ o.len = 1 /\ o.rd = r /\ o.cond = FALSE
  BY DEF Pop, Op
<1>2. t.it = 0
  BY DEF Thread, RegFile
<1>3. ~((o.cond \/ t.it = 1) /\ ~t.flag)
  BY <1>1, <1>2
<1> HIDE DEF o, u
<1>4. Executed(t, o) = [[u EXCEPT !.regs[r] = t.stack[Len(t.stack)]] EXCEPT
                         !.stack = SubSeq(@, 1, Len(@) - 1)]
  BY <1>1, <1>2, <1>3 DEF Executed, u
<1>5. u = [t EXCEPT !.i = t.i + 1]
  BY <1>2 DEF Thread, RegFile, u
<1>6. t.stack[Len(t.stack)] = v /\ SubSeq(t.stack, 1, Len(t.stack) - 1) = <<>>
  OBVIOUS
<1>7. u.stack = t.stack
  BY <1>5 DEF Thread, RegFile
<1> QED BY <1>4, <1>5, <1>6, <1>7 DEF Thread, RegFile, At, With, o

(* NOP.                                                                    *)
LEMMA RunNop ==
  ASSUME NEW t \in Thread
  PROVE  Executed(t, Nop) = At(t, t.i + 1, t.did, t.regs, t.stack, t.exit)
<1> DEFINE o == Nop
           u == [t EXCEPT !.i = t.i + 1, !.it = 0]
<1>1. o.op = "nop" /\ o.len = 1 /\ o.cond = FALSE
  BY DEF Nop, Op
<1>2. t.it = 0
  BY DEF Thread, RegFile
<1>3. ~((o.cond \/ t.it = 1) /\ ~t.flag)
  BY <1>1, <1>2
<1> HIDE DEF o, u
<1>4. Executed(t, o) = u
  BY <1>1, <1>2, <1>3 DEF Executed, u
<1>5. u = [t EXCEPT !.i = t.i + 1]
  BY <1>2 DEF Thread, RegFile, u
<1> QED BY <1>4, <1>5 DEF Thread, RegFile, At, With, o

(* An instruction that tests the flags is passed over when they say so.    *)
LEMMA RunSkipped ==
  ASSUME NEW t \in Thread, NEW o, o.len \in Nat, o.cond = TRUE, t.flag = FALSE
  PROVE  Executed(t, o) = At(t, t.i + o.len, t.did, t.regs, t.stack, t.exit)
<1> DEFINE u == [t EXCEPT !.i = t.i + o.len, !.it = 0]
<1>1. (o.cond \/ t.it = 1) /\ ~t.flag
  OBVIOUS
<1> HIDE DEF u
<1>2. Executed(t, o) = u
  BY <1>1 DEF Executed, u
<1>3. u = [t EXCEPT !.i = t.i + o.len]
  BY DEF Thread, RegFile, u
<1> QED BY <1>2, <1>3 DEF Thread, RegFile, At, With

(* ADD of two registers.                                                   *)
LEMMA RunAdd ==
  ASSUME NEW t \in Thread, NEW o,
         o.op = "add", o.len = 1, o.rd \in Reg, o.rn \in Reg, o.rm \in Reg, o.v = 1,
         o.cond \in BOOLEAN, o.cond => t.flag = TRUE
  PROVE  Executed(t, o) = At(t, t.i + 1, t.did, With(t.regs, o.rd, t.regs[o.rn] + t.regs[o.rm]),
                             t.stack, t.exit)
<1> DEFINE u == [t EXCEPT !.i = t.i + 1, !.it = 0]
<1>1. t.it = 0 /\ t.regs[o.rn] \in Int /\ t.regs[o.rm] \in Int
  BY DEF Thread, RegFile
<1>2. ~((o.cond \/ t.it = 1) /\ ~t.flag)
  BY <1>1
<1> HIDE DEF u
<1>3. Executed(t, o) = [u EXCEPT !.regs[o.rd] = t.regs[o.rn] + 1 * t.regs[o.rm]]
  BY <1>2 DEF Executed, u
<1>4. u = [t EXCEPT !.i = t.i + 1]
  BY <1>1 DEF Thread, u
<1>5. 1 * t.regs[o.rm] = t.regs[o.rm]
  BY <1>1
<1> QED BY <1>3, <1>4, <1>5 DEF Thread, RegFile, At, With

(* An instruction copied as it is.                                         *)
LEMMA RunInsn ==
  ASSUME NEW t \in Thread, NEW o, o.op = "insn", o.len \in Nat,
         o.cond \in BOOLEAN, o.cond => t.flag = TRUE, t.did = 0
  PROVE  Executed(t, o) = At(t, t.i + o.len, 1, t.regs, t.stack, t.exit)
<1> DEFINE u == [t EXCEPT !.i = t.i + o.len, !.it = 0]
<1>1. t.it = 0
  BY DEF Thread, RegFile
<1>2. ~((o.cond \/ t.it = 1) /\ ~t.flag)
  BY <1>1
<1> HIDE DEF u
<1>3. Executed(t, o) = [u EXCEPT !.did = @ + 1]
  BY <1>2 DEF Executed, u
<1>4. u = [t EXCEPT !.i = t.i + o.len]
  BY <1>1 DEF Thread, RegFile, u
<1>5. u.did + 1 = 1
  <2>1. u.did = 0
    BY <1>4 DEF Thread, RegFile
  <2> QED BY <2>1
<1> QED BY <1>3, <1>4, <1>5 DEF Thread, RegFile, At, With

(* Where the literals and branches of a Thumb block that begins at a word  *)
(* point.                                                                  *)
LEMMA ThumbDistances ==
  ASSUME NEW a \in Nat, NEW s, s = 2 * a, Thumb
  PROVE  /\ LiteralAt(s, 0) = s + 2 /\ LiteralAt(s + 2, 0) = s + 4
         /\ LiteralAt(s + 1, 8) = s + 6 /\ LiteralAt(s, 4) = s + 4
         /\ TargetOf(s, 0) = s + 2 /\ TargetOf(s + 1, 6) = s + 6 /\ TargetOf(s + 4, 4) = s + 8
         /\ TargetOf(s + 1, 2) = s + 4 /\ TargetOf(s + 3, 2) = s + 6
         /\ PcAt(s) + 9 = TrampBase + (s + 6) * Unit + Bit
<1>1. Unit = 2 /\ Ahead = 4 /\ Bit = 1
  BY DEF Unit, Ahead, Bit
<1>2. /\ TrampBase + s * 2 + 4 = 4 * (1025 + a)
      /\ TrampBase + (s + 1) * 2 + 4 = 4 * (1025 + a) + 2
      /\ TrampBase + (s + 2) * 2 + 4 = 4 * (1026 + a)
      /\ 1025 + a \in Nat /\ 1026 + a \in Nat
  BY DEF TrampBase
<1>3. /\ PcAt(s) = 4 * (1025 + a)
      /\ ALIGN_PC(TrampBase + s * Unit + Ahead) = 4 * (1025 + a)
      /\ ALIGN_PC(TrampBase + (s + 1) * Unit + Ahead) = 4 * (1025 + a)
      /\ ALIGN_PC(TrampBase + (s + 2) * Unit + Ahead) = 4 * (1026 + a)
  BY <1>1, <1>2 DEF PcAt, ALIGN_PC
<1>4. /\ LiteralAt(s, 0) = s + 2 /\ LiteralAt(s + 2, 0) = s + 4
      /\ LiteralAt(s + 1, 8) = s + 6 /\ LiteralAt(s, 4) = s + 4
  BY <1>1, <1>3 DEF LiteralAt, TrampBase
<1>5. /\ TargetOf(s, 0) = s + 2 /\ TargetOf(s + 1, 6) = s + 6 /\ TargetOf(s + 4, 4) = s + 8
      /\ TargetOf(s + 1, 2) = s + 4 /\ TargetOf(s + 3, 2) = s + 6
  BY <1>1 DEF TargetOf, TrampBase
<1> QED BY <1>1, <1>3, <1>4, <1>5 DEF TrampBase

(* The same of an ARM block.                                               *)
LEMMA ArmDistances ==
  ASSUME NEW s \in Nat, ~Thumb
  PROVE  /\ LiteralAt(s, -4) = s + 1 /\ LiteralAt(s + 1, -4) = s + 2
         /\ LiteralAt(s + 1, 8) = s + 5 /\ LiteralAt(s, 0) = s + 2
         /\ TargetOf(s + 1, 0) = s + 3 /\ TargetOf(s + 4, 0) = s + 6
         /\ PcAt(s) + 4 = TrampBase + (s + 3) * Unit + Bit
<1>1. Unit = 4 /\ Ahead = 8 /\ Bit = 0
  BY DEF Unit, Ahead, Bit
<1>2. /\ TrampBase + s * 4 + 8 = 4 * (1026 + s)
      /\ TrampBase + (s + 1) * 4 + 8 = 4 * (1027 + s)
      /\ 1026 + s \in Nat /\ 1027 + s \in Nat
  BY DEF TrampBase
<1>3. /\ PcAt(s) = 4 * (1026 + s)
      /\ ALIGN_PC(TrampBase + s * Unit + Ahead) = 4 * (1026 + s)
      /\ ALIGN_PC(TrampBase + (s + 1) * Unit + Ahead) = 4 * (1027 + s)
  BY <1>1, <1>2 DEF PcAt, ALIGN_PC
<1>4. /\ LiteralAt(s, -4) = s + 1 /\ LiteralAt(s + 1, -4) = s + 2
      /\ LiteralAt(s + 1, 8) = s + 5 /\ LiteralAt(s, 0) = s + 2
  BY <1>1, <1>3 DEF LiteralAt, TrampBase
<1>5. TargetOf(s + 1, 0) = s + 3 /\ TargetOf(s + 4, 0) = s + 6
  BY <1>1 DEF TargetOf, TrampBase
<1> QED BY <1>1, <1>3, <1>4, <1>5 DEF TrampBase

-----------------------------------------------------------------------------
(* A set of states through which the trampoline takes a thread to what w   *)
(* calls for: it stays in the set until the block ends or is left, and     *)
(* then has w's effects.                                                   *)
Arrives(u, w) ==
  u.exit = w.exit /\ u.regs = w.regs /\ u.did = w.did /\ u.it = w.it /\ u.stack = <<>>
Serves(P, w) ==
  \A u \in P :
    /\ u \in Thread
    /\ u.exit = NoExit /\ u.i # w.end => u.i \in DOMAIN tramp /\ Executed(u, tramp[u.i]) \in P
    /\ u.exit # NoExit \/ u.i = w.end => Arrives(u, w)

Fresh(t) == t \in Thread /\ t.did = 0 /\ t.stack = <<>> /\ t.exit = NoExit
Effects(w, t, exit, regs, did) ==
  w.exit = exit /\ w.regs = regs /\ w.did = did /\ w.it = 0 /\ w.end # t.i

(* The parts of a thread.                                                  *)
LEMMA ThreadIs ==
  ASSUME NEW t \in Thread
  PROVE  t.i \in Nat /\ t.regs \in RegFile /\ t.it = 0 /\ t.flag \in BOOLEAN
  BY DEF Thread

(* A thread with nothing done, pushed or left yet.                         *)
LEMMA FreshIs ==
  ASSUME NEW t, Fresh(t)
  PROVE  /\ t \in Thread /\ t.did = 0 /\ t.stack = <<>> /\ t.exit = NoExit
         /\ t.i \in Nat /\ t.regs \in RegFile /\ t.it = 0 /\ t.flag \in BOOLEAN
  BY ThreadIs DEF Fresh

(* A thread at unit i is a thread.                                         *)
LEMMA AtTyped ==
  ASSUME NEW t \in Thread, NEW i \in Nat, NEW did \in Nat, NEW regs \in RegFile,
         NEW stack \in Seq(Int), NEW exit \in Int
  PROVE  At(t, i, did, regs, stack, exit) \in Thread
  BY DEF At, Thread

(* So is one inside a block with nothing pushed.                           *)
LEMMA WithinTyped ==
  ASSUME NEW t \in Thread, NEW i \in Nat, NEW g \in RegFile
  PROVE  Within(t, i, g) \in Thread
<1>1. NoExit \in Int /\ <<>> \in Seq(Int) /\ 0 \in Nat
  BY DEF NoExit
<1> QED BY <1>1, AtTyped DEF Within

(* And one that left it.                                                   *)
LEMMA OutsideTyped ==
  ASSUME NEW t \in Thread, NEW i \in Nat, NEW g \in RegFile, NEW a \in Int
  PROVE  Outside(t, i, g, a) \in Thread
<1>1. <<>> \in Seq(Int) /\ 0 \in Nat
  OBVIOUS
<1> QED BY <1>1, AtTyped DEF Outside

(* Only k and flag of a thread are carried over.                           *)
LEMMA AtAgain ==
  ASSUME NEW t, NEW i, NEW did, NEW regs, NEW stack, NEW exit,
         NEW j, NEW d, NEW g, NEW s, NEW e, NEW u, u = At(t, i, did, regs, stack, exit)
  PROVE  At(u, j, d, g, s, e) = At(t, j, d, g, s, e)
  BY DEF At

(* Registers with one set.                                                 *)
LEMMA WithIs ==
  ASSUME NEW g \in RegFile, NEW r \in Reg, NEW v \in Int
  PROVE  With(g, r, v) \in RegFile /\ With(g, r, v)[r] = v
  BY DEF With, RegFile

(* LDR PC and its literal.                                                 *)
LEMMA JumpServes ==
  ASSUME NEW t, Fresh(t), NEW n \in {1, 2}, NEW a \in Int, a # NoExit, NEW v \in Int,
         NEW w, Effects(w, t, a, t.regs, 0),
         t.i \in DOMAIN tramp, tramp[t.i] = Ldr(n, PC, v),
         LiteralAt(t.i, v) \in DOMAIN tramp, tramp[LiteralAt(t.i, v)] = Word(a)
  PROVE  Serves(Jumping(t, n, a), w)
<1> DEFINE z == Outside(t, t.i + n, t.regs, a)
<1>1. /\ t \in Thread /\ t.did = 0 /\ t.stack = <<>> /\ t.exit = NoExit
      /\ t.i \in Nat /\ t.regs \in RegFile
  BY FreshIs
<1>2. n \in Nat /\ t.i + n \in Nat
  BY <1>1
<1>3. Jumping(t, n, a) = {t, z}
  BY DEF Jumping
<1>4. z \in Thread /\ z.exit = a /\ z.regs = t.regs /\ z.did = 0 /\ z.it = 0 /\ z.stack = <<>>
  <2>1. z \in Thread
    BY <1>1, <1>2, OutsideTyped
  <2>2. z.exit = a /\ z.regs = t.regs /\ z.did = 0 /\ z.it = 0 /\ z.stack = <<>>
    BY DEF Outside, At
  <2> QED BY <2>1, <2>2
<1>5. Executed(t, tramp[t.i]) = z
  <2>1. Executed(t, Ldr(n, PC, v)) = At(t, t.i + n, t.did, t.regs, t.stack, a)
    BY <1>1, <1>2, RunLdrPC
  <2> QED BY <1>1, <2>1 DEF Outside
<1> HIDE DEF z
<1>6. Arrives(z, w)
  BY <1>4 DEF Effects, Arrives
<1> QED BY <1>1, <1>3, <1>4, <1>5, <1>6 DEF Effects, Serves

(* ADD LR, PC and the jump.                                                *)
LEMMA CallServes ==
  ASSUME NEW t, Fresh(t), NEW n \in {1, 2}, NEW a \in Int, a # NoExit, NEW v \in Int, NEW l \in Int,
         NEW ret \in Int, ret = PcAt(t.i) + l,
         NEW w, Effects(w, t, a, With(t.regs, LR, ret), 0), w.end # t.i + n,
         t.i \in DOMAIN tramp, tramp[t.i] = AddLR(n, l),
         t.i + n \in DOMAIN tramp, tramp[t.i + n] = Ldr(n, PC, v),
         LiteralAt(t.i + n, v) \in DOMAIN tramp, tramp[LiteralAt(t.i + n, v)] = Word(a)
  PROVE  Serves(Calling(t, n, a, ret), w)
<1> DEFINE g == With(t.regs, LR, ret)
           y == Within(t, t.i + n, g)
           z == Outside(t, t.i + 2 * n, g, a)
<1>1. /\ t \in Thread /\ t.did = 0 /\ t.stack = <<>> /\ t.exit = NoExit
      /\ t.i \in Nat /\ t.regs \in RegFile
  BY FreshIs
<1>2. n \in Nat /\ t.i + n \in Nat /\ t.i + 2 * n \in Nat /\ t.i + n + n = t.i + 2 * n
  BY <1>1
<1>3. Calling(t, n, a, ret) = {t, y, z}
  BY DEF Calling
<1>4. g \in RegFile
  <2>1. LR \in Reg
    BY DEF LR, Reg
  <2> QED BY <1>1, <2>1, WithIs
<1>5. Executed(t, tramp[t.i]) = y
  <2>1. Executed(t, AddLR(n, l)) = At(t, t.i + n, t.did, With(t.regs, LR, PcAt(t.i) + l), t.stack, t.exit)
    BY <1>1, <1>2, RunAddLR
  <2> QED BY <1>1, <2>1 DEF Within
<1> HIDE DEF g
<1>6. y \in Thread /\ y.exit = NoExit /\ y.i = t.i + n /\ y.regs = g /\ y.did = 0 /\ y.stack = <<>>
  <2>1. y \in Thread
    BY <1>1, <1>2, <1>4, WithinTyped
  <2>2. y.exit = NoExit /\ y.i = t.i + n /\ y.regs = g /\ y.did = 0 /\ y.stack = <<>>
    BY DEF Within, At
  <2> QED BY <2>1, <2>2
<1>7. z \in Thread /\ z.exit = a /\ z.regs = g /\ z.did = 0 /\ z.it = 0 /\ z.stack = <<>>
  <2>1. z \in Thread
    BY <1>1, <1>2, <1>4, OutsideTyped
  <2>2. z.exit = a /\ z.regs = g /\ z.did = 0 /\ z.it = 0 /\ z.stack = <<>>
    BY DEF Outside, At
  <2> QED BY <2>1, <2>2
<1>8. At(y, t.i + 2 * n, 0, g, <<>>, a) = z
  BY AtAgain DEF Within, Outside
<1> HIDE DEF y, z
<1>9. Executed(y, tramp[y.i]) = z
  <2>1. /\ y \in Thread /\ n \in Nat
        /\ LiteralAt(y.i, v) \in DOMAIN tramp /\ tramp[LiteralAt(y.i, v)] = Word(a)
    BY <1>2, <1>6
  <2>2. Executed(y, Ldr(n, PC, v)) = At(y, y.i + n, y.did, y.regs, y.stack, a)
    BY <2>1, RunLdrPC
  <2> QED BY <1>2, <1>6, <1>8, <2>2
<1>10. Arrives(z, w)
  BY <1>7 DEF Effects, Arrives, g
<1> QED BY <1>1, <1>3, <1>5, <1>6, <1>7, <1>9, <1>10 DEF Effects, Serves

(* B<c> or CB{N}Z to the jump, past the branch around it.                  *)
LEMMA TestServes ==
  ASSUME NEW t, Fresh(t), NEW a \in Int, a # NoExit,
         NEW w, Effects(w, t, IF t.flag THEN a ELSE NoExit, t.regs, 0), w.end = t.i + 6,
         TargetOf(t.i, 0) = t.i + 2, TargetOf(t.i + 1, 6) = t.i + 6,
         t.i \in DOMAIN tramp, tramp[t.i] = BCond(0),
         t.i + 1 \in DOMAIN tramp, tramp[t.i + 1] = B(6),
         t.i + 2 \in DOMAIN tramp, tramp[t.i + 2] = Ldr(2, PC, 0),
         LiteralAt(t.i + 2, 0) \in DOMAIN tramp, tramp[LiteralAt(t.i + 2, 0)] = Word(a)
  PROVE  Serves(Testing(t, a), w)
<1>1. /\ t \in Thread /\ t.did = 0 /\ t.stack = <<>> /\ t.exit = NoExit
      /\ t.i \in Nat /\ t.regs \in RegFile /\ t.flag \in BOOLEAN
  BY FreshIs
<1>2. /\ t.i + 1 \in Nat /\ t.i + 2 \in Nat /\ t.i + 4 \in Nat /\ t.i + 6 \in Nat
      /\ t.i + 2 + 2 = t.i + 4 /\ t.i + 1 # t.i + 6 /\ t.i + 2 # t.i + 6
      /\ 0 \in Int /\ 6 \in Int /\ 2 \in Nat
  BY <1>1
<1>3. Executed(t, BCond(0)) = At(t, IF t.flag THEN TargetOf(t.i, 0) ELSE t.i + 1, t.did, t.regs,
                                 t.stack, t.exit)
  BY <1>1, <1>2, RunBCond
<1>4. CASE t.flag = TRUE
  <2> DEFINE y == Within(t, t.i + 2, t.regs)
             z == Outside(t, t.i + 4, t.regs, a)
  <2>1. Testing(t, a) = {t, y, z}
    BY <1>4 DEF Testing
  <2>2. Executed(t, tramp[t.i]) = y
    BY <1>1, <1>3, <1>4 DEF Within
  <2>3. y \in Thread
    BY <1>1, <1>2, WithinTyped
  <2>4. y.i = t.i + 2 /\ y.exit = NoExit /\ y.regs = t.regs /\ y.did = 0 /\ y.stack = <<>>
    BY DEF Within, At
  <2>5. z \in Thread
    BY <1>1, <1>2, OutsideTyped
  <2>6. z.exit = a /\ z.regs = t.regs /\ z.did = 0 /\ z.it = 0 /\ z.stack = <<>>
    BY DEF Outside, At
  <2>7. At(y, t.i + 4, 0, t.regs, <<>>, a) = z
    BY AtAgain DEF Within, Outside
  <2> HIDE DEF y, z
  <2>8. Executed(y, tramp[y.i]) = z
    <3>1. LiteralAt(y.i, 0) \in DOMAIN tramp /\ tramp[LiteralAt(y.i, 0)] = Word(a)
      BY <2>4
    <3>2. Executed(y, Ldr(2, PC, 0)) = At(y, y.i + 2, y.did, y.regs, y.stack, a)
      BY <1>2, <2>3, <3>1, RunLdrPC
    <3> QED BY <1>2, <2>4, <2>7, <3>2
  <2>9. Arrives(z, w)
    BY <1>4, <2>6 DEF Effects, Arrives
  <2> QED BY <1>1, <1>2, <2>1, <2>2, <2>3, <2>4, <2>5, <2>6, <2>8, <2>9 DEF Effects, Serves
<1>5. CASE t.flag = FALSE
  <2> DEFINE y == Within(t, t.i + 1, t.regs)
             z == Within(t, t.i + 6, t.regs)
  <2>1. Testing(t, a) = {t, y, z}
    BY <1>5 DEF Testing
  <2>2. Executed(t, tramp[t.i]) = y
    BY <1>1, <1>3, <1>5 DEF Within
  <2>3. y \in Thread /\ z \in Thread
    BY <1>1, <1>2, WithinTyped
  <2>4. y.i = t.i + 1 /\ y.exit = NoExit /\ y.regs = t.regs /\ y.did = 0 /\ y.stack = <<>>
    BY DEF Within, At
  <2>5. /\ z.i = t.i + 6 /\ z.exit = NoExit /\ z.regs = t.regs /\ z.did = 0 /\ z.it = 0
        /\ z.stack = <<>>
    BY DEF Within, At
  <2>6. At(y, t.i + 6, 0, t.regs, <<>>, NoExit) = z
    BY AtAgain DEF Within
  <2> HIDE DEF y, z
  <2>7. Executed(y, tramp[y.i]) = z
    <3>1. Executed(y, B(6)) = At(y, TargetOf(y.i, 6), y.did, y.regs, y.stack, y.exit)
      BY <1>2, <2>3, RunB
    <3> QED BY <2>4, <2>6, <3>1
  <2>8. Arrives(z, w)
    BY <1>5, <2>5 DEF Effects, Arrives
  <2> QED BY <1>1, <1>2, <2>1, <2>2, <2>3, <2>4, <2>5, <2>7, <2>8 DEF Effects, Serves
<1> QED BY <1>1, <1>4, <1>5

(* LDR of a register from a literal, and the branch around it.             *)
LEMMA LoadServes ==
  ASSUME NEW t, Fresh(t), NEW d \in Reg, NEW x \in Int, NEW n \in {3, 4}, NEW b \in Int,
         NEW w, Effects(w, t, NoExit, With(t.regs, d, x), 0), w.end = t.i + n,
         TargetOf(t.i + 1, b) = t.i + n,
         t.i \in DOMAIN tramp, tramp[t.i] = Ldr(1, d, 0),
         t.i + 1 \in DOMAIN tramp, tramp[t.i + 1] = B(b),
         LiteralAt(t.i, 0) \in DOMAIN tramp, tramp[LiteralAt(t.i, 0)] = Word(x)
  PROVE  Serves(Loading(t, 1, d, x, {1, n}), w)
<1> DEFINE g == With(t.regs, d, x)
           y == Within(t, t.i + 1, g)
           z == Within(t, t.i + n, g)
<1>1. /\ t \in Thread /\ t.did = 0 /\ t.stack = <<>> /\ t.exit = NoExit
      /\ t.i \in Nat /\ t.regs \in RegFile
  BY FreshIs
<1>2. /\ t.i + 1 \in Nat /\ t.i + n \in Nat /\ t.i + 1 # t.i + n /\ 0 \in Int /\ 1 \in Nat
  BY <1>1
<1>3. Loading(t, 1, d, x, {1, n}) = {t, y, z}
  <2>1. d # PC
    BY DEF Reg, PC
  <2> QED BY <2>1 DEF Loading
<1>4. g \in RegFile
  BY <1>1, WithIs
<1>5. Executed(t, tramp[t.i]) = y
  <2>1. Executed(t, Ldr(1, d, 0)) = At(t, t.i + 1, t.did, With(t.regs, d, x), t.stack, t.exit)
    BY <1>1, <1>2, RunLdr
  <2> QED BY <1>1, <2>1 DEF Within
<1> HIDE DEF g
<1>6. y \in Thread /\ z \in Thread
  BY <1>1, <1>2, <1>4, WithinTyped
<1>7. y.i = t.i + 1 /\ y.exit = NoExit /\ y.regs = g /\ y.did = 0 /\ y.stack = <<>>
  BY DEF Within, At
<1>8. /\ z.i = t.i + n /\ z.exit = NoExit /\ z.regs = g /\ z.did = 0 /\ z.it = 0
      /\ z.stack = <<>>
  BY DEF Within, At
<1>9. At(y, t.i + n, 0, g, <<>>, NoExit) = z
  BY AtAgain DEF Within
<1> HIDE DEF y, z
<1>10. Executed(y, tramp[y.i]) = z
  <2>1. Executed(y, B(b)) = At(y, TargetOf(y.i, b), y.did, y.regs, y.stack, y.exit)
    BY <1>6, RunB
  <2> QED BY <1>7, <1>9, <2>1
<1>11. Arrives(z, w)
  BY <1>8 DEF Effects, Arrives, g
<1> QED BY <1>1, <1>2, <1>3, <1>5, <1>6, <1>7, <1>8, <1>10, <1>11 DEF Effects, Serves

(* LDR.W of a register from a literal, NOP, and the branch around it.      *)
LEMMA LoadWideServes ==
  ASSUME NEW t, Fresh(t), NEW d \in Reg, NEW x \in Int,
         NEW w, Effects(w, t, NoExit, With(t.regs, d, x), 0), w.end = t.i + 6,
         TargetOf(t.i + 3, 2) = t.i + 6,
         t.i \in DOMAIN tramp, tramp[t.i] = Ldr(2, d, 4),
         t.i + 2 \in DOMAIN tramp, tramp[t.i + 2] = Nop,
         t.i + 3 \in DOMAIN tramp, tramp[t.i + 3] = B(2),
         LiteralAt(t.i, 4) \in DOMAIN tramp, tramp[LiteralAt(t.i, 4)] = Word(x)
  PROVE  Serves(Loading(t, 2, d, x, {2, 3, 6}), w)
<1> DEFINE g == With(t.regs, d, x)
           p == Within(t, t.i + 2, g)
           y == Within(t, t.i + 3, g)
           z == Within(t, t.i + 6, g)
<1>1. /\ t \in Thread /\ t.did = 0 /\ t.stack = <<>> /\ t.exit = NoExit
      /\ t.i \in Nat /\ t.regs \in RegFile
  BY FreshIs
<1>2. /\ t.i + 2 \in Nat /\ t.i + 3 \in Nat /\ t.i + 6 \in Nat /\ t.i + 2 # t.i + 6
      /\ t.i + 3 # t.i + 6 /\ t.i + 2 + 1 = t.i + 3 /\ 4 \in Int /\ 2 \in Nat /\ 2 \in Int
  BY <1>1
<1>3. Loading(t, 2, d, x, {2, 3, 6}) = {t, p, y, z}
  <2>1. d # PC
    BY DEF Reg, PC
  <2> QED BY <2>1 DEF Loading
<1>4. g \in RegFile
  BY <1>1, WithIs
<1>5. Executed(t, tramp[t.i]) = p
  <2>1. Executed(t, Ldr(2, d, 4)) = At(t, t.i + 2, t.did, With(t.regs, d, x), t.stack, t.exit)
    BY <1>1, <1>2, RunLdr
  <2> QED BY <1>1, <2>1 DEF Within
<1> HIDE DEF g
<1>6. p \in Thread /\ y \in Thread /\ z \in Thread
  BY <1>1, <1>2, <1>4, WithinTyped
<1>7. /\ p.i = t.i + 2 /\ p.exit = NoExit /\ p.regs = g /\ p.did = 0 /\ p.stack = <<>>
      /\ y.i = t.i + 3 /\ y.exit = NoExit /\ y.regs = g /\ y.did = 0 /\ y.stack = <<>>
  BY DEF Within, At
<1>8. /\ z.i = t.i + 6 /\ z.exit = NoExit /\ z.regs = g /\ z.did = 0 /\ z.it = 0
      /\ z.stack = <<>>
  BY DEF Within, At
<1>9. At(p, t.i + 3, 0, g, <<>>, NoExit) = y
  BY AtAgain DEF Within
<1>10. At(y, t.i + 6, 0, g, <<>>, NoExit) = z
  BY AtAgain DEF Within
<1> HIDE DEF p, y, z
<1>11. Executed(p, tramp[p.i]) = y
  <2>1. Executed(p, Nop) = At(p, p.i + 1, p.did, p.regs, p.stack, p.exit)
    BY <1>6, RunNop
  <2> QED BY <1>2, <1>7, <1>9, <2>1
<1>12. Executed(y, tramp[y.i]) = z
  <2>1. Executed(y, B(2)) = At(y, TargetOf(y.i, 2), y.did, y.regs, y.stack, y.exit)
    BY <1>2, <1>6, RunB
  <2> QED BY <1>7, <1>10, <2>1
<1>13. Arrives(z, w)
  BY <1>8 DEF Effects, Arrives, g
<1> QED BY <1>1, <1>2, <1>3, <1>5, <1>6, <1>7, <1>8, <1>11, <1>12, <1>13 DEF Effects, Serves

(* An instruction copied as it is, of n units.                             *)
LEMMA KeepRuns ==
  ASSUME NEW t, Fresh(t), NEW x \in Insn, x.type \in Plain, NEW n, n = Keep(x).len
  PROVE  Executed(t, Keep(x)) = At(t, t.i + n, IF x.cond => t.flag THEN 1 ELSE 0, t.regs, <<>>, NoExit)
<1>1. /\ t \in Thread /\ t.did = 0 /\ t.stack = <<>> /\ t.exit = NoExit /\ t.flag \in BOOLEAN
  BY FreshIs
<1>2. Keep(x).op = "insn" /\ Keep(x).len \in {1, 2} /\ Keep(x).cond = x.cond /\ x.cond \in BOOLEAN
  BY DEF Keep, Op, Plain, Insn
<1>3. Keep(x).len \in Nat
  BY <1>2
<1>4. CASE x.cond = TRUE /\ t.flag = FALSE
  <2>1. Executed(t, Keep(x)) = At(t, t.i + Keep(x).len, t.did, t.regs, t.stack, t.exit)
    BY <1>1, <1>2, <1>3, <1>4, RunSkipped
  <2> QED BY <1>1, <1>4, <2>1
<1>5. CASE ~(x.cond = TRUE /\ t.flag = FALSE)
  <2>1. Executed(t, Keep(x)) = At(t, t.i + Keep(x).len, 1, t.regs, t.stack, t.exit)
    <3>1. Keep(x).cond \in BOOLEAN /\ (Keep(x).cond => t.flag = TRUE)
      BY <1>1, <1>2, <1>5
    <3> QED BY <1>1, <1>2, <1>3, <3>1, RunInsn
  <2>2. x.cond => t.flag
    BY <1>1, <1>2, <1>5
  <2> QED BY <1>1, <2>1, <2>2
<1> QED BY <1>4, <1>5

(* UNDEFINE in ARM, or 32 bits wide in Thumb: the copy is the whole block. *)
LEMMA KeepServes ==
  ASSUME NEW t, Fresh(t), NEW x \in Insn, x.type \in Plain, NEW n \in {1, 2}, n = Keep(x).len,
         NEW w, Effects(w, t, NoExit, t.regs, IF x.cond => t.flag THEN 1 ELSE 0),
         w.end = t.i + n, t.i \in DOMAIN tramp, tramp[t.i] = Keep(x)
  PROVE  Serves(Keeping(t, x, {n}), w)
<1> DEFINE e == IF x.cond => t.flag THEN 1 ELSE 0
           z == At(t, t.i + n, e, t.regs, <<>>, NoExit)
<1>1. /\ t \in Thread /\ t.exit = NoExit /\ t.i \in Nat /\ t.regs \in RegFile
  BY FreshIs
<1>2. t.i + n \in Nat /\ e \in Nat /\ <<>> \in Seq(Int) /\ NoExit \in Int
  BY <1>1 DEF NoExit
<1>3. Keeping(t, x, {n}) = {t, z}
  BY DEF Keeping
<1>4. Executed(t, tramp[t.i]) = z
  BY KeepRuns
<1>5. w.exit = NoExit /\ w.regs = t.regs /\ w.did = e /\ w.it = 0 /\ w.end # t.i
  BY DEF Effects
<1> HIDE DEF e
<1>6. z \in Thread
  BY <1>1, <1>2, AtTyped
<1>7. z.i = t.i + n /\ z.exit = NoExit /\ z.regs = t.regs /\ z.did = e /\ z.it = 0 /\ z.stack = <<>>
  BY DEF At
<1> HIDE DEF z
<1>8. Arrives(z, w)
  BY <1>5, <1>7 DEF Arrives
<1> QED BY <1>1, <1>3, <1>4, <1>5, <1>6, <1>7, <1>8 DEF Serves

(* UNDEFINE of 16 bits: the copy and a NOP.                                *)
LEMMA KeepPaddedServes ==
  ASSUME NEW t, Fresh(t), NEW x \in Insn, x.type \in Plain, 1 = Keep(x).len,
         NEW w, Effects(w, t, NoExit, t.regs, IF x.cond => t.flag THEN 1 ELSE 0),
         w.end = t.i + 2, t.i \in DOMAIN tramp, tramp[t.i] = Keep(x),
         t.i + 1 \in DOMAIN tramp, tramp[t.i + 1] = Nop
  PROVE  Serves(Keeping(t, x, {1, 2}), w)
<1> DEFINE e == IF x.cond => t.flag THEN 1 ELSE 0
           y == At(t, t.i + 1, e, t.regs, <<>>, NoExit)
           z == At(t, t.i + 2, e, t.regs, <<>>, NoExit)
<1>1. /\ t \in Thread /\ t.exit = NoExit /\ t.i \in Nat /\ t.regs \in RegFile
  BY FreshIs
<1>2. /\ t.i + 1 \in Nat /\ t.i + 2 \in Nat /\ e \in Nat /\ <<>> \in Seq(Int) /\ NoExit \in Int
      /\ t.i + 1 + 1 = t.i + 2 /\ t.i + 1 # t.i + 2
  BY <1>1 DEF NoExit
<1>3. Keeping(t, x, {1, 2}) = {t, y, z}
  BY DEF Keeping
<1>4. Executed(t, tramp[t.i]) = y
  BY KeepRuns
<1>5. w.exit = NoExit /\ w.regs = t.regs /\ w.did = e /\ w.it = 0 /\ w.end # t.i
  BY DEF Effects
<1> HIDE DEF e
<1>6. y \in Thread /\ z \in Thread
  BY <1>1, <1>2, AtTyped
<1>7. /\ y.i = t.i + 1 /\ y.exit = NoExit /\ y.regs = t.regs /\ y.did = e /\ y.stack = <<>>
      /\ z.i = t.i + 2 /\ z.exit = NoExit /\ z.regs = t.regs /\ z.did = e /\ z.it = 0 /\ z.stack = <<>>
  BY DEF At
<1>8. At(y, t.i + 2, e, t.regs, <<>>, NoExit) = z
  BY AtAgain
<1> HIDE DEF y, z
<1>9. Executed(y, tramp[y.i]) = z
  <2>1. Executed(y, Nop) = At(y, y.i + 1, y.did, y.regs, y.stack, y.exit)
    BY <1>6, RunNop
  <2> QED BY <1>2, <1>7, <1>8, <2>1
<1>10. Arrives(z, w)
  BY <1>5, <1>7 DEF Arrives
<1> QED BY <1>1, <1>2, <1>3, <1>4, <1>5, <1>6, <1>7, <1>9, <1>10 DEF Serves

(* A register that was used in between and set back is as if untouched.    *)
LEMMA WithRestored ==
  ASSUME NEW g \in RegFile, NEW r \in Reg, NEW d \in Reg, r # d, NEW v \in Int, NEW x \in Int
  PROVE  With(With(With(g, r, v), d, x), r, g[r]) = With(g, d, x)
<1> DEFINE p == With(With(With(g, r, v), d, x), r, g[r])
           q == With(g, d, x)
<1>1. p = [j \in Reg |-> IF j = r THEN g[r] ELSE IF j = d THEN x ELSE g[j]]
  BY DEF With, RegFile
<1>2. q = [j \in Reg |-> IF j = d THEN x ELSE g[j]]
  BY DEF With, RegFile
<1> HIDE DEF p, q
<1>3. p = q
  BY <1>1, <1>2
<1> QED BY <1>3 DEF p, q

(* A register set to what it holds.                                        *)
LEMMA WithSame ==
  ASSUME NEW g \in RegFile, NEW r \in Reg, NEW d \in Reg, r # d, NEW v \in Int
  PROVE  With(With(g, r, v), d, g[d]) = With(g, r, v)
  BY DEF With, RegFile

(* The units of the block of ADD are distinct.                             *)
LEMMA AddUnits ==
  ASSUME NEW i \in Nat, NEW n \in {6, 8}
  PROVE  /\ i + 1 \in Nat /\ i + 2 \in Nat /\ i + 3 \in Nat /\ i + 4 \in Nat /\ i + n \in Nat
         /\ i + 1 # i + n /\ i + 2 # i + n /\ i + 3 # i + n /\ i + 4 # i + n
         /\ i + 1 + 1 = i + 2 /\ i + 2 + 1 = i + 3 /\ i + 3 + 1 = i + 4
OBVIOUS

(* PUSH of a scratch register, the PC into it, ADD, POP, and the branch    *)
(* around the literal.                                                     *)
LEMMA AddServes ==
  ASSUME NEW t, Fresh(t), NEW r \in Reg, NEW d \in Reg, r # d, NEW pc \in Int, NEW sum \in Int,
         NEW n \in {6, 8}, NEW b \in Int, NEW o,
         o.op = "add", o.len = 1, o.rd = d, o.rn \in Reg, o.rm \in Reg, o.v = 1, o.cond \in BOOLEAN,
         sum = IF o.cond => t.flag THEN With(t.regs, r, pc)[o.rn] + With(t.regs, r, pc)[o.rm]
                                   ELSE t.regs[d],
         NEW w, Effects(w, t, NoExit, With(t.regs, d, sum), 0), w.end = t.i + n,
         TargetOf(t.i + 4, b) = t.i + n,
         t.i \in DOMAIN tramp, tramp[t.i] = Push(r),
         t.i + 1 \in DOMAIN tramp, tramp[t.i + 1] = Ldr(1, r, 8),
         t.i + 2 \in DOMAIN tramp, tramp[t.i + 2] = o,
         t.i + 3 \in DOMAIN tramp, tramp[t.i + 3] = Pop(r),
         t.i + 4 \in DOMAIN tramp, tramp[t.i + 4] = B(b),
         LiteralAt(t.i + 1, 8) \in DOMAIN tramp, tramp[LiteralAt(t.i + 1, 8)] = Word(pc)
  PROVE  Serves(Adding(t, r, pc, d, sum, n), w)
<1> DEFINE g == With(t.regs, r, pc)
           h == With(g, d, sum)
           f == With(t.regs, d, sum)
           k == <<t.regs[r]>>
           p1 == At(t, t.i + 1, 0, t.regs, k, NoExit)
           p2 == At(t, t.i + 2, 0, g, k, NoExit)
           p3 == At(t, t.i + 3, 0, h, k, NoExit)
           y == Within(t, t.i + 4, f)
           z == Within(t, t.i + n, f)
<1>1. /\ t \in Thread /\ t.did = 0 /\ t.stack = <<>> /\ t.exit = NoExit
      /\ t.i \in Nat /\ t.regs \in RegFile /\ t.flag \in BOOLEAN
  BY FreshIs
<1>2. /\ t.i + 1 \in Nat /\ t.i + 2 \in Nat /\ t.i + 3 \in Nat /\ t.i + 4 \in Nat /\ t.i + n \in Nat
      /\ t.i + 1 # t.i + n /\ t.i + 2 # t.i + n /\ t.i + 3 # t.i + n /\ t.i + 4 # t.i + n
      /\ t.i + 1 + 1 = t.i + 2 /\ t.i + 2 + 1 = t.i + 3 /\ t.i + 3 + 1 = t.i + 4
      /\ 8 \in Int /\ 1 \in Nat /\ 0 \in Nat
  <2>1. t.i \in Nat
    BY <1>1
  <2>2. /\ t.i + 1 \in Nat /\ t.i + 2 \in Nat /\ t.i + 3 \in Nat /\ t.i + 4 \in Nat /\ t.i + n \in Nat
        /\ t.i + 1 # t.i + n /\ t.i + 2 # t.i + n /\ t.i + 3 # t.i + n /\ t.i + 4 # t.i + n
        /\ t.i + 1 + 1 = t.i + 2 /\ t.i + 2 + 1 = t.i + 3 /\ t.i + 3 + 1 = t.i + 4
    BY ONLY <2>1, n \in {6, 8}, AddUnits
  <2> QED BY <2>2
<1>3. Adding(t, r, pc, d, sum, n) = {t, p1, p2, p3, y, z}
  BY DEF Adding
<1>4. g \in RegFile
  BY <1>1, WithIs
<1>5. f \in RegFile
  BY <1>1, WithIs
<1>6. With(h, r, t.regs[r]) = f /\ t.regs[r] \in Int /\ (sum = t.regs[d] => h = g)
  <2>1. With(h, r, t.regs[r]) = f
    BY <1>1, WithRestored
  <2>2. sum = t.regs[d] => h = g
    BY <1>1, WithSame
  <2>3. t.regs[r] \in Int
    BY <1>1 DEF RegFile
  <2> QED BY <2>1, <2>2, <2>3
<1>7. Executed(t, tramp[t.i]) = p1
  <2>1. Executed(t, Push(r)) = At(t, t.i + 1, t.did, t.regs, <<t.regs[r]>>, t.exit)
    BY <1>1, RunPush
  <2> QED BY <1>1, <2>1
<1>8. sum = IF o.cond => t.flag THEN g[o.rn] + g[o.rm] ELSE t.regs[d]
  OBVIOUS
<1> HIDE DEF g
<1>9. h \in RegFile
  BY <1>4, WithIs
<1>10. k \in Seq(Int) /\ NoExit \in Int
  BY <1>6 DEF NoExit
<1>11. h = With(g, d, sum)
  OBVIOUS
<1>12. w.exit = NoExit /\ w.regs = f /\ w.did = 0 /\ w.it = 0 /\ w.end # t.i
  BY DEF Effects
<1>13. k = <<t.regs[r]>>
  OBVIOUS
<1> HIDE DEF h, f, k
<1>14. p1 \in Thread /\ p2 \in Thread /\ p3 \in Thread
  <2>1. p1 \in Thread
    BY <1>1, <1>2, <1>10, AtTyped
  <2>2. p2 \in Thread
    BY <1>1, <1>2, <1>4, <1>10, AtTyped
  <2>3. p3 \in Thread
    BY <1>1, <1>2, <1>9, <1>10, AtTyped
  <2> QED BY <2>1, <2>2, <2>3
<1>15. y \in Thread /\ z \in Thread
  BY <1>1, <1>2, <1>5, WithinTyped
<1>16. /\ p1.i = t.i + 1 /\ p1.exit = NoExit /\ p1.regs = t.regs /\ p1.did = 0 /\ p1.stack = k
       /\ p2.i = t.i + 2 /\ p2.exit = NoExit /\ p2.regs = g /\ p2.did = 0 /\ p2.stack = k
       /\ p3.i = t.i + 3 /\ p3.exit = NoExit /\ p3.regs = h /\ p3.did = 0 /\ p3.stack = k
       /\ p2.flag = t.flag
  BY DEF At
<1>17. /\ y.i = t.i + 4 /\ y.exit = NoExit /\ y.regs = f /\ y.did = 0 /\ y.stack = <<>>
       /\ z.i = t.i + n /\ z.exit = NoExit /\ z.regs = f /\ z.did = 0 /\ z.stack = <<>> /\ z.it = 0
  BY DEF Within, At
<1>18. At(p1, t.i + 2, 0, g, k, NoExit) = p2
  BY AtAgain
<1>19. At(p2, t.i + 3, 0, h, k, NoExit) = p3
  BY AtAgain
<1>20. At(p3, t.i + 4, 0, f, <<>>, NoExit) = y
  BY AtAgain DEF Within
<1>21. At(y, t.i + n, 0, f, <<>>, NoExit) = z
  BY AtAgain DEF Within
<1> HIDE DEF p1, p2, p3, y, z
<1>22. Executed(p1, tramp[p1.i]) = p2
  <2>1. LiteralAt(p1.i, 8) \in DOMAIN tramp /\ tramp[LiteralAt(p1.i, 8)] = Word(pc)
    BY <1>16
  <2>2. Executed(p1, Ldr(1, r, 8)) = At(p1, p1.i + 1, p1.did, With(p1.regs, r, pc), p1.stack, p1.exit)
    BY <1>2, <1>14, <2>1, RunLdr
  <2>3. With(t.regs, r, pc) = g
    BY DEF g
  <2> QED BY <1>2, <1>16, <1>18, <2>2, <2>3
<1>23. Executed(p2, tramp[p2.i]) = p3
  <2>1. CASE o.cond = TRUE /\ t.flag = FALSE
    <3>1. o.cond = TRUE /\ p2.flag = FALSE /\ o.len \in Nat
      BY <1>2, <1>16, <2>1
    <3>2. Executed(p2, o) = At(p2, p2.i + o.len, p2.did, p2.regs, p2.stack, p2.exit)
      BY <1>14, <3>1, RunSkipped
    <3>3. sum = t.regs[d]
      BY <1>8, <2>1
    <3>4. h = g
      BY <1>6, <3>3
    <3> QED BY <1>2, <1>16, <1>19, <3>2, <3>4
  <2>2. CASE ~(o.cond = TRUE /\ t.flag = FALSE)
    <3>1. o.cond => p2.flag = TRUE
      BY <1>1, <1>16, <2>2
    <3>2. Executed(p2, o) = At(p2, p2.i + 1, p2.did, With(p2.regs, d, p2.regs[o.rn] + p2.regs[o.rm]),
                               p2.stack, p2.exit)
      BY <1>14, <3>1, RunAdd
    <3>3. sum = g[o.rn] + g[o.rm]
      BY <1>1, <1>8, <2>2
    <3>4. With(p2.regs, d, p2.regs[o.rn] + p2.regs[o.rm]) = h
      BY <1>11, <1>16, <3>3
    <3> QED BY <1>2, <1>16, <1>19, <3>2, <3>4
  <2> QED BY <2>1, <2>2
<1>24. Executed(p3, tramp[p3.i]) = y
  <2>1. Executed(p3, Pop(r)) = At(p3, p3.i + 1, p3.did, With(p3.regs, r, t.regs[r]), <<>>, p3.exit)
    <3>1. p3.stack = <<t.regs[r]>>
      BY <1>13, <1>16
    <3> QED BY <1>6, <1>14, <3>1, RunPop
  <2> QED BY <1>2, <1>6, <1>16, <1>20, <2>1
<1>25. Executed(y, tramp[y.i]) = z
  <2>1. Executed(y, B(b)) = At(y, TargetOf(y.i, b), y.did, y.regs, y.stack, y.exit)
    BY <1>15, RunB
  <2> QED BY <1>17, <1>21, <2>1
<1>26. Arrives(z, w)
  BY <1>12, <1>17 DEF Arrives
<1> QED
  <2>1. \A u \in {t, p1, p2, p3, y, z} : u \in Thread /\ u.exit = NoExit
    BY <1>1, <1>14, <1>15, <1>16, <1>17
  <2>2. \A u \in {t, p1, p2, p3, y} : u.i # t.i + n /\ u.i \in DOMAIN tramp
    BY <1>2, <1>12, <1>16, <1>17
  <2>3. \A u \in {t, p1, p2, p3, y} : Executed(u, tramp[u.i]) \in {t, p1, p2, p3, y, z}
    BY <1>7, <1>22, <1>23, <1>24, <1>25
  <2>4. z.i = t.i + n
    BY <1>17
  <2> QED BY <1>3, <1>26, <2>1, <2>2, <2>3, <2>4 DEF Serves
-----------------------------------------------------------------------------
(* What an instruction does to thread t, as Wanted says of the k-th.       *)
WantedOf(x, pc, t, ret, end) ==
  LET on == (x.cond \/ t.it = 1) => t.flag
      e == Meaning(x, pc, t.regs, ret)
  IN  [it |-> IF x.type = "IT" THEN 1 ELSE 0,
       did |-> IF on /\ x.type \in Plain THEN 1 ELSE 0,
       regs |-> IF on /\ e.rd # PC THEN [t.regs EXCEPT ![e.rd] = e.val] ELSE t.regs,
       exit |-> IF on THEN e.go ELSE NoExit,
       end |-> end]

(* Thread t at the start of the block of x, a faithful instruction.        *)
Facing(x, pc, t) ==
  /\ Fresh(t)
  /\ x \in Insn
  /\ pc \in Nat
  /\ Faithful(x, pc)
  /\ Placed(t.i, BlockOf(pc, x))
  /\ IF Thumb THEN x.type \in Thumb16Type \cup Thumb32Type /\ \E a \in Nat : t.i = 2 * a
              ELSE x.type \in ArmType /\ pc % 4 = 0

Return(x, pc, t) == TrampBase + (t.i + Len(BlockOf(pc, x))) * Unit + Bit
Want(x, pc, t) == WantedOf(x, pc, t, Return(x, pc, t), t.i + Len(BlockOf(pc, x)))

(* Unit i of the trampoline holds o.                                       *)
Stored(i, o) == i \in DOMAIN tramp /\ tramp[i] = o

(* The units of a block of n units that was stored at s.                   *)
LEMMA PlacedUnits ==
  ASSUME NEW s \in Nat, NEW block, Placed(s, block), NEW n \in Nat, Len(block) = n
  PROVE  /\ n > 0 => Stored(s, block[1])
         /\ n > 1 => Stored(s + 1, block[2])
         /\ n > 2 => Stored(s + 2, block[3])
         /\ n > 3 => Stored(s + 3, block[4])
         /\ n > 4 => Stored(s + 4, block[5])
         /\ n > 5 => Stored(s + 5, block[6])
         /\ n > 6 => Stored(s + 6, block[7])
<1>1. ASSUME NEW j \in 1 .. 7, j - 1 < n
      PROVE  Stored(s + (j - 1), block[j])
  <2>1. j \in 1 .. Len(block) /\ s + j - 1 = s + (j - 1)
    BY <1>1
  <2> QED BY <2>1 DEF Placed, Stored
<1>2. n > 0 => Stored(s + (1 - 1), block[1])
  BY <1>1
<1>3. n > 1 => Stored(s + (2 - 1), block[2])
  BY <1>1
<1>4. n > 2 => Stored(s + (3 - 1), block[3])
  BY <1>1
<1>5. n > 3 => Stored(s + (4 - 1), block[4])
  BY <1>1
<1>6. n > 4 => Stored(s + (5 - 1), block[5])
  BY <1>1
<1>7. n > 5 => Stored(s + (6 - 1), block[6])
  BY <1>1
<1>8. n > 6 => Stored(s + (7 - 1), block[7])
  BY <1>1
<1> QED BY <1>2, <1>3, <1>4, <1>5, <1>6, <1>7, <1>8

(* Which of the three functions makes the block.                           *)
LEMMA BlockBy ==
  ASSUME NEW pc, NEW x
  PROVE  /\ x.type \in Thumb16Type => BlockOf(pc, x) = relocateInstructionInThumb16(pc, x)
         /\ x.type \in Thumb32Type => BlockOf(pc, x) = relocateInstructionInThumb32(pc, x)
         /\ x.type \in ArmType => BlockOf(pc, x) = InArm(pc, x)
  BY DEF BlockOf, Thumb16Type, Thumb32Type, ArmType

(* ALIGN_PC never goes up, and leaves a word's address alone.              *)
LEMMA AlignIs ==
  ASSUME NEW pc \in Nat
  PROVE  ALIGN_PC(pc) \in Nat /\ ALIGN_PC(pc) <= pc /\ (pc % 4 = 0 => ALIGN_PC(pc) = pc)
  BY DEF ALIGN_PC

(* What is wanted of an instruction with a given effect.                   *)
LEMMA WantIs ==
  ASSUME NEW x, NEW pc, NEW t, Fresh(t), x \in Insn, x.type # "IT", NEW go, NEW rd, NEW val,
         NEW ret, NEW end, end # t.i, Meaning(x, pc, t.regs, ret) = Effect(go, rd, val),
         NEW w, w = WantedOf(x, pc, t, ret, end)
  PROVE  /\ w.end = end
         /\ Effects(w, t, IF x.cond => t.flag THEN go ELSE NoExit,
                    IF (x.cond => t.flag) /\ rd # PC THEN With(t.regs, rd, val) ELSE t.regs,
                    IF (x.cond => t.flag) /\ x.type \in Plain THEN 1 ELSE 0)
<1>1. t.it = 0 /\ t.flag \in BOOLEAN /\ x.cond \in BOOLEAN
  BY FreshIs DEF Insn
<1>2. /\ Effect(go, rd, val).go = go /\ Effect(go, rd, val).rd = rd
      /\ Effect(go, rd, val).val = val
  BY DEF Effect
<1>3. ((x.cond \/ t.it = 1) => t.flag) = (x.cond => t.flag)
  BY <1>1
<1> QED BY <1>2, <1>3 DEF WantedOf, Effects, With

(* What it is to face a block.                                             *)
LEMMA FacingIs ==
  ASSUME NEW x, NEW pc, NEW t, Facing(x, pc, t)
  PROVE  /\ Fresh(t) /\ t \in Thread /\ t.exit = NoExit /\ t.i \in Nat /\ t.regs \in RegFile
         /\ t.flag \in BOOLEAN
         /\ x \in Insn /\ x.imm \in Int /\ x.cond \in BOOLEAN /\ x.rd \in Reg \cup {PC} /\ x.rm \in Reg
         /\ x.type # "IT"
         /\ pc \in Nat /\ ALIGN_PC(pc) \in Nat /\ ALIGN_PC(pc) <= pc
         /\ pc % 4 = 0 => ALIGN_PC(pc) = pc
         /\ x.type # "ADR2_ARM" => ALIGN_PC(pc) + x.imm \in Nat /\ pc + x.imm \in Nat
         /\ Placed(t.i, BlockOf(pc, x))
         /\ Thumb => \E a \in Nat : t.i = 2 * a
         /\ ~Thumb => pc % 4 = 0
<1>1. x \in Insn /\ pc \in Nat /\ Fresh(t) /\ Placed(t.i, BlockOf(pc, x)) /\ Faithful(x, pc)
  BY DEF Facing
<1>2. /\ x.imm \in Int /\ x.cond \in BOOLEAN /\ x.rd \in Reg \cup {PC} /\ x.rm \in Reg
  BY <1>1 DEF Insn
<1>3. x.type # "IT"
  BY <1>1 DEF Faithful, Unconditional, Conditional, EitherWay, Plain
<1>4. ALIGN_PC(pc) \in Nat /\ ALIGN_PC(pc) <= pc /\ (pc % 4 = 0 => ALIGN_PC(pc) = pc)
  BY <1>1, AlignIs
<1>5. x.type # "ADR2_ARM" => ALIGN_PC(pc) + x.imm \in Nat
  BY <1>1 DEF Faithful, Names
<1>6. x.type # "ADR2_ARM" => pc + x.imm \in Nat
  BY <1>1, <1>2, <1>4, <1>5
<1>7. (Thumb => \E a \in Nat : t.i = 2 * a) /\ (~Thumb => pc % 4 = 0)
  BY DEF Facing
<1> QED BY <1>1, <1>2, <1>3, <1>4, <1>5, <1>6, <1>7, FreshIs

(* The blocks of branches that are always taken.                           *)
LEMMA JumpFaced ==
  ASSUME NEW x, NEW pc, NEW t, Facing(x, pc, t),
         x.type \in {"B2_THUMB16", "B2_THUMB32", "B_ARM", "BX_ARM"}
  PROVE  Serves(Path(x, pc, t, Return(x, pc, t)), Want(x, pc, t))
<1> DEFINE a == IF Thumb THEN pc + x.imm + 1 ELSE IF x.type = "B_ARM" THEN pc + x.imm ELSE pc
           n == IF Thumb THEN 2 ELSE 1
           v == IF Thumb THEN 0 ELSE -4
           b == BlockOf(pc, x)
           ret == Return(x, pc, t)
           w == Want(x, pc, t)
<1>1. /\ t.i \in Nat /\ Fresh(t) /\ x \in Insn /\ pc \in Nat /\ x.cond = FALSE /\ x.imm \in Int
      /\ pc + x.imm \in Nat /\ Placed(t.i, b)
  BY FacingIs DEF Facing, Faithful, Unconditional
<1>2. /\ Thumb => x.type \in {"B2_THUMB16", "B2_THUMB32"}
      /\ ~Thumb => x.type \in {"B_ARM", "BX_ARM"}
  BY DEF Facing, Thumb16Type, Thumb32Type, ArmType
<1>3. a \in Int /\ a # NoExit
  BY <1>1 DEF NoExit
<1>4. Path(x, pc, t, ret) = Jumping(t, n, a)
  BY <1>2 DEF Path
<1>5. b = IF Thumb THEN ThumbJump(a) ELSE ArmJump(a)
  <2>1. x.type = "B2_THUMB32" => ALIGN_PC(pc) = pc
    BY FacingIs DEF Facing, Faithful
  <2>2. CASE x.type = "B2_THUMB16"
    <3>1. b = relocateInstructionInThumb16(pc, x)
      BY <2>2, BlockBy DEF Thumb16Type
    <3>2. relocateInstructionInThumb16(pc, x) = ThumbJump(pc + x.imm + 1)
      BY <2>2 DEF relocateInstructionInThumb16
    <3> QED BY <1>2, <2>2, <3>1, <3>2
  <2>3. CASE x.type = "B2_THUMB32"
    <3>1. b = relocateInstructionInThumb32(pc, x)
      BY <2>3, BlockBy DEF Thumb32Type
    <3>2. relocateInstructionInThumb32(pc, x) = ThumbJump(ALIGN_PC(pc) + x.imm + 1)
      BY <2>3 DEF relocateInstructionInThumb32
    <3> QED BY <1>2, <2>1, <2>3, <3>1, <3>2
  <2>4. CASE x.type \in {"B_ARM", "BX_ARM"}
    <3>1. b = InArm(pc, x)
      BY <2>4, BlockBy DEF ArmType
    <3>2. InArm(pc, x) = IF x.type = "B_ARM" THEN ArmJump(pc + x.imm) ELSE ArmJump(pc)
      BY <2>4 DEF InArm
    <3> QED BY <1>2, <2>4, <3>1, <3>2
  <2> QED BY <2>2, <2>3, <2>4
<1>6. /\ Len(b) = 2 * n /\ b[1] = Ldr(n, PC, v) /\ b[n + 1] = Word(a)
  BY <1>5 DEF ThumbJump, ArmJump
<1>7. Meaning(x, pc, t.regs, ret) = Effect(a, PC, 0)
  BY <1>2 DEF Meaning, Jumps
<1>8. n \in {1, 2} /\ v \in Int /\ 2 * n \in Nat /\ n \in Nat /\ 0 < 2 * n /\ n < 2 * n
  OBVIOUS
<1>9. LiteralAt(t.i, v) = t.i + n
  <2>1. CASE Thumb
    <3>1. PICK q \in Nat : t.i = 2 * q
      BY <2>1 DEF Facing
    <3> QED BY <2>1, <3>1, ThumbDistances
  <2>2. CASE ~Thumb
    BY <1>1, <2>2, ArmDistances
  <2> QED BY <2>1, <2>2
<1> HIDE DEF a, n, v, b, ret, w
<1>10. Stored(t.i, b[1]) /\ Stored(t.i + 1, b[2]) /\ (n = 2 => Stored(t.i + 2, b[3]))
  <2>1. t.i \in Nat /\ Placed(t.i, b) /\ 2 * n \in Nat /\ Len(b) = 2 * n
    BY <1>1, <1>6, <1>8
  <2>2. 2 * n > 0 /\ 2 * n > 1 /\ (n = 2 => 2 * n > 2)
    BY <1>8
  <2> QED BY <2>1, <2>2, PlacedUnits
<1>11. Stored(t.i + n, b[n + 1])
  BY <1>8, <1>10
<1>12. t.i + Len(b) # t.i
  BY <1>1, <1>6, <1>8
<1>13. Effects(w, t, a, t.regs, 0)
  <2>1. w = WantedOf(x, pc, t, ret, t.i + Len(b))
    BY DEF w, Want, ret, b
  <2>2. x.type # "IT" /\ x.type \notin Plain
    BY DEF Plain
  <2>3. Effects(w, t, IF x.cond => t.flag THEN a ELSE NoExit,
                    IF (x.cond => t.flag) /\ PC # PC THEN With(t.regs, PC, 0) ELSE t.regs,
                    IF (x.cond => t.flag) /\ x.type \in Plain THEN 1 ELSE 0)
    BY <1>1, <1>7, <1>12, <2>1, <2>2, WantIs
  <2> QED BY <1>1, <2>2, <2>3
<1>14. Serves(Jumping(t, n, a), w)
  BY <1>1, <1>3, <1>6, <1>8, <1>9, <1>10, <1>11, <1>12, <1>13, JumpServes DEF Stored
<1> QED BY <1>4, <1>14 DEF ret, w

(* The blocks of calls: LR is set past the literal, to the next block.     *)
LEMMA CallFaced ==
  ASSUME NEW x, NEW pc, NEW t, Facing(x, pc, t),
         x.type \in {"BLX_THUMB32", "BL_THUMB32", "BLX_ARM", "BL_ARM"}
  PROVE  Serves(Path(x, pc, t, Return(x, pc, t)), Want(x, pc, t))
<1> DEFINE a == CASE x.type = "BLX_THUMB32" -> ALIGN_PC(pc) + x.imm
                  [] x.type = "BL_ARM" -> pc + x.imm
                  [] OTHER -> pc + x.imm + 1
           n == IF Thumb THEN 2 ELSE 1
           v == IF Thumb THEN 0 ELSE -4
           l == IF Thumb THEN 9 ELSE 4
           b == BlockOf(pc, x)
           ret == Return(x, pc, t)
           w == Want(x, pc, t)
<1>1. /\ t.i \in Nat /\ Fresh(t) /\ x \in Insn /\ pc \in Nat /\ x.cond = FALSE /\ x.imm \in Int
      /\ pc + x.imm \in Nat /\ ALIGN_PC(pc) + x.imm \in Nat /\ Placed(t.i, b)
  BY FacingIs DEF Facing, Faithful, Unconditional
<1>2. /\ Thumb => x.type \in {"BLX_THUMB32", "BL_THUMB32"}
      /\ ~Thumb => x.type \in {"BLX_ARM", "BL_ARM"}
  BY DEF Facing, Thumb16Type, Thumb32Type, ArmType
<1>3. a \in Int /\ a # NoExit
  BY <1>1 DEF NoExit
<1>4. Path(x, pc, t, ret) = Calling(t, n, a, ret)
  BY <1>2 DEF Path
<1>5. b = IF Thumb THEN <<AddLR(2, 9), Half>> \o ThumbJump(a) ELSE <<AddLR(1, 4)>> \o ArmJump(a)
  <2>1. x.type = "BL_THUMB32" => ALIGN_PC(pc) = pc
    BY FacingIs DEF Facing, Faithful
  <2>2. CASE x.type = "BLX_THUMB32"
    <3>1. b = relocateInstructionInThumb32(pc, x)
      BY <2>2, BlockBy DEF Thumb32Type
    <3>2. relocateInstructionInThumb32(pc, x) = <<AddLR(2, 9), Half>> \o ThumbJump(ALIGN_PC(pc) + x.imm)
      BY <2>2 DEF relocateInstructionInThumb32
    <3> QED BY <1>2, <2>2, <3>1, <3>2
  <2>3. CASE x.type = "BL_THUMB32"
    <3>1. b = relocateInstructionInThumb32(pc, x)
      BY <2>3, BlockBy DEF Thumb32Type
    <3>2. relocateInstructionInThumb32(pc, x) = <<AddLR(2, 9), Half>> \o ThumbJump(ALIGN_PC(pc) + x.imm + 1)
      BY <2>3 DEF relocateInstructionInThumb32
    <3> QED BY <1>2, <2>1, <2>3, <3>1, <3>2
  <2>4. CASE x.type \in {"BLX_ARM", "BL_ARM"}
    <3>1. b = InArm(pc, x)
      BY <2>4, BlockBy DEF ArmType
    <3>2. InArm(pc, x) = IF x.type = "BL_ARM" THEN <<AddLR(1, 4)>> \o ArmJump(pc + x.imm)
                                             ELSE <<AddLR(1, 4)>> \o ArmJump(pc + x.imm + 1)
      BY <2>4 DEF InArm
    <3> QED BY <1>2, <2>4, <3>1, <3>2
  <2> QED BY <2>2, <2>3, <2>4
<1>6. Len(b) = 3 * n /\ b[1] = AddLR(n, l) /\ b[n + 1] = Ldr(n, PC, v) /\ b[2 * n + 1] = Word(a)
  BY <1>5 DEF ThumbJump, ArmJump
<1>7. Meaning(x, pc, t.regs, ret) = Effect(a, LR, ret)
  BY <1>2 DEF Meaning, Calls
<1>8. /\ n \in {1, 2} /\ v \in Int /\ l \in Int /\ 3 * n \in Nat \ {0} /\ n \in Nat /\ 2 * n \in Nat
      /\ n < 3 * n /\ 2 * n < 3 * n
  OBVIOUS
<1>9. /\ LiteralAt(t.i + n, v) = t.i + 2 * n
      /\ PcAt(t.i) + l = TrampBase + (t.i + 3 * n) * Unit + Bit
  <2>1. CASE Thumb
    <3>1. PICK q \in Nat : t.i = 2 * q
      BY <2>1 DEF Facing
    <3> QED BY <2>1, <3>1, ThumbDistances
  <2>2. CASE ~Thumb
    BY <1>1, <2>2, ArmDistances
  <2> QED BY <2>1, <2>2
<1>10. Unit \in Nat /\ Bit \in Nat /\ TrampBase \in Nat
  BY DEF Unit, Bit, TrampBase
<1> HIDE DEF a, n, v, l, b, w
<1>11. /\ Stored(t.i, b[1]) /\ Stored(t.i + 1, b[2]) /\ Stored(t.i + 2, b[3])
       /\ n = 2 => Stored(t.i + 4, b[5])
  <2>1. 3 * n \in Nat /\ 3 * n > 2 /\ (n = 2 => 3 * n > 4) /\ 3 * n > 0 /\ 3 * n > 1
    BY <1>8
  <2> QED BY <1>1, <1>6, <2>1, PlacedUnits
<1>12. 3 * n \in Nat
  BY <1>8
<1>13. Stored(t.i + n, b[n + 1])
  BY <1>8, <1>11
<1>14. Stored(t.i + 2 * n, b[2 * n + 1])
  BY <1>8, <1>11
<1>15. t.i + Len(b) # t.i /\ t.i + Len(b) # t.i + n
  BY <1>1, <1>6, <1>8
<1>16. ret \in Int /\ ret = PcAt(t.i) + l
  <2>1. ret = TrampBase + (t.i + 3 * n) * Unit + Bit
    BY <1>6 DEF Return, b
  <2> QED BY <1>1, <1>9, <1>10, <1>12, <2>1
<1> HIDE DEF ret
<1>17. w.end = t.i + Len(b) /\ Effects(w, t, a, With(t.regs, LR, ret), 0)
  <2>1. w = WantedOf(x, pc, t, ret, t.i + Len(b))
    BY DEF w, Want, ret, b
  <2>2. x.type # "IT" /\ x.type \notin Plain /\ LR # PC
    BY DEF Plain, LR, PC
  <2>3. /\ w.end = t.i + Len(b)
        /\ Effects(w, t, IF x.cond => t.flag THEN a ELSE NoExit,
                    IF (x.cond => t.flag) /\ LR # PC THEN With(t.regs, LR, ret) ELSE t.regs,
                    IF (x.cond => t.flag) /\ x.type \in Plain THEN 1 ELSE 0)
    BY <1>1, <1>7, <1>15, <2>1, <2>2, WantIs
  <2> QED BY <1>1, <2>2, <2>3
<1>18. Serves(Calling(t, n, a, ret), w)
  <2>1. /\ t.i \in DOMAIN tramp /\ tramp[t.i] = AddLR(n, l)
        /\ t.i + n \in DOMAIN tramp /\ tramp[t.i + n] = Ldr(n, PC, v)
        /\ LiteralAt(t.i + n, v) \in DOMAIN tramp /\ tramp[LiteralAt(t.i + n, v)] = Word(a)
    BY <1>6, <1>9, <1>11, <1>13, <1>14 DEF Stored
  <2>2. w.end # t.i + n
    BY <1>15, <1>17
  <2>3. n \in {1, 2} /\ a \in Int /\ a # NoExit /\ v \in Int /\ l \in Int /\ Fresh(t)
    BY <1>1, <1>3, <1>8
  <2> QED BY <1>16, <1>17, <2>1, <2>2, <2>3, CallServes
<1> QED BY <1>4, <1>18 DEF ret, w

(* The blocks of conditional branches.                                     *)
LEMMA TestFaced ==
  ASSUME NEW x, NEW pc, NEW t, Facing(x, pc, t),
         x.type \in {"B1_THUMB16", "CB_THUMB16", "B1_THUMB32"}
  PROVE  Serves(Path(x, pc, t, Return(x, pc, t)), Want(x, pc, t))
<1> DEFINE a == pc + x.imm + 1
           b == BlockOf(pc, x)
           ret == Return(x, pc, t)
           w == Want(x, pc, t)
<1>1. /\ t.i \in Nat /\ Fresh(t) /\ x \in Insn /\ pc \in Nat /\ x.cond = TRUE /\ x.imm \in Int
      /\ pc + x.imm \in Nat /\ Placed(t.i, b) /\ Thumb
  BY FacingIs DEF Facing, Faithful, Conditional, Thumb16Type, Thumb32Type, ArmType
<1>2. a \in Int /\ a # NoExit
  BY <1>1 DEF NoExit
<1>3. Path(x, pc, t, ret) = Testing(t, a)
  BY DEF Path
<1>4. b = CondJump(a)
  <2>1. x.type = "B1_THUMB32" => ALIGN_PC(pc) = pc
    BY FacingIs DEF Facing, Faithful
  <2>2. CASE x.type \in {"B1_THUMB16", "CB_THUMB16"}
    <3>1. b = relocateInstructionInThumb16(pc, x)
      BY <2>2, BlockBy DEF Thumb16Type
    <3>2. relocateInstructionInThumb16(pc, x) = CondJump(pc + x.imm + 1)
      BY <2>2 DEF relocateInstructionInThumb16
    <3> QED BY <3>1, <3>2
  <2>3. CASE x.type = "B1_THUMB32"
    <3>1. b = relocateInstructionInThumb32(pc, x)
      BY <2>3, BlockBy DEF Thumb32Type
    <3>2. relocateInstructionInThumb32(pc, x) = CondJump(ALIGN_PC(pc) + x.imm + 1)
      BY <2>3 DEF relocateInstructionInThumb32
    <3> QED BY <2>1, <2>3, <3>1, <3>2
  <2> QED BY <2>2, <2>3
<1>5. /\ Len(b) = 6 /\ b[1] = BCond(0) /\ b[2] = B(6) /\ b[3] = Ldr(2, PC, 0)
      /\ b[5] = Word(a)
  BY <1>4 DEF CondJump, ThumbJump
<1>6. Meaning(x, pc, t.regs, ret) = Effect(a, PC, 0)
  BY DEF Meaning, Jumps
<1>7. /\ LiteralAt(t.i + 2, 0) = t.i + 4 /\ TargetOf(t.i, 0) = t.i + 2
      /\ TargetOf(t.i + 1, 6) = t.i + 6
  <2>1. PICK q \in Nat : t.i = 2 * q
    BY <1>1, FacingIs
  <2> QED BY <1>1, <2>1, ThumbDistances
<1> HIDE DEF a, b, ret, w
<1>8. /\ Stored(t.i, b[1]) /\ Stored(t.i + 1, b[2]) /\ Stored(t.i + 2, b[3])
      /\ Stored(t.i + 4, b[5])
  <2>1. 6 \in Nat /\ 6 > 0 /\ 6 > 1 /\ 6 > 2 /\ 6 > 4
    OBVIOUS
  <2> QED BY <1>1, <1>5, <2>1, PlacedUnits
<1>9. t.i + Len(b) = t.i + 6 /\ t.i + 6 # t.i
  BY <1>1, <1>5
<1>10. w.end = t.i + 6 /\ Effects(w, t, IF t.flag THEN a ELSE NoExit, t.regs, 0)
  <2>1. w = WantedOf(x, pc, t, ret, t.i + 6)
    BY <1>9 DEF w, Want, ret, b
  <2>2. x.type # "IT" /\ x.type \notin Plain
    BY DEF Plain
  <2>3. /\ w.end = t.i + 6
        /\ Effects(w, t, IF x.cond => t.flag THEN a ELSE NoExit,
                    IF (x.cond => t.flag) /\ PC # PC THEN With(t.regs, PC, 0) ELSE t.regs,
                    IF (x.cond => t.flag) /\ x.type \in Plain THEN 1 ELSE 0)
    BY <1>1, <1>6, <1>9, <2>1, <2>2, WantIs
  <2> QED BY <1>1, <2>2, <2>3
<1>11. Serves(Testing(t, a), w)
  BY <1>1, <1>2, <1>5, <1>7, <1>8, <1>10, TestServes DEF Stored
<1> QED BY <1>3, <1>11 DEF ret, w

(* LDR into the PC and its literal, in the blocks of loads.                *)
LEMMA LoadingPC ==
  ASSUME NEW t, NEW n, NEW v, NEW steps
  PROVE  Loading(t, n, PC, v, steps) = Jumping(t, n, v)
  BY DEF Loading, Jumping

(* The blocks of literal loads, of one instruction each.                   *)
LEMMA LoadFaced ==
  ASSUME NEW x, NEW pc, NEW t, Facing(x, pc, t),
         x.type \in {"MOV_THUMB16", "LDR_THUMB16", "ADR1_ARM", "ADR2_ARM", "LDR_ARM", "MOV_ARM"}
  PROVE  Serves(Path(x, pc, t, Return(x, pc, t)), Want(x, pc, t))
<1> DEFINE v == CASE x.type = "LDR_THUMB16" -> WordAt(ALIGN_PC(pc) + x.imm * 4)
                  [] x.type = "ADR1_ARM" -> pc + x.imm
                  [] x.type = "ADR2_ARM" -> pc - x.imm
                  [] x.type = "LDR_ARM" -> WordAt(pc + x.imm)
                  [] OTHER -> pc
           n == IF Thumb THEN 4 ELSE 3
           l == IF Thumb THEN 2 ELSE 0
           b == BlockOf(pc, x)
           ret == Return(x, pc, t)
           w == Want(x, pc, t)
<1>1. /\ t.i \in Nat /\ Fresh(t) /\ x \in Insn /\ pc \in Nat /\ x.cond = FALSE /\ x.imm \in Int
      /\ x.type # "ADR2_ARM" => pc + x.imm \in Nat
      /\ x.rd \in Reg \cup {PC} /\ ALIGN_PC(pc) \in Nat /\ Placed(t.i, b)
  BY FacingIs DEF Facing, Faithful, Unconditional
<1>2. /\ Thumb => x.type \in {"MOV_THUMB16", "LDR_THUMB16"} /\ x.rd < 8
      /\ ~Thumb => x.type \in {"ADR1_ARM", "ADR2_ARM", "LDR_ARM", "MOV_ARM"} /\ ALIGN_PC(pc) = pc
  <2>1. x.type \in {"MOV_THUMB16", "LDR_THUMB16"} => x.rd < 8
    BY DEF Facing, Faithful
  <2>2. ~Thumb => ALIGN_PC(pc) = pc
    BY FacingIs
  <2> QED BY <2>1, <2>2 DEF Facing, Thumb16Type, Thumb32Type, ArmType
<1>3. v \in Int /\ (~Thumb => v # NoExit)
  <2>1. CASE x.type = "LDR_THUMB16"
    BY <1>1, <1>2, <2>1 DEF WordAt
  <2>2. CASE x.type = "ADR2_ARM"
    <3>1. pc - x.imm \in Nat
      BY <1>2, <2>2 DEF Facing, Faithful, Names, ArmType, Thumb16Type, Thumb32Type
    <3> QED BY <1>1, <2>2, <3>1 DEF NoExit
  <2>3. CASE x.type \in {"ADR1_ARM", "LDR_ARM", "MOV_ARM", "MOV_THUMB16"}
    BY <1>1, <2>3 DEF WordAt, NoExit
  <2> QED BY <2>1, <2>2, <2>3
<1>4. Path(x, pc, t, ret) = Loading(t, 1, x.rd, v, {1, n})
  BY <1>2 DEF Path
<1>5. b = IF Thumb THEN <<Ldr(1, x.rd, 0), B(2), Word(v), Half>> ELSE <<Ldr(1, x.rd, 0), B(0), Word(v)>>
  <2>2. CASE Thumb
    <3>1. b = relocateInstructionInThumb16(pc, x)
      BY <1>2, <2>2, BlockBy DEF Thumb16Type
    <3>2. relocateInstructionInThumb16(pc, x) = <<Ldr(1, x.rd % 8, 0), B(2), Word(v), Half>>
      <4>1. CASE x.type = "MOV_THUMB16"
        BY <4>1 DEF relocateInstructionInThumb16
      <4>2. CASE x.type = "LDR_THUMB16"
        BY <4>2 DEF relocateInstructionInThumb16
      <4> QED BY <1>2, <2>2, <4>1, <4>2
    <3>3. x.rd % 8 = x.rd
      BY <1>1, <1>2, <2>2 DEF Reg, PC
    <3> QED BY <2>2, <3>1, <3>2, <3>3
  <2>3. CASE ~Thumb
    <3>1. b = InArm(pc, x)
      BY <1>2, <2>3, BlockBy DEF ArmType
    <3>2. InArm(pc, x) = <<Ldr(1, x.rd, 0), B(0), Word(v)>>
      <4>1. CASE x.type = "ADR1_ARM"
        BY <4>1 DEF InArm
      <4>2. CASE x.type = "ADR2_ARM"
        BY <4>2 DEF InArm
      <4>3. CASE x.type = "LDR_ARM"
        BY <4>3 DEF InArm
      <4>4. CASE x.type = "MOV_ARM"
        BY <4>4 DEF InArm
      <4> QED BY <1>2, <2>3, <4>1, <4>2, <4>3, <4>4
    <3> QED BY <2>3, <3>1, <3>2
  <2> QED BY <2>2, <2>3
<1>6. Len(b) = n /\ b[1] = Ldr(1, x.rd, 0) /\ b[2] = B(l) /\ b[3] = Word(v)
  BY <1>5
<1>7. Meaning(x, pc, t.regs, ret) = Sets(x.rd, v)
  <2>1. CASE x.type \in {"MOV_THUMB16", "MOV_ARM"}
    BY <2>1 DEF Meaning
  <2>2. CASE x.type = "LDR_THUMB16"
    BY <2>2 DEF Meaning
  <2>3. CASE x.type = "LDR_ARM"
    BY <1>2, <2>3 DEF Meaning
  <2>4. CASE x.type \in {"ADR1_ARM", "ADR2_ARM"}
    BY <2>4 DEF Meaning
  <2> QED BY <2>1, <2>2, <2>3, <2>4
<1>8. n \in {3, 4} /\ n \in Nat /\ n > 0 /\ n > 1 /\ n > 2 /\ l \in Int
  OBVIOUS
<1>9. LiteralAt(t.i, 0) = t.i + 2 /\ TargetOf(t.i + 1, l) = t.i + n
  <2>1. CASE Thumb
    <3>1. PICK q \in Nat : t.i = 2 * q
      BY <2>1, FacingIs
    <3> QED BY <2>1, <3>1, ThumbDistances
  <2>2. CASE ~Thumb
    BY <1>1, <2>2, ArmDistances
  <2> QED BY <2>1, <2>2
<1> HIDE DEF v, n, l, b, ret, w
<1>10. Stored(t.i, b[1]) /\ Stored(t.i + 1, b[2]) /\ Stored(t.i + 2, b[3])
  BY <1>1, <1>6, <1>8, PlacedUnits
<1>11. t.i + Len(b) = t.i + n /\ t.i + n # t.i
  BY <1>1, <1>6, <1>8
<1>12. w = WantedOf(x, pc, t, ret, t.i + n) /\ x.type # "IT" /\ x.type \notin Plain
  BY <1>11 DEF w, Want, ret, b, Plain
<1>13. CASE x.rd = PC
  <2>1. ~Thumb
    BY <1>2, <1>13 DEF PC
  <2>2. Meaning(x, pc, t.regs, ret) = Effect(v, PC, 0)
    BY <1>7, <1>13 DEF Sets, Jumps
  <2>3. Effects(w, t, IF x.cond => t.flag THEN v ELSE NoExit,
                IF (x.cond => t.flag) /\ PC # PC THEN With(t.regs, PC, 0) ELSE t.regs,
                IF (x.cond => t.flag) /\ x.type \in Plain THEN 1 ELSE 0)
    BY <1>1, <1>11, <1>12, <2>2, WantIs
  <2>4. Effects(w, t, v, t.regs, 0)
    BY <1>1, <1>12, <2>3
  <2>5. /\ t.i \in DOMAIN tramp /\ tramp[t.i] = Ldr(1, PC, 0)
        /\ LiteralAt(t.i, 0) \in DOMAIN tramp /\ tramp[LiteralAt(t.i, 0)] = Word(v)
    BY <1>6, <1>9, <1>10, <1>13 DEF Stored
  <2>6. 1 \in {1, 2} /\ 0 \in Int /\ v \in Int /\ v # NoExit
    BY <1>3, <2>1
  <2>7. Serves(Jumping(t, 1, v), w)
    BY <1>1, <2>4, <2>5, <2>6, JumpServes
  <2> QED BY <1>4, <1>13, <2>7, LoadingPC DEF ret, w
<1>14. CASE x.rd # PC
  <2>1. x.rd \in Reg
    BY <1>1, <1>14
  <2>2. Meaning(x, pc, t.regs, ret) = Effect(NoExit, x.rd, v)
    BY <1>7, <1>14 DEF Sets
  <2>3. /\ w.end = t.i + n
        /\ Effects(w, t, IF x.cond => t.flag THEN NoExit ELSE NoExit,
                IF (x.cond => t.flag) /\ x.rd # PC THEN With(t.regs, x.rd, v) ELSE t.regs,
                IF (x.cond => t.flag) /\ x.type \in Plain THEN 1 ELSE 0)
    BY <1>1, <1>11, <1>12, <2>2, WantIs
  <2>4. Effects(w, t, NoExit, With(t.regs, x.rd, v), 0)
    BY <1>1, <1>12, <1>14, <2>3
  <2>5. /\ t.i \in DOMAIN tramp /\ tramp[t.i] = Ldr(1, x.rd, 0)
        /\ t.i + 1 \in DOMAIN tramp /\ tramp[t.i + 1] = B(l)
        /\ LiteralAt(t.i, 0) \in DOMAIN tramp /\ tramp[LiteralAt(t.i, 0)] = Word(v)
    BY <1>6, <1>9, <1>10 DEF Stored
  <2>6. Serves(Loading(t, 1, x.rd, v, {1, n}), w)
    BY <1>1, <1>3, <1>8, <1>9, <2>1, <2>3, <2>4, <2>5, LoadServes
  <2> QED BY <1>4, <2>6 DEF ret, w
<1> QED BY <1>13, <1>14

(* The block of LDR.W, of two units for the load.                          *)
LEMMA LoadWideFaced ==
  ASSUME NEW x, NEW pc, NEW t, Facing(x, pc, t), x.type = "LDR_THUMB32"
  PROVE  Serves(Path(x, pc, t, Return(x, pc, t)), Want(x, pc, t))
<1> DEFINE v == WordAt(ALIGN_PC(pc) + x.imm)
           b == BlockOf(pc, x)
           ret == Return(x, pc, t)
           w == Want(x, pc, t)
<1>1. /\ t.i \in Nat /\ Fresh(t) /\ x \in Insn /\ pc \in Nat /\ x.cond = FALSE
      /\ ALIGN_PC(pc) + x.imm \in Nat
      /\ x.rd \in Reg \cup {PC} /\ Placed(t.i, b) /\ Thumb
  BY FacingIs DEF Facing, Faithful, Unconditional, ArmType
<1>2. v \in Int /\ v # NoExit
  BY <1>1 DEF WordAt, NoExit
<1>3. Path(x, pc, t, ret) = Loading(t, 2, x.rd, v, {2, 3, 6})
  BY DEF Path
<1>4. b = <<Ldr(2, x.rd, 4), Half, Nop, B(2), Word(v), Half>>
  <2>1. b = relocateInstructionInThumb32(pc, x)
    BY BlockBy DEF Thumb32Type
  <2>2. relocateInstructionInThumb32(pc, x) = <<Ldr(2, x.rd, 4), Half, Nop, B(2), Word(v), Half>>
    BY DEF relocateInstructionInThumb32
  <2> QED BY <2>1, <2>2
<1>5. Len(b) = 6 /\ b[1] = Ldr(2, x.rd, 4) /\ b[3] = Nop /\ b[4] = B(2) /\ b[5] = Word(v)
  BY <1>4
<1>6. Meaning(x, pc, t.regs, ret) = Sets(x.rd, v)
  BY DEF Meaning
<1>7. LiteralAt(t.i, 4) = t.i + 4 /\ TargetOf(t.i + 3, 2) = t.i + 6
  <2>1. PICK q \in Nat : t.i = 2 * q
    BY <1>1, FacingIs
  <2> QED BY <1>1, <2>1, ThumbDistances
<1> HIDE DEF v, b, ret, w
<1>8. Stored(t.i, b[1]) /\ Stored(t.i + 2, b[3]) /\ Stored(t.i + 3, b[4]) /\ Stored(t.i + 4, b[5])
  <2>1. 6 \in Nat /\ 6 > 0 /\ 6 > 2 /\ 6 > 3 /\ 6 > 4
    OBVIOUS
  <2> QED BY <1>1, <1>5, <2>1, PlacedUnits
<1>9. t.i + Len(b) = t.i + 6 /\ t.i + 6 # t.i
  BY <1>1, <1>5
<1>10. w = WantedOf(x, pc, t, ret, t.i + 6) /\ x.type # "IT" /\ x.type \notin Plain
  BY <1>9 DEF w, Want, ret, b, Plain
<1>11. CASE x.rd = PC
  <2>1. Meaning(x, pc, t.regs, ret) = Effect(v, PC, 0)
    BY <1>6, <1>11 DEF Sets, Jumps
  <2>2. Effects(w, t, IF x.cond => t.flag THEN v ELSE NoExit,
                IF (x.cond => t.flag) /\ PC # PC THEN With(t.regs, PC, 0) ELSE t.regs,
                IF (x.cond => t.flag) /\ x.type \in Plain THEN 1 ELSE 0)
    BY <1>1, <1>9, <1>10, <2>1, WantIs
  <2>3. Effects(w, t, v, t.regs, 0)
    BY <1>1, <1>10, <2>2
  <2>4. /\ t.i \in DOMAIN tramp /\ tramp[t.i] = Ldr(2, PC, 4)
        /\ LiteralAt(t.i, 4) \in DOMAIN tramp /\ tramp[LiteralAt(t.i, 4)] = Word(v)
    BY <1>5, <1>7, <1>8, <1>11 DEF Stored
  <2>5. 2 \in {1, 2} /\ 4 \in Int
    OBVIOUS
  <2>6. Serves(Jumping(t, 2, v), w)
    BY <1>1, <1>2, <2>3, <2>4, <2>5, JumpServes
  <2> QED BY <1>3, <1>11, <2>6, LoadingPC DEF ret, w
<1>12. CASE x.rd # PC
  <2>1. x.rd \in Reg
    BY <1>1, <1>12
  <2>2. Meaning(x, pc, t.regs, ret) = Effect(NoExit, x.rd, v)
    BY <1>6, <1>12 DEF Sets
  <2>3. /\ w.end = t.i + 6
        /\ Effects(w, t, IF x.cond => t.flag THEN NoExit ELSE NoExit,
                IF (x.cond => t.flag) /\ x.rd # PC THEN With(t.regs, x.rd, v) ELSE t.regs,
                IF (x.cond => t.flag) /\ x.type \in Plain THEN 1 ELSE 0)
    BY <1>1, <1>9, <1>10, <2>2, WantIs
  <2>4. Effects(w, t, NoExit, With(t.regs, x.rd, v), 0)
    BY <1>1, <1>10, <1>12, <2>3
  <2>5. /\ t.i \in DOMAIN tramp /\ tramp[t.i] = Ldr(2, x.rd, 4)
        /\ t.i + 2 \in DOMAIN tramp /\ tramp[t.i + 2] = Nop
        /\ t.i + 3 \in DOMAIN tramp /\ tramp[t.i + 3] = B(2)
        /\ LiteralAt(t.i, 4) \in DOMAIN tramp /\ tramp[LiteralAt(t.i, 4)] = Word(v)
    BY <1>5, <1>7, <1>8 DEF Stored
  <2>6. Serves(Loading(t, 2, x.rd, v, {2, 3, 6}), w)
    BY <1>1, <1>2, <1>7, <2>1, <2>3, <2>4, <2>5, LoadWideServes
  <2> QED BY <1>3, <2>6 DEF ret, w
<1> QED BY <1>11, <1>12

(* The scratch register is none of those the instruction uses.             *)
LEMMA ScratchOne ==
  ASSUME NEW d \in Reg
  PROVE  Scratch(7, {d}) \in Reg /\ Scratch(7, {d}) # d
<1> DEFINE q == IF d = 7 THEN 6 ELSE 7
<1>1. q \in 0 .. 7 /\ q \notin {d} /\ \A p \in q + 1 .. 7 : p \in {d}
  BY DEF Reg
<1>2. Scratch(7, {d}) \in 0 .. 7 /\ Scratch(7, {d}) \notin {d}
  BY <1>1 DEF Scratch
<1> QED BY <1>2 DEF Reg

(* The same where two registers are used.                                  *)
LEMMA ScratchTwo ==
  ASSUME NEW d \in Reg, NEW e \in Reg
  PROVE  /\ Scratch(12, {d, e}) \in Reg /\ Scratch(12, {d, e}) # d /\ Scratch(12, {d, e}) # e
<1> DEFINE q == IF 12 \notin {d, e} THEN 12 ELSE IF 11 \notin {d, e} THEN 11 ELSE 10
<1>1. q \in 0 .. 12 /\ q \notin {d, e} /\ \A p \in q + 1 .. 12 : p \in {d, e}
  BY DEF Reg
<1>2. Scratch(12, {d, e}) \in 0 .. 12 /\ Scratch(12, {d, e}) \notin {d, e}
  BY <1>1 DEF Scratch
<1> QED BY <1>2 DEF Reg

(* Setting one register leaves the others.                                 *)
LEMMA WithOther ==
  ASSUME NEW g \in RegFile, NEW r \in Reg, NEW q \in Reg, q # r, NEW v
  PROVE  With(g, r, v)[q] = g[q] /\ g[q] \in Int
  BY DEF With, RegFile

(* Setting one to what it holds leaves all.                                *)
LEMMA WithItself ==
  ASSUME NEW g \in RegFile, NEW r \in Reg
  PROVE  With(g, r, g[r]) = g
  BY DEF With, RegFile

(* The block of ADD with the PC, 16 bits.                                  *)
LEMMA AddThumbFaced ==
  ASSUME NEW x, NEW pc, NEW t, Facing(x, pc, t), x.type = "ADD_THUMB16"
  PROVE  Serves(Path(x, pc, t, Return(x, pc, t)), Want(x, pc, t))
<1> DEFINE r == Scratch(7, {x.rd})
           sum == t.regs[x.rd] + pc
           o == Add(1, x.rd, x.rd, r, 1)
           b == BlockOf(pc, x)
           ret == Return(x, pc, t)
           w == Want(x, pc, t)
<1>1. /\ t.i \in Nat /\ Fresh(t) /\ x \in Insn /\ pc \in Nat /\ pc \in Int /\ x.cond = FALSE
      /\ x.rd \in Reg /\ x.rd # PC /\ t.regs \in RegFile /\ Placed(t.i, b) /\ Thumb
  <2>1. x.cond = FALSE /\ x.rd \notin {PC, SP} /\ Thumb
    BY DEF Facing, Faithful, Unconditional, ArmType
  <2>2. pc \in Int
    BY FacingIs
  <2> QED BY <2>1, <2>2, FacingIs
<1>2. r \in Reg /\ r # x.rd
  BY <1>1, ScratchOne
<1>3. Path(x, pc, t, ret) = Adding(t, r, pc, x.rd, sum, 8)
  BY DEF Path
<1>4. b = <<Push(r), Ldr(1, r, 8), o, Pop(r), B(4), Nop, Word(pc), Half>>
  <2>1. b = relocateInstructionInThumb16(pc, x)
    BY BlockBy DEF Thumb16Type
  <2>2. relocateInstructionInThumb16(pc, x)
          = <<Push(r), Ldr(1, r, 8), o, Pop(r), B(4), Nop, Word(pc), Half>>
    BY DEF relocateInstructionInThumb16
  <2> QED BY <2>1, <2>2
<1>5. Meaning(x, pc, t.regs, ret) = Effect(NoExit, x.rd, sum)
  BY <1>1 DEF Meaning, Sets
<1>6. LiteralAt(t.i + 1, 8) = t.i + 6 /\ TargetOf(t.i + 4, 4) = t.i + 8
  <2>1. PICK q \in Nat : t.i = 2 * q
    BY <1>1, FacingIs
  <2> QED BY <1>1, <2>1, ThumbDistances
<1>7. /\ o.op = "add" /\ o.len = 1 /\ o.rd = x.rd /\ o.rn = x.rd /\ o.rm = r /\ o.v = 1 /\ o.cond = FALSE
  BY DEF Add, Op
<1> HIDE DEF r, o, b, ret, w
<1>8. /\ Len(b) = 8 /\ b[1] = Push(r) /\ b[2] = Ldr(1, r, 8) /\ b[3] = o /\ b[4] = Pop(r)
      /\ b[5] = B(4) /\ b[7] = Word(pc)
  BY <1>4
<1>9. sum \in Int /\ sum = With(t.regs, r, pc)[x.rd] + With(t.regs, r, pc)[r]
  <2>1. With(t.regs, r, pc)[r] = pc
    BY <1>1, <1>2, WithIs
  <2>2. With(t.regs, r, pc)[x.rd] = t.regs[x.rd] /\ t.regs[x.rd] \in Int
    BY <1>1, <1>2, WithOther
  <2> QED BY <1>1, <2>1, <2>2
<1> HIDE DEF sum
<1>10. /\ Stored(t.i, b[1]) /\ Stored(t.i + 1, b[2]) /\ Stored(t.i + 2, b[3]) /\ Stored(t.i + 3, b[4])
       /\ Stored(t.i + 4, b[5]) /\ Stored(t.i + 6, b[7])
  <2>1. 8 \in Nat /\ 8 > 0 /\ 8 > 1 /\ 8 > 2 /\ 8 > 3 /\ 8 > 4 /\ 8 > 6
    OBVIOUS
  <2> QED BY <1>1, <1>8, <2>1, PlacedUnits
<1>11. t.i + Len(b) = t.i + 8 /\ t.i + 8 # t.i
  BY <1>1, <1>8
<1>12. w = WantedOf(x, pc, t, ret, t.i + 8) /\ x.type # "IT" /\ x.type \notin Plain
  BY <1>11 DEF w, Want, ret, b, Plain
<1>13. /\ w.end = t.i + 8
       /\ Effects(w, t, IF x.cond => t.flag THEN NoExit ELSE NoExit,
                  IF (x.cond => t.flag) /\ x.rd # PC THEN With(t.regs, x.rd, sum) ELSE t.regs,
                  IF (x.cond => t.flag) /\ x.type \in Plain THEN 1 ELSE 0)
  BY <1>1, <1>5, <1>11, <1>12, WantIs
<1>14. Effects(w, t, NoExit, With(t.regs, x.rd, sum), 0)
  BY <1>1, <1>12, <1>13
<1>15. /\ t.i \in DOMAIN tramp /\ tramp[t.i] = Push(r)
       /\ t.i + 1 \in DOMAIN tramp /\ tramp[t.i + 1] = Ldr(1, r, 8)
       /\ t.i + 2 \in DOMAIN tramp /\ tramp[t.i + 2] = o
       /\ t.i + 3 \in DOMAIN tramp /\ tramp[t.i + 3] = Pop(r)
       /\ t.i + 4 \in DOMAIN tramp /\ tramp[t.i + 4] = B(4)
       /\ LiteralAt(t.i + 1, 8) \in DOMAIN tramp /\ tramp[LiteralAt(t.i + 1, 8)] = Word(pc)
  BY <1>6, <1>8, <1>10 DEF Stored
<1>16. /\ o.rn \in Reg /\ o.rm \in Reg /\ o.cond \in BOOLEAN /\ 8 \in {6, 8} /\ 4 \in Int
       /\ sum = IF o.cond => t.flag THEN With(t.regs, r, pc)[o.rn] + With(t.regs, r, pc)[o.rm]
                                    ELSE t.regs[x.rd]
  <2>1. (o.cond => t.flag) /\ o.rn \in Reg /\ o.rm \in Reg /\ o.cond \in BOOLEAN
    BY <1>1, <1>2, <1>7
  <2>2. With(t.regs, r, pc)[x.rd] + With(t.regs, r, pc)[r]
          = With(t.regs, r, pc)[o.rn] + With(t.regs, r, pc)[o.rm]
    BY <1>7
  <2> QED BY <1>9, <2>1, <2>2
<1>17. Serves(Adding(t, r, pc, x.rd, sum, 8), w)
  BY <1>1, <1>2, <1>6, <1>7, <1>9, <1>13, <1>14, <1>15, <1>16, AddServes
<1> QED BY <1>3, <1>17 DEF ret, w

(* The block of ADD with the PC in ARM state, which keeps its condition.   *)
LEMMA AddArmFaced ==
  ASSUME NEW x, NEW pc, NEW t, Facing(x, pc, t), x.type = "ADD_ARM"
  PROVE  Serves(Path(x, pc, t, Return(x, pc, t)), Want(x, pc, t))
<1> DEFINE r == Scratch(12, {x.rd, x.rm})
           all == pc + t.regs[x.rm]
           sum == IF x.cond => t.flag THEN all ELSE t.regs[x.rd]
           o == [Add(1, x.rd, r, x.rm, 1) EXCEPT !.cond = x.cond]
           b == BlockOf(pc, x)
           ret == Return(x, pc, t)
           w == Want(x, pc, t)
<1>1. /\ t.i \in Nat /\ Fresh(t) /\ x \in Insn /\ pc \in Nat /\ pc \in Int /\ x.cond \in BOOLEAN
      /\ x.rd \in Reg /\ x.rd # PC /\ x.rm \in Reg /\ t.regs \in RegFile /\ Placed(t.i, b) /\ ~Thumb
  <2>1. x.rd \notin {PC, SP} /\ ~Thumb
    BY DEF Facing, Faithful, Thumb16Type, Thumb32Type
  <2>2. pc \in Int
    BY FacingIs
  <2> QED BY <2>1, <2>2, FacingIs
<1>2. r \in Reg /\ r # x.rd /\ r # x.rm
  BY <1>1, ScratchTwo
<1>3. Path(x, pc, t, ret) = Adding(t, r, pc, x.rd, sum, 6)
  BY DEF Path
<1>4. b = <<Push(r), Ldr(1, r, 8), o, Pop(r), B(0), Word(pc)>>
  <2>1. b = InArm(pc, x)
    BY BlockBy DEF ArmType
  <2>2. InArm(pc, x) = <<Push(r), Ldr(1, r, 8), o, Pop(r), B(0), Word(pc)>>
    BY DEF InArm
  <2> QED BY <2>1, <2>2
<1>5. Meaning(x, pc, t.regs, ret) = Effect(NoExit, x.rd, all)
  BY <1>1 DEF Meaning, Sets
<1>6. LiteralAt(t.i + 1, 8) = t.i + 5 /\ TargetOf(t.i + 4, 0) = t.i + 6
  BY <1>1, ArmDistances
<1>7. /\ o.op = "add" /\ o.len = 1 /\ o.rd = x.rd /\ o.rn = r /\ o.rm = x.rm /\ o.v = 1 /\ o.cond = x.cond
  BY DEF Add, Op
<1> HIDE DEF r, o, b, ret, w
<1>8. /\ Len(b) = 6 /\ b[1] = Push(r) /\ b[2] = Ldr(1, r, 8) /\ b[3] = o /\ b[4] = Pop(r)
      /\ b[5] = B(0) /\ b[6] = Word(pc)
  BY <1>4
<1>9. /\ all \in Int /\ t.regs[x.rd] \in Int /\ sum \in Int
      /\ all = With(t.regs, r, pc)[r] + With(t.regs, r, pc)[x.rm]
  <2>1. With(t.regs, r, pc)[r] = pc
    BY <1>1, <1>2, WithIs
  <2>2. With(t.regs, r, pc)[x.rm] = t.regs[x.rm] /\ t.regs[x.rm] \in Int /\ t.regs[x.rd] \in Int
    BY <1>1, <1>2, WithOther
  <2> QED BY <1>1, <2>1, <2>2
<1> HIDE DEF all
<1>10. /\ Stored(t.i, b[1]) /\ Stored(t.i + 1, b[2]) /\ Stored(t.i + 2, b[3]) /\ Stored(t.i + 3, b[4])
       /\ Stored(t.i + 4, b[5]) /\ Stored(t.i + 5, b[6])
  <2>1. 6 \in Nat /\ 6 > 0 /\ 6 > 1 /\ 6 > 2 /\ 6 > 3 /\ 6 > 4 /\ 6 > 5
    OBVIOUS
  <2> QED BY <1>1, <1>8, <2>1, PlacedUnits
<1>11. t.i + Len(b) = t.i + 6 /\ t.i + 6 # t.i
  BY <1>1, <1>8
<1>12. w = WantedOf(x, pc, t, ret, t.i + 6) /\ x.type # "IT" /\ x.type \notin Plain
  BY <1>11 DEF w, Want, ret, b, Plain
<1>13. /\ w.end = t.i + 6
       /\ Effects(w, t, IF x.cond => t.flag THEN NoExit ELSE NoExit,
                  IF (x.cond => t.flag) /\ x.rd # PC THEN With(t.regs, x.rd, all) ELSE t.regs,
                  IF (x.cond => t.flag) /\ x.type \in Plain THEN 1 ELSE 0)
  BY <1>1, <1>5, <1>11, <1>12, WantIs
<1>14. Effects(w, t, NoExit, With(t.regs, x.rd, sum), 0)
  <2>1. With(t.regs, x.rd, t.regs[x.rd]) = t.regs
    BY <1>1, WithItself
  <2> QED BY <1>1, <1>12, <1>13, <2>1
<1>15. /\ t.i \in DOMAIN tramp /\ tramp[t.i] = Push(r)
       /\ t.i + 1 \in DOMAIN tramp /\ tramp[t.i + 1] = Ldr(1, r, 8)
       /\ t.i + 2 \in DOMAIN tramp /\ tramp[t.i + 2] = o
       /\ t.i + 3 \in DOMAIN tramp /\ tramp[t.i + 3] = Pop(r)
       /\ t.i + 4 \in DOMAIN tramp /\ tramp[t.i + 4] = B(0)
       /\ LiteralAt(t.i + 1, 8) \in DOMAIN tramp /\ tramp[LiteralAt(t.i + 1, 8)] = Word(pc)
  BY <1>6, <1>8, <1>10 DEF Stored
<1>16. /\ o.rn \in Reg /\ o.rm \in Reg /\ o.cond \in BOOLEAN /\ 6 \in {6, 8} /\ 0 \in Int
       /\ sum = IF o.cond => t.flag THEN With(t.regs, r, pc)[o.rn] + With(t.regs, r, pc)[o.rm]
                                    ELSE t.regs[x.rd]
  BY <1>1, <1>2, <1>7, <1>9
<1> HIDE DEF sum
<1>17. Serves(Adding(t, r, pc, x.rd, sum, 6), w)
  BY <1>1, <1>2, <1>6, <1>7, <1>9, <1>13, <1>14, <1>15, <1>16, AddServes
<1> QED BY <1>3, <1>17 DEF ret, w

(* The block of an instruction that does not read the PC is that           *)
(* instruction, padded in Thumb.                                           *)
LEMMA KeepFaced ==
  ASSUME NEW x, NEW pc, NEW t, Facing(x, pc, t), x.type \in Plain
  PROVE  Serves(Path(x, pc, t, Return(x, pc, t)), Want(x, pc, t))
<1> DEFINE e == IF x.cond => t.flag THEN 1 ELSE 0
           n == IF Thumb THEN 2 ELSE 1
           b == BlockOf(pc, x)
           ret == Return(x, pc, t)
           w == Want(x, pc, t)
<1>1. /\ t.i \in Nat /\ Fresh(t) /\ x \in Insn /\ Placed(t.i, b)
  BY FacingIs
<1>2. /\ Thumb => x.type \in {"UNDEFINE16", "UNDEFINE32"}
      /\ ~Thumb => x.type = "UNDEFINE_ARM"
  BY DEF Facing, Plain, Thumb16Type, Thumb32Type, ArmType
<1>3. /\ x.type = "UNDEFINE16" => b = <<Keep(x), Nop>>
      /\ x.type = "UNDEFINE32" => b = <<Keep(x), Half>>
      /\ x.type = "UNDEFINE_ARM" => b = <<Keep(x)>>
  <2>1. ASSUME x.type = "UNDEFINE16" PROVE b = <<Keep(x), Nop>>
    <3>1. b = relocateInstructionInThumb16(pc, x)
      BY <2>1, BlockBy DEF Thumb16Type
    <3> QED BY <2>1, <3>1 DEF relocateInstructionInThumb16
  <2>2. ASSUME x.type = "UNDEFINE32" PROVE b = <<Keep(x), Half>>
    <3>1. b = relocateInstructionInThumb32(pc, x)
      BY <2>2, BlockBy DEF Thumb32Type
    <3> QED BY <2>2, <3>1 DEF relocateInstructionInThumb32
  <2>3. ASSUME x.type = "UNDEFINE_ARM" PROVE b = <<Keep(x)>>
    <3>1. b = InArm(pc, x)
      BY <2>3, BlockBy DEF ArmType
    <3> QED BY <2>3, <3>1 DEF InArm
  <2> QED BY <2>1, <2>2, <2>3
<1>4. Len(b) = n /\ b[1] = Keep(x) /\ (x.type = "UNDEFINE16" => b[2] = Nop)
  BY <1>2, <1>3
<1>5. Keep(x).len = IF x.type = "UNDEFINE32" THEN 2 ELSE 1
  BY DEF Keep, Op
<1>6. Meaning(x, pc, t.regs, ret) = Effect(NoExit, PC, 0)
  BY DEF Meaning, Plain
<1>7. /\ x.type = "UNDEFINE16" => Path(x, pc, t, ret) = Keeping(t, x, {1, 2})
      /\ x.type = "UNDEFINE32" => Path(x, pc, t, ret) = Keeping(t, x, {2})
      /\ x.type = "UNDEFINE_ARM" => Path(x, pc, t, ret) = Keeping(t, x, {1})
  BY DEF Path
<1>8. n \in {1, 2} /\ n \in Nat /\ n > 0 /\ (Thumb => n > 1 /\ n = 2) /\ (~Thumb => n = 1)
  OBVIOUS
<1> HIDE DEF n, b, ret, w
<1>9. Stored(t.i, b[1]) /\ (Thumb => Stored(t.i + 1, b[2]))
  BY <1>1, <1>4, <1>8, PlacedUnits
<1>10. t.i + Len(b) = t.i + n /\ t.i + n # t.i
  BY <1>1, <1>4, <1>8
<1>11. w = WantedOf(x, pc, t, ret, t.i + n) /\ x.type # "IT"
  BY <1>10 DEF w, Want, ret, b, Plain
<1>12. /\ w.end = t.i + n
       /\ Effects(w, t, IF x.cond => t.flag THEN NoExit ELSE NoExit,
                  IF (x.cond => t.flag) /\ PC # PC THEN With(t.regs, PC, 0) ELSE t.regs,
                  IF (x.cond => t.flag) /\ x.type \in Plain THEN 1 ELSE 0)
  BY <1>1, <1>6, <1>10, <1>11, WantIs
<1>13. Effects(w, t, NoExit, t.regs, e)
  BY <1>12
<1> HIDE DEF e
<1>14. CASE x.type = "UNDEFINE16"
  <2>1. /\ t.i \in DOMAIN tramp /\ tramp[t.i] = Keep(x)
        /\ t.i + 1 \in DOMAIN tramp /\ tramp[t.i + 1] = Nop
        /\ 1 = Keep(x).len /\ w.end = t.i + 2
    BY <1>2, <1>4, <1>5, <1>8, <1>9, <1>12, <1>14 DEF Stored
  <2>2. Serves(Keeping(t, x, {1, 2}), w)
    BY <1>1, <1>13, <2>1, KeepPaddedServes DEF e
  <2> QED BY <1>7, <1>14, <2>2 DEF ret, w
<1>15. CASE x.type \in {"UNDEFINE32", "UNDEFINE_ARM"}
  <2>1. /\ t.i \in DOMAIN tramp /\ tramp[t.i] = Keep(x)
        /\ n = Keep(x).len
    BY <1>2, <1>4, <1>5, <1>8, <1>9, <1>15 DEF Stored
  <2>2. Serves(Keeping(t, x, {n}), w)
    BY <1>1, <1>8, <1>12, <1>13, <2>1, KeepServes DEF e
  <2>3. Path(x, pc, t, ret) = Keeping(t, x, {n})
    BY <1>2, <1>7, <1>8, <1>15
  <2> QED BY <2>2, <2>3 DEF ret, w
<1> QED BY <1>14, <1>15 DEF Plain

(* Every faithful instruction's block does what the instruction did.       *)
LEMMA Faced ==
  ASSUME NEW x, NEW pc, NEW t, Facing(x, pc, t)
  PROVE  Serves(Path(x, pc, t, Return(x, pc, t)), Want(x, pc, t))
<1>1. x.type \in Unconditional \cup Conditional \cup EitherWay
  BY DEF Facing, Faithful
<1>2. x.type # "ADD_THUMB16" /\ x.type \in Unconditional =>
        \/ x.type \in {"B2_THUMB16", "B2_THUMB32", "B_ARM", "BX_ARM"}
        \/ x.type \in {"BLX_THUMB32", "BL_THUMB32", "BLX_ARM", "BL_ARM"}
        \/ x.type \in {"MOV_THUMB16", "LDR_THUMB16", "ADR1_ARM", "ADR2_ARM", "LDR_ARM", "MOV_ARM"}
        \/ x.type = "LDR_THUMB32"
  BY DEF Unconditional
<1>3. x.type \in Conditional => x.type \in {"B1_THUMB16", "CB_THUMB16", "B1_THUMB32"}
  BY DEF Conditional
<1>4. x.type \in EitherWay => x.type = "ADD_ARM" \/ x.type \in Plain
  BY DEF EitherWay
<1> QED BY <1>1, <1>2, <1>3, <1>4, JumpFaced, CallFaced, LoadFaced, LoadWideFaced, TestFaced,
           AddThumbFaced, AddArmFaced, KeepFaced

(* The thread is on its path from the start.                               *)
LEMMA PathStarts ==
  ASSUME NEW x, NEW pc, NEW t, Facing(x, pc, t), NEW ret
  PROVE  t \in Path(x, pc, t, ret)
<1> USE DEF Jumping, Calling, Testing, Loading, Adding, Keeping
<1>1. x.type \in Unconditional \cup Conditional \cup EitherWay
  BY DEF Facing, Faithful
<1>2. CASE x.type \in Unconditional
  BY <1>2 DEF Path, Unconditional
<1>3. CASE x.type \in Conditional
  BY <1>3 DEF Path, Conditional
<1>4. CASE x.type \in EitherWay
  BY <1>4 DEF Path, EitherWay, Plain
<1> QED BY <1>1, <1>2, <1>3, <1>4

(* Nothing on the path of a thread changes the block it is in.             *)
LEMMA PathInBlock ==
  ASSUME NEW x, NEW pc, NEW t, Facing(x, pc, t), NEW ret, NEW u \in Path(x, pc, t, ret)
  PROVE  u.k = t.k
<1> USE DEF Jumping, Calling, Testing, Loading, Adding, Keeping, Within, Outside, At
<1>1. x.type \in Unconditional \cup Conditional \cup EitherWay
  BY DEF Facing, Faithful
<1>2. CASE x.type \in Unconditional
  <2>1. CASE x.type \in {"B2_THUMB16", "B2_THUMB32", "B_ARM", "BX_ARM"}
    BY <2>1 DEF Path
  <2>2. CASE x.type \in {"BLX_THUMB32", "BL_THUMB32", "BLX_ARM", "BL_ARM"}
    BY <2>2 DEF Path
  <2>3. CASE x.type \in {"MOV_THUMB16", "LDR_THUMB16", "LDR_THUMB32"}
    BY <2>3 DEF Path
  <2>4. CASE x.type \in {"ADR1_ARM", "ADR2_ARM", "LDR_ARM", "MOV_ARM"}
    BY <2>4 DEF Path
  <2>5. CASE x.type = "ADD_THUMB16"
    BY <2>5 DEF Path
  <2> QED BY <1>2, <2>1, <2>2, <2>3, <2>4, <2>5 DEF Unconditional
<1>3. CASE x.type \in Conditional
  BY <1>3 DEF Path, Conditional
<1>4. CASE x.type \in EitherWay
  <2>1. CASE x.type = "ADD_ARM"
    BY <2>1 DEF Path
  <2>2. CASE x.type \in Plain
    BY <2>2 DEF Path, Plain
  <2> QED BY <1>4, <2>1, <2>2 DEF EitherWay
<1> QED BY <1>1, <1>2, <1>3, <1>4

-----------------------------------------------------------------------------
(* The k-th instruction, where it was and where its block begins.          *)
LEMMA KthIs ==
  ASSUME RelocateInv, NEW k \in 1 .. Len(src)
  PROVE  /\ src[k] \in Insn
         /\ OrigStart(k) = base + obnd[k] /\ OrigStart(k) \in Nat /\ OrigStart(k) + Ahead \in Nat
         /\ BlockStart(k) = tbnd[k] \div Unit /\ BlockStart(k) \in Nat
         /\ Thumb => \E a \in Nat : BlockStart(k) = 2 * a
<1>1. /\ base \in Nat /\ src \in Seq(ThumbInsn \cup ArmInsn) /\ obnd \in Seq(Nat) /\ tbnd \in Seq(Nat)
      /\ Len(src) \in Nat /\ k \in Nat /\ k <= Len(src)
  BY DEF RelocateInv, TypeOK
<1>2. k \in DOMAIN obnd /\ k \in DOMAIN tbnd /\ k \in DOMAIN src
  <2>1. Len(obnd) = Len(tbnd) /\ Len(obnd) \in {Len(src), Len(src) + 1}
    BY DEF RelocateInv, TablesPair
  <2> QED BY <1>1, <2>1
<1>3. src[k] \in Insn
  <2>1. src[k] \in ThumbInsn \cup ArmInsn
    BY <1>1, <1>2
  <2> QED BY <2>1, RelocateAssumption
<1>4. obnd[k] \in Nat /\ tbnd[k] \in Nat /\ tbnd[k] % 4 = 0
  BY <1>1, <1>2 DEF RelocateInv, BlocksAligned
<1>5. OrigStart(k) = base + obnd[k] /\ BlockStart(k) = tbnd[k] \div Unit
  BY <1>1 DEF OrigStart, BlockStart
<1>6. OrigStart(k) \in Nat /\ OrigStart(k) + Ahead \in Nat
  <2>1. Ahead \in Nat
    BY DEF Ahead
  <2>2. base + obnd[k] \in Nat
    BY <1>1, <1>4
  <2> QED BY <1>5, <2>1, <2>2
<1>7. PICK q \in Nat : tbnd[k] = 4 * q
  BY <1>4
<1>8. (Thumb => BlockStart(k) = 2 * q) /\ BlockStart(k) \in Nat
  <2>1. CASE Thumb
    BY <1>5, <1>7, <2>1 DEF Unit
  <2>2. CASE ~Thumb
    BY <1>5, <1>7, <2>2 DEF Unit
  <2> QED BY <2>1, <2>2
<1> QED BY <1>3, <1>5, <1>6, <1>8

(* A thread that enters the block of an instruction faces it.              *)
LEMMA EnteredFaces ==
  ASSUME RelocateInv, Layout, AllFaithful, NEW k \in 1 .. Len(src), NEW t \in Thread, Entered(t, k)
  PROVE  Facing(src[k], OrigStart(k) + Ahead, t)
<1>1. /\ src[k] \in Insn /\ OrigStart(k) \in Nat /\ OrigStart(k) + Ahead \in Nat
      /\ Thumb => \E a \in Nat : BlockStart(k) = 2 * a
  BY KthIs
<1>2. t.i = BlockStart(k) /\ Fresh(t)
  BY DEF Entered, Fresh
<1>3. Faithful(src[k], OrigStart(k) + Ahead)
  BY DEF AllFaithful
<1>4. /\ src[k].type \in (IF Thumb THEN Thumb16Type \cup Thumb32Type ELSE ArmType)
      /\ Placed(t.i, BlockOf(OrigStart(k) + Ahead, src[k]))
      /\ ~Thumb => OrigStart(k) % 4 = 0
  BY <1>2 DEF Layout
<1>5. ~Thumb => (OrigStart(k) + Ahead) % 4 = 0
  <2>1. ASSUME NEW a \in Nat, a % 4 = 0 PROVE (a + 8) % 4 = 0
    BY <2>1
  <2> QED BY <1>1, <1>4, <2>1 DEF Ahead
<1> QED BY <1>1, <1>2, <1>3, <1>4, <1>5 DEF Facing

(* The way of a thread through any of the blocks, or the jump back.        *)
LEMMA WayServes ==
  ASSUME RelocateInv, Layout, AllFaithful, phase \in {"ready", "run"},
         NEW k \in 1 .. Len(src) + 1, NEW t \in Thread, Entered(t, k)
  PROVE  /\ Serves(Way(t, k), Wanted(k, t))
         /\ t \in Way(t, k)
         /\ \A u \in Way(t, k) : u.k = k
<1>0. Len(src) \in Nat /\ k \in Nat /\ mode \in {"thumb", "arm"}
  BY DEF RelocateInv, TypeOK
<1>1. CASE k <= Len(src)
  <2> DEFINE x == src[k]
             pc == OrigStart(k) + Ahead
  <2>1. k \in 1 .. Len(src)
    BY <1>0, <1>1
  <2>2. Facing(x, pc, t)
    BY <2>1, EnteredFaces
  <2>3. t.i + Len(BlockOf(pc, x)) = BlockStart(k + 1)
    BY <2>1 DEF Layout, Entered
  <2>4. Return(x, pc, t) = TrampBase + BlockStart(k + 1) * Unit + Bit
    BY <2>3 DEF Return
  <2>5. Want(x, pc, t) = Wanted(k, t)
    BY <1>0, <1>1, <2>3, <2>4 DEF Want, WantedOf, Wanted
  <2>6. Way(t, k) = Path(x, pc, t, Return(x, pc, t))
    BY <1>1, <2>4 DEF Way
  <2> HIDE DEF x, pc
  <2>7. Serves(Path(x, pc, t, Return(x, pc, t)), Want(x, pc, t))
    BY <2>2, Faced
  <2>8. t \in Path(x, pc, t, Return(x, pc, t))
    BY <2>2, PathStarts
  <2>9. \A u \in Path(x, pc, t, Return(x, pc, t)) : u.k = k
    BY <2>2, PathInBlock DEF Entered
  <2> QED BY <2>5, <2>6, <2>7, <2>8, <2>9
<1>2. CASE k > Len(src)
  <2> DEFINE a == OrigStart(k) + Bit
             n == IF Thumb THEN 2 ELSE 1
             v == IF Thumb THEN 0 ELSE -4
             w == Wanted(k, t)
  <2>1. ~(k <= Len(src))
    BY <1>0, <1>2
  <2>2. /\ Way(t, k) = Jumping(t, n, a)
        /\ BlockStart(k) = tpos /\ OrigStart(k) = base + opos * Unit
    BY <2>1 DEF Way, BlockStart, OrigStart
  <2>3. /\ t.i = tpos /\ Fresh(t) /\ tpos \in Nat /\ base \in Nat /\ opos \in Nat /\ t.i \in Nat
    BY <2>2 DEF Entered, Fresh, RelocateInv, TypeOK
  <2>4. a = IF Thumb THEN base + opos * Unit + 1 ELSE base + Length
    BY <2>2, <2>3 DEF Bit, Layout, Unit, Length
  <2>5. a \in Int /\ a # NoExit /\ n \in {1, 2} /\ v \in Int
    BY <2>2, <2>3 DEF NoExit, Unit, Bit
  <2>6. Effects(w, t, a, t.regs, 0)
    <3>1. w = [it |-> 0, did |-> 0, regs |-> t.regs, exit |-> a, end |-> NoExit]
      BY <1>2 DEF Wanted
    <3>2. NoExit # t.i
      BY <2>3 DEF NoExit
    <3> QED BY <3>1, <3>2 DEF Effects
  <2>7. Placed(t.i, Back) /\ Back = IF Thumb THEN ThumbJump(a) ELSE ArmJump(a)
    BY <2>3, <2>4 DEF Layout, Back
  <2>8. LiteralAt(t.i, v) = t.i + n
    <3>1. CASE Thumb
      <4>1. (tpos * 2) % 4 = 0
        BY <3>1 DEF RelocateInv, BlocksAligned, Unit
      <4>2. PICK q \in Nat : t.i = 2 * q
        BY <2>3, <4>1, EvenUnits
      <4> QED BY <3>1, <4>2, ThumbDistances
    <3>2. CASE ~Thumb
      BY <2>3, <3>2, ArmDistances
    <3> QED BY <3>1, <3>2
  <2> HIDE DEF a, w
  <2>9. /\ Len(Back) = 2 * n /\ Back[1] = Ldr(n, PC, v) /\ Back[n + 1] = Word(a)
    BY <2>7 DEF ThumbJump, ArmJump
  <2>10. 2 * n \in Nat /\ 2 * n > 0 /\ 2 * n > 1 /\ (n = 2 => 2 * n > 2)
    OBVIOUS
  <2> HIDE DEF n, v
  <2>11. Stored(t.i, Back[1]) /\ Stored(t.i + 1, Back[2]) /\ (n = 2 => Stored(t.i + 2, Back[3]))
    BY <2>3, <2>7, <2>9, <2>10, PlacedUnits
  <2>12. Stored(t.i + n, Back[n + 1])
    BY <2>5, <2>11
  <2>13. Serves(Jumping(t, n, a), w)
    <3>1. /\ t.i \in DOMAIN tramp /\ tramp[t.i] = Ldr(n, PC, v)
          /\ LiteralAt(t.i, v) \in DOMAIN tramp /\ tramp[LiteralAt(t.i, v)] = Word(a)
      BY <2>8, <2>9, <2>11, <2>12 DEF Stored
    <3> QED BY <2>3, <2>5, <2>6, <3>1, JumpServes
  <2>14. t \in Jumping(t, n, a) /\ \A u \in Jumping(t, n, a) : u.k = k
    BY DEF Jumping, Outside, At, Entered
  <2> QED BY <2>2, <2>13, <2>14 DEF w
<1> QED BY <1>0, <1>1, <1>2

-----------------------------------------------------------------------------
(* No thread is in the trampoline before it is run; with Layout, that is   *)
(* what Follows needs to be inductive.                                     *)
Idle == phase # "run" => m = NoThread
MeaningInv == RelocateInv /\ Layout /\ Idle /\ (AllFaithful /\ phase = "run" => Follows(m, want))

(* A block stored at trampoline_pos is there, and what was stored before   *)
(* it stays.                                                               *)
LEMMA PlaceIs ==
  ASSUME NEW block, NEW n \in Nat, Len(block) = n, tpos \in Nat,
         \A i \in DOMAIN tramp : i < tpos, DOMAIN tramp \subseteq Nat, tramp' = Place(block)
  PROVE  /\ \A j \in 1 .. Len(block) : tpos + j - 1 \in DOMAIN tramp' /\ tramp'[tpos + j - 1] = block[j]
         /\ \A i \in DOMAIN tramp : i \in DOMAIN tramp' /\ tramp'[i] = tramp[i]
         /\ \A i \in DOMAIN tramp' : i \in Nat /\ i < tpos + n
<1> DEFINE S == tpos .. tpos + n - 1
<1>1. /\ DOMAIN tramp' = DOMAIN tramp \cup S
      /\ \A i \in DOMAIN tramp \cup S : tramp'[i] = IF i \in S THEN block[i - tpos + 1] ELSE tramp[i]
  BY DEF Place
<1>2. ASSUME NEW j \in 1 .. Len(block)
      PROVE  tpos + j - 1 \in DOMAIN tramp' /\ tramp'[tpos + j - 1] = block[j]
  <2>1. tpos + j - 1 \in S /\ (tpos + j - 1) - tpos + 1 = j
    OBVIOUS
  <2> QED BY <1>1, <2>1
<1>3. ASSUME NEW i \in DOMAIN tramp
      PROVE  i \in DOMAIN tramp' /\ tramp'[i] = tramp[i]
  <2>1. i \in Nat /\ i < tpos
    OBVIOUS
  <2>2. i \notin S
    BY <2>1
  <2> QED BY <1>1, <2>2
<1>4. ASSUME NEW i \in DOMAIN tramp'
      PROVE  i \in Nat /\ i < tpos + n
  <2>1. CASE i \in S
    BY <2>1
  <2>2. CASE i \in DOMAIN tramp
    <3>1. i \in Nat /\ i < tpos
      BY <2>2
    <3> QED BY <3>1
  <2> QED BY <1>1, <2>1, <2>2
<1> QED BY <1>2, <1>3, <1>4

(* A block that was stored stays.                                          *)
LEMMA PlacedStays ==
  ASSUME NEW s, NEW block, Placed(s, block),
         \A i \in DOMAIN tramp : i \in DOMAIN tramp' /\ tramp'[i] = tramp[i]
  PROVE  \A j \in 1 .. Len(block) : s + j - 1 \in DOMAIN tramp' /\ tramp'[s + j - 1] = block[j]
  BY DEF Placed

(* The tables only grow: an instruction and its block stay where they are. *)
LEMMA StartsStay ==
  ASSUME RelocateInv, phase = "copy", NEW x, src' = Append(src, x), Boundary,
         UNCHANGED <<mode, base>>, NEW k \in 1 .. Len(src) + 1
  PROVE  BlockStart(k)' = BlockStart(k) /\ OrigStart(k)' = OrigStart(k)
<1>1. /\ base \in Nat /\ src \in Seq(ThumbInsn \cup ArmInsn) /\ obnd \in Seq(Nat) /\ tbnd \in Seq(Nat)
      /\ Len(src) \in Nat /\ k \in Nat /\ opos \in Nat /\ tpos \in Nat
      /\ Len(obnd) = Len(src) /\ Len(tbnd) = Len(src)
  BY DEF RelocateInv, TypeOK, TablesPair, Behind
<1>2. PICK u \in {2, 4} : u = Unit /\ u = Unit'
  BY DEF Unit, Thumb
<1>3. opos * u \in Nat /\ tpos * u \in Nat
  BY <1>1, Scaled
<1>4. obnd' = Append(obnd, opos * u) /\ tbnd' = Append(tbnd, tpos * u)
  BY <1>2 DEF Boundary
<1>5. Len(src') = Len(src) + 1
  BY <1>1
<1>6. k <= Len(src') /\ k \in 1 .. Len(obnd) + 1 /\ k \in 1 .. Len(tbnd) + 1
  BY <1>1, <1>5
<1>7. BlockStart(k)' = tbnd'[k] \div u /\ OrigStart(k)' = base + obnd'[k]
  BY <1>2, <1>6 DEF BlockStart, OrigStart
<1>8. CASE k = Len(src) + 1
  <2>1. obnd'[k] = opos * u /\ tbnd'[k] = tpos * u
    BY <1>1, <1>3, <1>4, <1>8
  <2>2. (tpos * u) \div u = tpos
    BY <1>1
  <2>3. ~(k <= Len(src))
    BY <1>1, <1>8
  <2> QED BY <1>2, <1>7, <2>1, <2>2, <2>3 DEF BlockStart, OrigStart
<1>9. CASE k # Len(src) + 1
  <2>1. k <= Len(src) /\ k \in DOMAIN obnd /\ k \in DOMAIN tbnd
    BY <1>1, <1>9
  <2>2. obnd'[k] = obnd[k] /\ tbnd'[k] = tbnd[k]
    BY <1>1, <1>3, <1>4, <2>1
  <2> QED BY <1>2, <1>7, <2>1, <2>2 DEF BlockStart, OrigStart
<1> QED BY <1>8, <1>9

(* One iteration of the loop lays its block behind the others.             *)
LEMMA LayoutIteration ==
  ASSUME RelocateInv, Layout, phase = "copy",
         NEW x \in ThumbInsn \cup ArmInsn, NEW units \in {1, 2}, NEW block, NEW n \in Nat,
         block = BlockOf(Pc, x), Len(block) = n,
         x.type \in (IF Thumb THEN Thumb16Type \cup Thumb32Type ELSE ArmType),
         ~Thumb => units = 1,
         Boundary, Emit(x, units, block), UNCHANGED <<mode, base>>
  PROVE  Layout'
<1> DEFINE K == Len(src) + 1
<1>1. /\ base \in Nat /\ src \in Seq(ThumbInsn \cup ArmInsn) /\ opos \in Nat /\ tpos \in Nat
      /\ Len(src) \in Nat
  BY DEF RelocateInv, TypeOK
<1>2. /\ src' = Append(src, x) /\ tramp' = Place(block) /\ tpos' = tpos + n /\ opos' = opos + units
      /\ phase' = IF opos + units >= Length \div Unit THEN "jump" ELSE "copy"
  BY DEF Emit
<1>3. /\ Len(src') = Len(src) + 1 /\ src'[K] = x
      /\ \A k \in 1 .. Len(src) : src'[k] = src[k]
  BY <1>1, <1>2
<1>4. /\ \A j \in 1 .. Len(block) : tpos + j - 1 \in DOMAIN tramp' /\ tramp'[tpos + j - 1] = block[j]
      /\ \A i \in DOMAIN tramp : i \in DOMAIN tramp' /\ tramp'[i] = tramp[i]
      /\ \A i \in DOMAIN tramp' : i \in Nat /\ i < tpos + n
  <2>1. \A i \in DOMAIN tramp : i \in Nat /\ i < tpos
    BY DEF Layout
  <2>2. DOMAIN tramp \subseteq Nat /\ \A i \in DOMAIN tramp : i < tpos
    BY <2>1
  <2> QED BY <1>1, <1>2, <2>2, PlaceIs
<1>5. \A k \in 1 .. Len(src) + 1 : BlockStart(k)' = BlockStart(k) /\ OrigStart(k)' = OrigStart(k)
  BY <1>2, StartsStay
<1>6. Thumb' = Thumb /\ Ahead' = Ahead /\ Unit' = Unit
  BY DEF Thumb, Ahead, Unit
<1>7. ASSUME NEW k \in 1 .. Len(src')
      PROVE  /\ src'[k].type \in (IF Thumb THEN Thumb16Type \cup Thumb32Type ELSE ArmType)
             /\ BlockStart(k + 1)' = BlockStart(k)' + Len(BlockOf(OrigStart(k)' + Ahead, src'[k]))
             /\ Placed(BlockStart(k), BlockOf(OrigStart(k) + Ahead, src[k]))'
             /\ ~Thumb => OrigStart(k)' % 4 = 0
  <2>1. CASE k = K
    <3>1. BlockStart(k) = tpos /\ OrigStart(k) = base + opos * Unit
      BY <1>1, <2>1 DEF BlockStart, OrigStart
    <3>2. BlockStart(k)' = tpos /\ OrigStart(k)' = base + opos * Unit
      BY <1>1, <1>5, <2>1, <3>1
    <3>3. BlockOf(OrigStart(k)' + Ahead, src'[k]) = block
      BY <1>3, <2>1, <3>2 DEF Pc
    <3>4. ~(k + 1 <= Len(src'))
      BY <1>1, <1>3, <2>1
    <3>5. BlockStart(k + 1)' = tpos + n
      BY <1>2, <3>4 DEF BlockStart
    <3>6. ~Thumb => OrigStart(k)' % 4 = 0
      <4>1. ASSUME NEW a \in Nat, a % 4 = 0, NEW o \in Nat PROVE (a + o * 4) % 4 = 0
        BY <4>1
      <4>2. ~Thumb => base % 4 = 0 /\ Unit = 4
        BY DEF Layout, Unit
      <4> QED BY <1>1, <3>2, <4>1, <4>2
    <3>7. Placed(BlockStart(k), BlockOf(OrigStart(k) + Ahead, src[k]))'
      BY <1>4, <1>6, <3>2, <3>3 DEF Placed
    <3> QED BY <1>3, <2>1, <3>2, <3>3, <3>5, <3>6, <3>7
  <2>2. CASE k # K
    <3>1. k \in 1 .. Len(src) /\ k \in 1 .. Len(src) + 1 /\ k + 1 \in 1 .. Len(src) + 1
      BY <1>1, <1>3, <2>2
    <3>2. /\ src'[k] = src[k] /\ BlockStart(k)' = BlockStart(k) /\ OrigStart(k)' = OrigStart(k)
          /\ BlockStart(k + 1)' = BlockStart(k + 1)
      BY <1>3, <1>5, <3>1
    <3>3. /\ src[k].type \in (IF Thumb THEN Thumb16Type \cup Thumb32Type ELSE ArmType)
          /\ BlockStart(k + 1) = BlockStart(k) + Len(BlockOf(OrigStart(k) + Ahead, src[k]))
          /\ Placed(BlockStart(k), BlockOf(OrigStart(k) + Ahead, src[k]))
          /\ ~Thumb => OrigStart(k) % 4 = 0
      BY <3>1 DEF Layout
    <3>4. Placed(BlockStart(k), BlockOf(OrigStart(k) + Ahead, src[k]))'
      <4> DEFINE b == BlockOf(OrigStart(k) + Ahead, src[k])
                 s == BlockStart(k)
      <4>1. \A j \in 1 .. Len(b) : s + j - 1 \in DOMAIN tramp' /\ tramp'[s + j - 1] = b[j]
        BY <1>4, <3>3, PlacedStays
      <4>2. b' = b /\ s' = s
        BY <1>6, <3>2
      <4> HIDE DEF b, s
      <4>3. Placed(s, b)'
        BY <4>1, <4>2 DEF Placed
      <4> QED BY <4>3 DEF b, s
    <3> QED BY <3>2, <3>3, <3>4
  <2> QED BY <2>1, <2>2
<1>8. phase' \in {"copy", "jump"} /\ \A i \in DOMAIN tramp' : i \in Nat /\ i < tpos'
  BY <1>2, <1>4
<1>9. ~Thumb => base % 4 = 0 /\ (phase' # "copy" => opos' = 2)
  <2>1. ~Thumb => opos < 2 /\ Length \div Unit = 2 /\ base % 4 = 0
    <3>1. opos < Length \div Unit /\ mode \in {"thumb", "arm"}
      BY DEF RelocateInv, Behind, TypeOK
    <3> QED BY <3>1, Sizes DEF Layout
  <2> QED BY <1>1, <1>2, <2>1
<1> QED BY <1>6, <1>7, <1>8, <1>9 DEF Layout

(* What is behind the loop stays: no later step moves a block.             *)
LEMMA LayoutStays ==
  ASSUME Layout, Len(src) \in Nat, UNCHANGED <<mode, base, src, opos, tpos>>,
         \A k \in 1 .. Len(src) + 1 : BlockStart(k)' = BlockStart(k) /\ OrigStart(k)' = OrigStart(k),
         \A i \in DOMAIN tramp : i \in DOMAIN tramp' /\ tramp'[i] = tramp[i],
         phase' \in {"copy", "jump"} => tramp' = tramp /\ phase \in {"copy", "jump"},
         phase' \in {"ready", "run"} => Placed(tpos, Back)',
         ~Thumb /\ phase' # "copy" => opos = 2
  PROVE  Layout'
<1>1. Thumb' = Thumb /\ Ahead' = Ahead
  BY DEF Thumb, Ahead
<1>2. ASSUME NEW k \in 1 .. Len(src)
      PROVE  /\ src[k].type \in (IF Thumb THEN Thumb16Type \cup Thumb32Type ELSE ArmType)
             /\ BlockStart(k + 1)' = BlockStart(k)' + Len(BlockOf(OrigStart(k)' + Ahead, src[k]))
             /\ Placed(BlockStart(k), BlockOf(OrigStart(k) + Ahead, src[k]))'
             /\ ~Thumb => OrigStart(k)' % 4 = 0
  <2> DEFINE b == BlockOf(OrigStart(k) + Ahead, src[k])
             s == BlockStart(k)
  <2>1. k \in 1 .. Len(src) + 1 /\ k + 1 \in 1 .. Len(src) + 1
    OBVIOUS
  <2>2. BlockStart(k)' = BlockStart(k) /\ OrigStart(k)' = OrigStart(k) /\ BlockStart(k + 1)' = BlockStart(k + 1)
    BY <2>1
  <2>3. /\ src[k].type \in (IF Thumb THEN Thumb16Type \cup Thumb32Type ELSE ArmType)
        /\ BlockStart(k + 1) = BlockStart(k) + Len(b) /\ Placed(s, b)
        /\ ~Thumb => OrigStart(k) % 4 = 0
    BY DEF Layout
  <2>4. b' = b /\ s' = s
    BY <1>1, <2>2
  <2>5. Placed(s, b)'
    <3> HIDE DEF b, s
    <3>1. \A j \in 1 .. Len(b) : s + j - 1 \in DOMAIN tramp' /\ tramp'[s + j - 1] = b[j]
      BY <2>3, PlacedStays
    <3> QED BY <2>4, <3>1 DEF Placed
  <2> QED BY <2>2, <2>3, <2>5
<1>3. phase' \in {"copy", "jump"} => \A i \in DOMAIN tramp' : i \in Nat /\ i < tpos'
  BY DEF Layout
<1>4. ~Thumb => base % 4 = 0
  BY DEF Layout
<1>5. src' = src /\ base' = base /\ opos' = opos
  OBVIOUS
<1> QED BY <1>1, <1>2, <1>3, <1>4, <1>5 DEF Layout

(* The layout holds throughout.                                            *)
LEMMA LayoutNext ==
  ASSUME RelocateInv, Layout, [Next]_vars
  PROVE  Layout'
<1>0. /\ Len(src) \in Nat /\ mode \in {"thumb", "arm"} /\ tpos \in Nat /\ opos \in Nat
      /\ obnd \in Seq(Nat) /\ tbnd \in Seq(Nat) /\ phase \in {"copy", "jump", "ready", "run"}
  BY DEF RelocateInv, TypeOK
<1>1. ASSUME NEW x \in ThumbInsn, CopyThumb16(x)
      PROVE  Layout'
  <2> DEFINE b == relocateInstructionInThumb16(Pc, x)
  <2>1. Thumb /\ phase = "copy" /\ Boundary /\ Emit(x, 1, b) /\ UNCHANGED <<mode, base>> /\ x.type \in Thumb16Type
    BY <1>1 DEF CopyThumb16
  <2>2. Len(b) \in {2, 4, 6, 8} /\ b = BlockOf(Pc, x)
    BY <2>1, Thumb16Room, BlockBy
  <2> HIDE DEF b
  <2>3. PICK n \in Nat : Len(b) = n
    BY <2>2
  <2> QED BY <2>1, <2>2, <2>3, LayoutIteration
<1>2. ASSUME NEW x \in ThumbInsn, CopyThumb32(x)
      PROVE  Layout'
  <2> DEFINE b == relocateInstructionInThumb32(Pc, x)
  <2>1. Thumb /\ phase = "copy" /\ Boundary /\ Emit(x, 2, b) /\ UNCHANGED <<mode, base>> /\ x.type \in Thumb32Type
    BY <1>2 DEF CopyThumb32
  <2>2. Len(b) \in {2, 4, 6, 14} /\ b = BlockOf(Pc, x)
    BY <2>1, Thumb32Room, BlockBy
  <2> HIDE DEF b
  <2>3. PICK n \in Nat : Len(b) = n
    BY <2>2
  <2> QED BY <2>1, <2>2, <2>3, LayoutIteration
<1>3. ASSUME NEW x \in ArmInsn, CopyArm(x)
      PROVE  Layout'
  <2> DEFINE b == InArm(Pc, x)
  <2>1. ~Thumb /\ phase = "copy" /\ Boundary /\ Emit(x, 1, b) /\ UNCHANGED <<mode, base>> /\ x.type \in ArmType
    BY <1>3, RelocateAssumption DEF CopyArm
  <2>2. Len(b) \in {1, 2, 3, 6} /\ b = BlockOf(Pc, x)
    BY <2>1, ArmRoom, BlockBy
  <2> HIDE DEF b
  <2>3. PICK n \in Nat : Len(b) = n
    BY <2>2
  <2> QED BY <2>1, <2>2, <2>3, LayoutIteration
<1>4. CASE CopyThumbTail
  <2>1. /\ phase = "copy" /\ Thumb /\ Boundary /\ phase' = "jump" /\ UNCHANGED <<mode, base, src, opos, tpos, tramp>>
    BY <1>4 DEF CopyThumbTail
  <2>2. PICK u \in {2, 4} : u = Unit /\ u = Unit'
    BY <2>1 DEF Unit, Thumb
  <2>3. opos * u \in Nat /\ tpos * u \in Nat /\ Len(obnd) = Len(src) /\ Len(tbnd) = Len(src)
    BY <1>0, <2>1, Scaled DEF RelocateInv, Behind, TablesPair
  <2>4. obnd' = Append(obnd, opos * u) /\ tbnd' = Append(tbnd, tpos * u)
    BY <2>1, <2>2 DEF Boundary
  <2>5. ASSUME NEW k \in 1 .. Len(src) + 1
        PROVE  BlockStart(k)' = BlockStart(k) /\ OrigStart(k)' = OrigStart(k)
    <3>1. CASE k <= Len(src)
      <4>1. k \in DOMAIN obnd /\ k \in DOMAIN tbnd
        BY <1>0, <2>3, <3>1
      <4>2. obnd'[k] = obnd[k] /\ tbnd'[k] = tbnd[k]
        BY <1>0, <2>3, <2>4, <4>1
      <4> QED BY <2>1, <2>2, <3>1, <4>2 DEF BlockStart, OrigStart
    <3>2. CASE ~(k <= Len(src))
      BY <2>1, <2>2, <3>2 DEF BlockStart, OrigStart
    <3> QED BY <3>1, <3>2
  <2> QED BY <1>0, <2>1, <2>5, LayoutStays
<1>5. ASSUME UNCHANGED <<mode, base, src, opos, tpos, obnd, tbnd>>
      PROVE  /\ \A k \in 1 .. Len(src) + 1 : BlockStart(k)' = BlockStart(k) /\ OrigStart(k)' = OrigStart(k)
             /\ Back' = Back /\ Thumb' = Thumb
  BY <1>5 DEF BlockStart, OrigStart, Unit, Thumb, Back, Length, ThumbJump, ArmJump
<1>6. CASE FinalJump
  <2>1. /\ phase = "jump" /\ phase' = "ready" /\ tramp' = Place(Back)
        /\ UNCHANGED <<mode, base, src, opos, tpos, obnd, tbnd>>
    BY <1>6 DEF FinalJump, Back
  <2>2. /\ DOMAIN tramp \subseteq Nat /\ \A i \in DOMAIN tramp : i < tpos
        /\ ~Thumb => opos = 2
    BY <2>1 DEF Layout
  <2>3. PICK n \in Nat : Len(Back) = n
    BY DEF Back, ThumbJump, ArmJump
  <2>4. /\ \A j \in 1 .. Len(Back) : tpos + j - 1 \in DOMAIN tramp' /\ tramp'[tpos + j - 1] = Back[j]
        /\ \A i \in DOMAIN tramp : i \in DOMAIN tramp' /\ tramp'[i] = tramp[i]
    BY <1>0, <2>1, <2>2, <2>3, PlaceIs
  <2>5. Back' = Back /\ tpos' = tpos
    BY <1>5, <2>1
  <2>6. Placed(tpos, Back)'
    BY <2>4, <2>5 DEF Placed
  <2> QED BY <1>0, <1>5, <2>1, <2>2, <2>4, <2>6, LayoutStays
<1>7. ASSUME UNCHANGED <<mode, base, copying>>,
             \/ UNCHANGED phase
             \/ phase \in {"ready", "run"} /\ phase' \in {"ready", "run"}
      PROVE  Layout'
  <2>1. UNCHANGED <<mode, base, src, opos, tpos, obnd, tbnd>> /\ tramp' = tramp
    BY <1>7 DEF copying
  <2>2. Back' = Back
    BY <1>5, <2>1
  <2>3. phase \in {"ready", "run"} => Placed(tpos, Back)'
    BY <2>1, <2>2 DEF Layout, Placed
  <2>4. ~Thumb /\ phase' # "copy" => opos = 2
    BY <1>7 DEF Layout
  <2>5. phase' \in {"ready", "run"} => phase \in {"ready", "run"}
    BY <1>7
  <2>6. phase' \in {"copy", "jump"} => phase \in {"copy", "jump"}
    BY <1>7
  <2> QED BY <1>0, <1>5, <2>1, <2>3, <2>4, <2>5, <2>6, LayoutStays
<1>8. ASSUME NEW k \in 1 .. Len(obnd), Start(k)
      PROVE  Layout'
  BY <1>7, <1>8 DEF Start
<1>9. CASE Step
  BY <1>7, <1>9 DEF Step
<1>10. CASE NextBlock
  BY <1>7, <1>10 DEF NextBlock
<1>11. CASE Leave
  BY <1>7, <1>11 DEF Leave
<1>12. CASE UNCHANGED vars
  BY <1>7, <1>12 DEF vars, copying
<1> QED BY <1>1, <1>2, <1>3, <1>4, <1>6, <1>8, <1>9, <1>10, <1>11, <1>12 DEF Next

-----------------------------------------------------------------------------
(* A thread that comes to a block with nothing pushed follows it.          *)
LEMMA EnterFollows ==
  ASSUME RelocateInv, Layout, AllFaithful, phase \in {"ready", "run"},
         NEW k \in 1 .. Len(src) + 1, NEW t \in Thread, t.stack = <<>>, t.exit = NoExit, Enter(k, t)
  PROVE  Follows(m', want')
<1>1. PICK f \in BOOLEAN :
         /\ m' = [t EXCEPT !.k = k, !.i = BlockStart(k), !.flag = f, !.did = 0]
         /\ want' = Wanted(k, m')
  BY DEF Enter
<1>2. BlockStart(k) \in Nat /\ k \in Nat
  <2>1. Len(src) \in Nat /\ tpos \in Nat
    BY DEF RelocateInv, TypeOK
  <2>2. CASE k \in 1 .. Len(src)
    BY <2>2, KthIs
  <2>3. CASE k \notin 1 .. Len(src)
    BY <2>1, <2>3 DEF BlockStart
  <2> QED BY <2>1, <2>2, <2>3
<1>3. /\ m'.k = k /\ m'.i = BlockStart(k) /\ m'.did = 0 /\ m'.stack = <<>> /\ m'.exit = NoExit
      /\ m' \in Thread
  BY <1>1, <1>2 DEF Thread
<1>4. Entered(m', k)
  BY <1>3 DEF Entered
<1>5. m' \in Way(m', k)
  BY <1>3, <1>4, WayServes
<1> QED BY <1>1, <1>3, <1>4, <1>5 DEF Follows

(* Running the trampoline changes none of what it is judged by.            *)
LEMMA FollowsNow ==
  ASSUME UNCHANGED <<mode, base, copying>>, Follows(m', want')
  PROVE  Follows(m, want)'
<1>1. UNCHANGED <<mode, base, src, opos, tpos, obnd, tbnd, tramp>>
  BY DEF copying
<1>2. PICK t \in Thread : Entered(t, m'.k) /\ m' \in Way(t, m'.k) /\ want' = Wanted(m'.k, t)
  BY DEF Follows
<1>3. m'.k \in 1 .. Len(src) + 1
  BY DEF Follows
<1> DEFINE k == m'.k
<1>4. Thumb' = Thumb /\ Unit' = Unit /\ Ahead' = Ahead /\ Bit' = Bit
  BY <1>1 DEF Thumb, Unit, Ahead, Bit
<1> HIDE DEF k
<1>5. ASSUME NEW j
      PROVE  BlockStart(j)' = BlockStart(j) /\ OrigStart(j)' = OrigStart(j)
  BY <1>1, <1>4 DEF BlockStart, OrigStart
<1>6. PICK q : q = m'.k
  OBVIOUS
<1>7. Entered(t, q)' /\ Way(t, q)' = Way(t, q) /\ Wanted(q, t)' = Wanted(q, t)
  <2>1. Entered(t, q)'
    BY <1>2, <1>5, <1>6 DEF Entered
  <2>2. Way(t, q)' = Way(t, q)
    BY <1>1, <1>4, <1>5 DEF Way
  <2>3. Wanted(q, t)' = Wanted(q, t)
    BY <1>1, <1>4, <1>5 DEF Wanted
  <2> QED BY <2>1, <2>2, <2>3
<1> QED BY <1>1, <1>2, <1>3, <1>6, <1>7 DEF Follows

(* Where a thread that follows its block is: nothing lost, and what was    *)
(* wanted done when it leaves or ends the block.                           *)
LEMMA FollowsIs ==
  ASSUME RelocateInv, Layout, AllFaithful, phase = "run", NEW u, NEW w, Follows(u, w)
  PROVE  /\ u \in Thread /\ u.k \in 1 .. Len(src) + 1
         /\ u.exit # NoExit \/ u.i = w.end => Arrives(u, w)
         /\ u.exit = NoExit /\ u.i # w.end =>
              u.i \in DOMAIN tramp /\ Follows(Executed(u, tramp[u.i]), w)
         /\ w.end = IF u.k <= Len(src) THEN BlockStart(u.k + 1) ELSE NoExit
<1>1. PICK t \in Thread : Entered(t, u.k) /\ u \in Way(t, u.k) /\ w = Wanted(u.k, t)
  BY DEF Follows
<1>2. u.k \in 1 .. Len(src) + 1 /\ Len(src) \in Nat
  BY DEF Follows, RelocateInv, TypeOK
<1>3. Serves(Way(t, u.k), w) /\ \A z \in Way(t, u.k) : z.k = u.k
  BY <1>1, <1>2, WayServes
<1>4. /\ u \in Thread
      /\ u.exit # NoExit \/ u.i = w.end => Arrives(u, w)
      /\ u.exit = NoExit /\ u.i # w.end =>
           u.i \in DOMAIN tramp /\ Executed(u, tramp[u.i]) \in Way(t, u.k)
  BY <1>1, <1>3 DEF Serves
<1>5. ASSUME NEW z \in Way(t, u.k)
      PROVE  Follows(z, w)
  <2>1. z.k = u.k
    BY <1>3
  <2> QED BY <1>1, <1>2, <2>1 DEF Follows
<1>6. w.end = IF u.k <= Len(src) THEN BlockStart(u.k + 1) ELSE NoExit
  BY <1>1, <1>2 DEF Wanted
<1> QED BY <1>2, <1>4, <1>5, <1>6

(* Every step keeps the invariant.                                         *)
LEMMA MeaningNext == MeaningInv /\ [Next]_vars => MeaningInv'
<1> SUFFICES ASSUME MeaningInv, [Next]_vars
             PROVE  MeaningInv'
  OBVIOUS
<1>0. RelocateInv /\ Layout /\ Idle /\ (AllFaithful /\ phase = "run" => Follows(m, want))
  BY DEF MeaningInv
<1>1. RelocateInv'
  BY <1>0, NextInv
<1>2. Layout'
  BY <1>0, LayoutNext
<1>3. ASSUME phase # "run", phase' # "run", UNCHANGED m
      PROVE  MeaningInv'
  BY <1>0, <1>1, <1>2, <1>3 DEF MeaningInv, Idle
<1>4. ASSUME NEW x \in ThumbInsn, CopyThumb16(x) \/ CopyThumb32(x)
      PROVE  MeaningInv'
  BY <1>3, <1>4 DEF CopyThumb16, CopyThumb32, Emit
<1>5. CASE CopyThumbTail
  BY <1>3, <1>5 DEF CopyThumbTail
<1>6. ASSUME NEW x \in ArmInsn, CopyArm(x)
      PROVE  MeaningInv'
  BY <1>3, <1>6 DEF CopyArm, Emit
<1>7. CASE FinalJump
  BY <1>3, <1>7 DEF FinalJump
<1>8. ASSUME UNCHANGED <<mode, base, copying>>, phase' = "run", AllFaithful => Follows(m', want')
      PROVE  MeaningInv'
  <2>1. AllFaithful' => AllFaithful
    BY <1>8 DEF AllFaithful, copying, OrigStart, Ahead, Unit, Thumb
  <2>2. AllFaithful' => Follows(m, want)'
    BY <1>8, <2>1, FollowsNow
  <2> QED BY <1>1, <1>2, <1>8, <2>2 DEF MeaningInv, Idle
<1>9. ASSUME NEW k \in 1 .. Len(obnd), Start(k)
      PROVE  MeaningInv'
  <2> DEFINE t == [NoThread EXCEPT !.it = IF k > 1 /\ src[k - 1].type = "IT" THEN 1 ELSE 0]
  <2>1. phase = "ready" /\ Enter(k, t) /\ phase' = "run" /\ UNCHANGED <<mode, base, copying>>
    BY <1>9 DEF Start
  <2>2. ASSUME AllFaithful PROVE Follows(m', want')
    <3>1. k \in 1 .. Len(src) + 1 /\ Len(src) \in Nat
      BY <1>0 DEF RelocateInv, TablesPair, TypeOK
    <3>2. k > 1 => src[k - 1].type # "IT"
      <4>1. k > 1 => k - 1 \in 1 .. Len(src)
        BY <3>1
      <4> QED BY <2>2, <4>1 DEF AllFaithful, Faithful, Unconditional, Conditional, EitherWay, Plain
    <3>3. t = [NoThread EXCEPT !.it = 0]
      BY <3>2
    <3>4. t \in Thread /\ t.stack = <<>> /\ t.exit = NoExit
      <4>1. Regs0 \in RegFile /\ NoExit \in Int /\ <<>> \in Seq(Int)
        BY DEF Regs0, RegFile, Reg, NoExit
      <4> HIDE DEF t
      <4> QED BY <3>3, <4>1 DEF NoThread, Thread
    <3> HIDE DEF t
    <3> QED BY <1>0, <2>1, <2>2, <3>1, <3>4, EnterFollows
  <2> QED BY <1>8, <2>1, <2>2
<1>10. CASE Step
  <2>1. /\ phase = "run" /\ m.exit = NoExit /\ m.i # want.end /\ want' = want /\ phase' = phase
        /\ m' = (IF m.i \in DOMAIN tramp THEN Executed(m, tramp[m.i]) ELSE [m EXCEPT !.lost = TRUE])
        /\ UNCHANGED <<mode, base, copying>>
    BY <1>10 DEF Step, Running
  <2>2. ASSUME AllFaithful PROVE Follows(m', want')
    <3>1. m.i \in DOMAIN tramp /\ Follows(Executed(m, tramp[m.i]), want)
      BY <1>0, <2>1, <2>2, FollowsIs
    <3> QED BY <2>1, <3>1
  <2> QED BY <1>8, <2>1, <2>2
<1>11. CASE NextBlock
  <2>1. /\ phase = "run" /\ m.exit = NoExit /\ m.i = want.end /\ Enter(m.k + 1, m) /\ phase' = phase
        /\ UNCHANGED <<mode, base, copying>>
    BY <1>11 DEF NextBlock, Running
  <2>2. ASSUME AllFaithful PROVE Follows(m', want')
    <3>1. /\ m \in Thread /\ m.k \in 1 .. Len(src) + 1 /\ Arrives(m, want)
          /\ want.end = IF m.k <= Len(src) THEN BlockStart(m.k + 1) ELSE NoExit
      BY <1>0, <2>1, <2>2, FollowsIs
    <3>2. m.stack = <<>> /\ m.i \in Nat /\ Len(src) \in Nat
      BY <1>0, <3>1 DEF Arrives, Thread, RelocateInv, TypeOK
    <3>3. m.k <= Len(src)
      BY <2>1, <3>1, <3>2 DEF NoExit
    <3>4. m.k + 1 \in 1 .. Len(src) + 1
      BY <3>1, <3>2, <3>3
    <3> QED BY <1>0, <2>1, <2>2, <3>1, <3>2, <3>4, EnterFollows
  <2> QED BY <1>8, <2>1, <2>2
<1>12. CASE Leave
  BY <1>1, <1>2, <1>12 DEF Leave, MeaningInv, Idle
<1>13. CASE UNCHANGED vars
  <2>1. UNCHANGED <<mode, base, copying>> /\ phase' = phase /\ m' = m /\ want' = want
    BY <1>13 DEF vars, copying
  <2>2. CASE phase = "run"
    BY <1>0, <1>8, <2>1, <2>2
  <2>3. CASE phase # "run"
    BY <1>3, <2>1, <2>3
  <2> QED BY <2>2, <2>3
<1> QED BY <1>4, <1>5, <1>6, <1>7, <1>9, <1>10, <1>11, <1>12, <1>13 DEF Next

(* Nothing is copied yet and nobody runs.                                  *)
LEMMA MeaningInit == Init => MeaningInv
<1> SUFFICES ASSUME Init
             PROVE  MeaningInv
  OBVIOUS
<1>1. RelocateInv
  BY InitInv
<1>2. /\ src = <<>> /\ tramp = <<>> /\ phase = "copy" /\ m = NoThread
      /\ ~Thumb => base = 1024
  BY DEF Init, CodeBase, Thumb
<1>3. 1 .. Len(src) = {} /\ DOMAIN tramp = {}
  BY <1>2
<1>4. ~Thumb => base % 4 = 0
  BY <1>2
<1>5. Layout
  BY <1>2, <1>3, <1>4 DEF Layout
<1> QED BY <1>1, <1>2, <1>5 DEF MeaningInv, Idle

(* The invariant is strong enough.                                         *)
LEMMA MeaningEnough == MeaningInv => (AllFaithful => MeaningKept)
<1> SUFFICES ASSUME MeaningInv, AllFaithful
             PROVE  MeaningKept
  OBVIOUS
<1>1. CASE phase = "run"
  <2>1. m \in Thread /\ (m.exit # NoExit \/ m.i = want.end => Arrives(m, want))
    BY <1>1, FollowsIs DEF MeaningInv
  <2>2. ~m.lost
    BY <2>1 DEF Thread
  <2> QED BY <2>1, <2>2 DEF MeaningKept, Arrives
<1>2. CASE phase # "run"
  <2>1. m = NoThread
    BY <1>2 DEF MeaningInv, Idle
  <2> QED BY <1>2, <2>1 DEF MeaningKept, NoThread
<1> QED BY <1>1, <1>2

(* Whatever a function begins with, as long as each instruction copied is  *)
(* one the relocator handles: a thread that runs the trampoline, from its  *)
(* start or from any boundary doProcessThreadPC may move it to, leaves     *)
(* each block with the registers, the stack and the flags' use that the    *)
(* original instruction would have left it with, jumps where that would    *)
(* have jumped, and never executes a literal.                              *)
THEOREM TrampolineMeans == Spec => [](AllFaithful => MeaningKept)
<1>1. Spec => []MeaningInv
  BY MeaningInit, MeaningNext, PTL DEF Spec
<1> QED BY <1>1, MeaningEnough, PTL

=============================================================================
