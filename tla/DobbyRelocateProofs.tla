------------------------ MODULE DobbyRelocateProofs ------------------------
(***************************************************************************)
(* How long Dobby takes an instruction of ia32 or x64 to be, for every     *)
(* instruction: OpcodeDecodeTable and the decoding of ModRM agree with the *)
(* processor's manual, but for the forms that Misread lists.  The handlers *)
(* of one-byte opcodes are compared row by row, and what they miss or      *)
(* count too much is added up.                                             *)
(***************************************************************************)
EXTENDS DobbyRelocate, TLAPS

(* What the handler counts too little and too much of the immediate, and   *)
(* what _DecodeModRM misses behind a SIB byte without a base.              *)
Missed(set, i) ==
  IF i.opcode \in 184..191 /\ i.pre = RexW THEN 4
  ELSE IF i.opcode \in {232, 233} /\ set = "x64" /\ Size66(i) THEN 2 ELSE 0
Extra(i) ==
  IF i.opcode = 193 THEN Word(i) - 1
  ELSE IF i.opcode = 246 /\ i.reg >= 2 THEN 1
  ELSE IF i.opcode = 247 /\ i.reg >= 2 THEN Word(i) ELSE 0
MissedDisp(set, i) == IF HasModRM(set, i) /\ NoBase(i) THEN 4 ELSE 0

(* An instruction of one byte of opcode, with a handler that is its own.   *)
Handled(set, i) ==
  i.pre # TwoByte /\ i.opcode \notin Missing \cup {130, 154} /\ Valid(set, i)

(* What a row of the table has to say of an instruction: it has a handler, *)
(* which knows whether there is a ModRM, and the immediate.                *)
RowRight(set, i) ==
  /\ Table(set, i.opcode)[1] # "none"
  /\ (Table(set, i.opcode)[1] = "modrm") <=> HasModRM(set, i)
  /\ _DecodeImmedite(i, Table(set, i.opcode)[2]) \in Nat
  /\ _DecodeImmedite(i, Table(set, i.opcode)[2]) + Missed(set, i) = ImmediateLen(set, i) + Extra(i)

(* The fields of an instruction.                                           *)
LEMMA Fields ==
  ASSUME NEW i \in X86Bytes
  PROVE  /\ i.opcode \in 0..255
         /\ i.mod \in 0..3 /\ i.reg \in 0..7 /\ i.rm \in 0..7 /\ i.base \in 0..7
BY DEF X86Bytes

(* REX and 0F are no operand-size prefix.                                  *)
LEMMA OneByteNo66 ==
  ASSUME NEW i, i.pre \in {RexW, TwoByte}
  PROVE  PrefixLen(i) = 1 /\ ~Size66(i)
<1>1. Len(<<72>>) = 1 /\ Len(<<15>>) = 1
  OBVIOUS
<1>2. PrefixLen(i) = 1
  BY <1>1 DEF PrefixLen, RexW, TwoByte
<1>3. i.pre[1] # 102
  BY DEF RexW, TwoByte
<1> QED BY <1>2, <1>3 DEF Size66, PrefixLen

(* ModRM, SIB and the displacement are counted as the manual has them, but *)
(* for the displacement behind a SIB byte without a base.                  *)
LEMMA ModRMLength ==
  ASSUME NEW set, NEW i \in X86Bytes
  PROVE  /\ _DecodeModRM(set, i) + (IF NoBase(i) THEN 4 ELSE 0) = ModRMLen(set, i)
         /\ ModRMLen(set, i) \in 1..6 /\ _DecodeModRM(set, i) \in 1..6
<1>1. i.mod \in 0..3 /\ i.rm \in 0..7 /\ i.base \in 0..7
  BY Fields
<1> QED BY <1>1 DEF _DecodeModRM, ModRMLen, NoBase

(* Rows 00 to 3F: the eight arithmetic operations.                         *)
LEMMA LowRows ==
  ASSUME NEW set \in {"x64", "ia32"}, NEW i \in X86Bytes, Handled(set, i), i.opcode < 64
  PROVE  RowRight(set, i)
<1>1. i.pre # TwoByte /\ i.opcode \in 0..63
  BY Fields DEF Handled
<1>2. i.opcode \notin PrefixLow \cup InvalidLow(set)
  BY <1>1 DEF Handled, Valid, NoInstruction, PrefixLow, InvalidLow
<1>3. HasModRM(set, i) <=> i.opcode % 8 < 4
  BY <1>1 DEF HasModRM, Arith
<1>4. ImmediateLen(set, i) = ImmediateLow(i)
  BY <1>1 DEF ImmediateLen, Arith
<1>5. Table(set, i.opcode) =
        IF i.opcode % 8 < 4 THEN <<"modrm", 0>>
        ELSE IF i.opcode % 8 \in {4, 5} THEN <<"op", ImmLow(i.opcode)>> ELSE <<"op", 0>>
  BY <1>1, <1>2 DEF Table, TableLow, ModRMLow, Arith
<1>6. Missed(set, i) = 0 /\ Extra(i) = 0
  BY <1>1 DEF Missed, Extra
<1> QED
  BY <1>1, <1>3, <1>4, <1>5, <1>6 DEF RowRight, ImmLow, ImmediateLow, _DecodeImmedite, Word

(* Rows 40 to 8F.                                                          *)
LEMMA MiddleRows ==
  ASSUME NEW set \in {"x64", "ia32"}, NEW i \in X86Bytes, Handled(set, i), i.opcode \in 64..143
  PROVE  RowRight(set, i)
<1>1. i.pre # TwoByte /\ i.opcode \notin Arith
  BY DEF Handled, Arith
<1>2. Table(set, i.opcode) = TableMiddle(set, i.opcode)
  BY DEF Table
<1>3. ImmediateLen(set, i) = ImmediateHigh(set, i)
  BY <1>1 DEF ImmediateLen
<1>4. i.opcode \notin NoInstruction(set) /\ i.opcode # 130
  BY <1>1 DEF Valid, Handled
<1>5. Missed(set, i) = 0 /\ Extra(i) = 0
  BY DEF Missed, Extra
<1> QED
  BY <1>1, <1>2, <1>3, <1>4, <1>5
  DEF RowRight, TableMiddle, HasModRM, ImmediateHigh, _DecodeImmedite, Word, NoInstruction, Missing

(* Rows 90 to FF.                                                          *)
LEMMA HighRows ==
  ASSUME NEW set \in {"x64", "ia32"}, NEW i \in X86Bytes, Handled(set, i), i.opcode \in 144..255
  PROVE  RowRight(set, i)
<1>1. i.pre # TwoByte /\ i.opcode \notin Arith
  BY DEF Handled, Arith
<1>2. Table(set, i.opcode) = TableHigh(set, i.opcode)
  BY DEF Table
<1>3. ImmediateLen(set, i) = ImmediateHigh(set, i)
  BY <1>1 DEF ImmediateLen
<1>4. i.opcode \notin NoInstruction(set) /\ i.opcode \notin Missing \cup {154}
  BY <1>1 DEF Valid, Handled
<1>5. i.reg \in 0..7 /\ (i.pre = RexW => ~Size66(i))
  BY Fields, OneByteNo66
<1> QED
  BY <1>1, <1>2, <1>3, <1>4, <1>5
  DEF RowRight, TableHigh, HasModRM, ImmediateHigh, _DecodeImmedite, Word, NoInstruction, Missing,
      Missed, Extra

(* Immediates have lengths.                                                *)
LEMMA LengthsNatural ==
  ASSUME NEW set, NEW i \in X86Bytes
  PROVE  ImmediateLen(set, i) \in Nat /\ PrefixLen(i) \in Nat
<1>1. i.opcode \in 0..255
  BY Fields
<1>2. PrefixLen(i) \in Nat
  BY DEF X86Bytes, PrefixLen, OperandSize, RexW, RexB, TwoByte
<1> QED
  BY <1>1, <1>2 DEF ImmediateLen, ImmediateOf0F, ImmediateLow, ImmediateHigh, Word

(* What the decoder makes of an instruction with a handler, against its    *)
(* length.                                                                 *)
LEMMA LengthOfHandled ==
  ASSUME NEW set \in {"x64", "ia32"}, NEW i \in X86Bytes, Handled(set, i)
  PROVE  /\ DecodedLen(set, i) + MissedDisp(set, i) + Missed(set, i) = TrueLen(set, i) + Extra(i)
         /\ DecodedLen(set, i) \in Int /\ TrueLen(set, i) \in Int
<1>1. RowRight(set, i)
  <2>1. i.opcode < 64 \/ i.opcode \in 64..143 \/ i.opcode \in 144..255
    BY Fields
  <2> QED BY <2>1, LowRows, MiddleRows, HighRows
<1>2. /\ _DecodeModRM(set, i) + (IF NoBase(i) THEN 4 ELSE 0) = ModRMLen(set, i)
      /\ ModRMLen(set, i) \in Int /\ _DecodeModRM(set, i) \in Int
  BY ModRMLength
<1>3. ImmediateLen(set, i) \in Nat /\ PrefixLen(i) \in Nat
  BY LengthsNatural
<1>4. Missed(set, i) \in Int /\ Extra(i) \in Int
  BY DEF Missed, Extra, Word
<1> QED
  BY <1>1, <1>2, <1>3, <1>4 DEF RowRight, DecodedLen, TrueLen, _DecodeOpEn, MissedDisp

(* It comes to that length only if nothing is missed and nothing counted   *)
(* too much, or if the two cancel.                                         *)
LEMMA HandledAsManual ==
  ASSUME NEW set \in {"x64", "ia32"}, NEW i \in X86Bytes, Handled(set, i)
  PROVE  DecodedLen(set, i) = TrueLen(set, i) <=> ~Misread(set, i) \/ RightByChance(set, i)
<1>1. DecodedLen(set, i) = TrueLen(set, i)
        <=> MissedDisp(set, i) + Missed(set, i) = Extra(i)
  <2>1. Missed(set, i) \in Int /\ Extra(i) \in Int /\ MissedDisp(set, i) \in Int
    BY DEF Missed, Extra, MissedDisp, Word
  <2> QED BY <2>1, LengthOfHandled
<1>2. i.pre # TwoByte /\ i.opcode \notin Missing \cup {130, 154}
  BY DEF Handled
<1>3. i.reg \in 0..7 /\ i.opcode \in 0..255
  BY Fields
<1>4. i.opcode \in {193, 246, 247} => HasModRM(set, i)
  BY <1>2 DEF HasModRM
<1>5. i.opcode \in 184..191 \cup {232, 233} => ~HasModRM(set, i)
  BY <1>2, <1>3 DEF HasModRM, Arith
<1> QED
  BY <1>1, <1>2, <1>3, <1>4, <1>5 DEF Misread, RightByChance, MissedDisp, Missed, Extra, Word

(* An opcode without a handler counts for nothing, and a far call only for *)
(* its opcode.                                                             *)
LEMMA UnhandledTooShort ==
  ASSUME NEW set \in {"x64", "ia32"}, NEW i \in X86Bytes, Valid(set, i), i.pre # TwoByte,
         i.opcode \in Missing \cup {130, 154}
  PROVE  /\ DecodedLen(set, i) \in Int /\ TrueLen(set, i) \in Int
         /\ DecodedLen(set, i) < TrueLen(set, i)
<1>1. ImmediateLen(set, i) \in Nat /\ PrefixLen(i) \in Nat
  BY LengthsNatural
<1>2. ModRMLen(set, i) \in 1..6
  BY ModRMLength
<1>3. CASE i.opcode # 154
  <2>1. Table(set, i.opcode)[1] = "none"
    BY <1>3 DEF Table, TableMiddle, TableHigh, Missing
  <2>2. DecodedLen(set, i) = PrefixLen(i)
    BY <1>1, <2>1 DEF DecodedLen
  <2>3. TrueLen(set, i) \in Int /\ TrueLen(set, i) > PrefixLen(i)
    BY <1>1, <1>2 DEF TrueLen
  <2> QED BY <1>1, <2>2, <2>3
<1>4. CASE i.opcode = 154
  <2>1. set = "ia32"
    BY <1>4 DEF Valid, NoInstruction
  <2>2. Table(set, i.opcode) = <<"op", 0>>
    BY <1>4, <2>1 DEF Table, TableHigh, Missing
  <2>3. ImmediateLen(set, i) = Word(i) + 2
    BY <1>4 DEF ImmediateLen, ImmediateHigh, Arith
  <2>4. DecodedLen(set, i) = PrefixLen(i) + 1
    BY <1>1, <2>2 DEF DecodedLen, _DecodeOpEn, _DecodeImmedite
  <2>5. TrueLen(set, i) \in Int /\ TrueLen(set, i) > PrefixLen(i) + 1
    BY <1>1, <1>2, <2>3 DEF TrueLen, Word
  <2> QED BY <1>1, <2>4, <2>5
<1> QED BY <1>3, <1>4

(* The second byte of a two-byte opcode is read as an opcode.              *)
LEMMA TwoBytesAsManual ==
  ASSUME NEW set \in {"x64", "ia32"}, NEW i \in X86Bytes, Valid(set, i), i.pre = TwoByte
  PROVE  DecodedLen(set, i) = TrueLen(set, i) <=> RightByChance(set, i)
<1>1. i.opcode \in {5, 31, 162, 175, 182, 186} \cup 128..143
  BY DEF Valid
<1>2. i.mod \in 0..3 /\ i.rm \in 0..7 /\ i.base \in 0..7
  BY Fields
<1>3. PrefixLen(i) = 1 /\ ~Size66(i)
  BY OneByteNo66
<1>4. HasModRM(set, i) <=> i.opcode \in {31, 175, 182, 186}
  BY DEF HasModRM
<1>5. ImmediateLen(set, i) = ImmediateOf0F(i.opcode)
  BY DEF ImmediateLen
<1>6. RightByChance(set, i) <=>
        \/ i.opcode = 182 /\ ModRMLen(set, i) = 1
        \/ i.opcode \in {128, 131, 186} /\ i.mod = 1 /\ i.rm = 4
  BY <1>1 DEF RightByChance
<1>7. TrueLen(set, i) = 2 + (IF HasModRM(set, i) THEN ModRMLen(set, i) ELSE 0) + ImmediateOf0F(i.opcode)
  BY <1>3, <1>5 DEF TrueLen
<1> DEFINE row == Table(set, i.opcode)
<1>8. row = CASE i.opcode = 5 -> <<"op", 1632>>
              [] i.opcode = 31 -> IF set = "x64" THEN <<"none", 0>> ELSE <<"op", 0>>
              [] i.opcode = 162 -> <<"none", 0>>
              [] i.opcode = 175 -> <<"op", 0>>
              [] i.opcode \in {182} -> <<"op", 1>>
              [] i.opcode = 186 -> <<"op", 1632>>
              [] i.opcode \in {128, 131} -> <<"modrm", 1>>
              [] i.opcode = 129 -> <<"modrm", 1632>>
              [] i.opcode = 130 -> <<"none", 0>>
              [] i.opcode \in 132..143 -> <<"modrm", 0>>
  BY <1>1 DEF Table, TableLow, TableMiddle, TableHigh, PrefixLow, InvalidLow, ModRMLow, ImmLow, Missing, Arith
<1>9. DecodedLen(set, i) =
        1 + (IF row[1] = "none" THEN 0
             ELSE 1 + ((IF row[1] = "modrm" THEN _DecodeModRM(set, i) ELSE 0)
                         + (IF row[2] = 1632 THEN 4 ELSE row[2])))
  BY <1>3 DEF DecodedLen, _DecodeOpEn, _DecodeImmedite
<1> QED
  BY <1>1, <1>2, <1>4, <1>6, <1>7, <1>8, <1>9 DEF ModRMLen, _DecodeModRM, ImmediateOf0F

(* The length of one instruction.                                          *)
LEMMA LengthOfOne ==
  ASSUME NEW set \in {"x64", "ia32"}, NEW i \in X86Bytes, Valid(set, i)
  PROVE  DecodedLen(set, i) = TrueLen(set, i) <=> ~Misread(set, i) \/ RightByChance(set, i)
<1>1. CASE Handled(set, i)
  BY <1>1, HandledAsManual
<1>2. CASE i.pre = TwoByte
  BY <1>2, TwoBytesAsManual DEF Misread
<1>3. CASE i.pre # TwoByte /\ i.opcode \in Missing \cup {130, 154}
  <2>1. Misread(set, i) /\ ~RightByChance(set, i)
    BY <1>3 DEF Misread, RightByChance, Missing
  <2>2. DecodedLen(set, i) \in Int /\ TrueLen(set, i) \in Int /\ DecodedLen(set, i) < TrueLen(set, i)
    BY <1>3, UnhandledTooShort
  <2> QED BY <2>1, <2>2
<1> QED BY <1>1, <1>2, <1>3 DEF Handled

(* A relocation keeps the code it relocates, and each of its instructions  *)
(* is one of the processor's.                                              *)
CaseGiven == case \in Cases

(* OpcodeDecodeTable gives every instruction of ia32 and x64, in whatever  *)
(* prologue GenRelocateCodeFixed meets it, the length the manual gives it, *)
(* but for those Misread lists, and those it gets wrong except by chance.  *)
THEOREM LengthsRight == Spec => []LengthAsManual
<1>1. Init => CaseGiven
  BY DEF Init, CaseGiven
<1>2. CaseGiven /\ [Next]_vars => CaseGiven'
  BY DEF CaseGiven, Next, vars, Abort, gen_arm_relocate_code, gen_thumb_relocate_code,
     GenRelocateCode_arm64, GenRelocateCodeFixed, GenRelocateCode, RunOriginal, RunRewritten
<1>3. CaseGiven => LengthAsManual
  BY CasesAssumption, LengthOfOne DEF CaseGiven, LengthAsManual
<1> QED
  BY <1>1, <1>2, <1>3, PTL DEF Spec
=============================================================================
