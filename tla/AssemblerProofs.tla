-------------------------- MODULE AssemblerProofs --------------------------
(***************************************************************************)
(* Proofs about Assembler, for any labels and any number of instructions:  *)
(* the code buffer holds what is emitted, labels do not overlap, and every *)
(* reference finds its label except the ones each assembler misplaces.     *)
(***************************************************************************)
EXTENDS Assembler, SequenceTheorems, TLAPS

Archs == {"arm", "thumb", "arm64", "x64", "ia32"}
InData(l) == \E i \in 1..Len(data) : data[i] = l

(* The types.                                                              *)
Typed ==
  /\ arch \in Archs /\ size \in Nat /\ cap \in Nat /\ closed \in BOOLEAN
  /\ bound \in [Label -> Int] /\ data \in Seq(Label)
  /\ refs \in [Label -> SUBSET (Nat \X Int \X BOOLEAN)]

(* A label that is bound has its data behind it, in the code emitted.      *)
Apart ==
  /\ \A l \in Label : bound[l] # Unbound => bound[l] \in Nat /\ bound[l] + DataSize <= size
  /\ \A l, m \in Label : l # m /\ bound[l] # Unbound /\ bound[m] # Unbound =>
       bound[l] + DataSize <= bound[m] \/ bound[m] + DataSize <= bound[l]

Aligned(n) == n % 4 = 0

(* On arm64 everything lies on a word.                                     *)
Words ==
  arch = "arm64" =>
    /\ Aligned(size)
    /\ \A l \in Label : /\ bound[l] # Unbound => Aligned(bound[l])
                        /\ \A r \in refs[l] : Aligned(r[1])

(* The displacement of a reference made when its label was bound.          *)
Late(p, r) == IF arch = "arm64" THEN 4 * (p - r) ELSE p - r

(* A reference to a label that RelocBind has still to bind was made before *)
(* it; a reference to another bound label holds the distance the assembler *)
(* computed, at once or when the label was bound.                          *)
Pending(l) == InData(l) /\ ~closed
Referred ==
  \A l \in Label :
    /\ Pending(l) /\ ~X(arch) => bound[l] = Unbound
    /\ Pending(l) \/ bound[l] = Unbound \/ X(arch) => \A r \in refs[l] : ~r[3]
    /\ X(arch) /\ ~InData(l) => refs[l] = {}
    /\ ~Pending(l) /\ bound[l] # Unbound =>
         \A r \in refs[l] : r[2] = IF r[3] THEN Late(bound[l], r[1]) ELSE Fixed(bound[l], r[1])

(* The buffer grows to at least what is needed.                            *)
LEMMA GrownHolds ==
  ASSUME NEW need \in Nat, cap \in Nat
  PROVE  Grown(need) \in Nat /\ need <= Grown(need)
  <1> DEFINE k == (need + 64) \div 64
  <1>1. k \in Nat /\ need <= k * 64
    OBVIOUS
  <1> HIDE DEF k
  <1>2. Grown(need) = IF need <= cap THEN cap ELSE k * 64
    BY DEF Grown, k
  <1> QED BY <1>1, <1>2

(* The lengths of data and instructions.                                   *)
LEMMA SizesAre ==
  ASSUME arch \in Archs
  PROVE  DataSize \in {4, 8} /\ PopToEnd \in {7, 9} /\ (arch = "arm64" => DataSize = 8)
         /\ Length(arch) \in SUBSET {1, 2, 4, 7} /\ (arch = "arm64" => Length(arch) = {4})
  BY DEF DataSize, PopToEnd, CallFunctionX64, CallFunctionIa32, WordData, LongData, Length, X, Archs

(* The distances are numbers.                                              *)
LEMMA FixedIs ==
  ASSUME arch \in Archs, NEW p \in Int, NEW r \in Nat
  PROVE  Fixed(p, r) \in Int /\ Late(p, r) \in Int
  <1>1. r % 4 \in 0..3
    OBVIOUS
  <1>2. (p - r) \div 4 \in Int
    OBVIOUS
  <1>3. /\ FixedArm(p, r) \in Int /\ FixedThumb(p, r) \in Int /\ FixedArm64(p, r) \in Int
        /\ FixedX64(p, r) \in Int /\ FixedIa32(p, r) \in Int
    BY <1>1, <1>2 DEF FixedArm, FixedThumb, FixedArm64, FixedX64, FixedIa32
  <1>4. Fixed(p, r) \in Int
    BY <1>3 DEF Fixed, Archs
  <1>5. Late(p, r) \in Int
    BY DEF Late
  <1> QED BY <1>4, <1>5

Inv == Typed /\ size <= cap /\ Apart /\ Words /\ Referred

(* A new session satisfies the invariant.                                  *)
LEMMA AssemblerInit == Init => Inv
  <1> SUFFICES ASSUME Init PROVE Inv
    OBVIOUS
  <1>1. arch \in Archs
    BY AssemblerAssumption DEF Init, Archs
  <1>2. Typed
    <2>1. size \in Nat /\ cap \in Nat
      BY DEF Init, Capacity
    <2>4. closed \in BOOLEAN
      BY Zenon DEF Init
    <2>5. data \in Seq(Label)
      BY DEF Init
    <2>2. bound \in [Label -> Int]
      BY DEF Init, Unbound
    <2>3. refs \in [Label -> SUBSET (Nat \X Int \X BOOLEAN)]
      BY Zenon DEF Init
    <2> QED BY <1>1, <2>1, <2>2, <2>3, <2>4, <2>5, Zenon DEF Typed
  <1>3. size <= cap
    BY DEF Init, Capacity
  <1>4. Apart
    BY DEF Init, Apart
  <1>5. Words
    BY DEF Init, Words, Aligned
  <1>6. Referred
    BY DEF Init, Referred, Pending, InData
  <1> QED BY <1>2, <1>3, <1>4, <1>5, <1>6 DEF Inv

(* What a write of n bytes does to the cursor and the capacity.            *)
LEMMA WriteGrows ==
  ASSUME Inv, NEW n \in Nat, Write(n)
  PROVE  size' = size + n /\ size' \in Nat /\ cap' \in Nat /\ size' <= cap'
  <1>1. size \in Nat /\ cap \in Nat /\ size + n \in Nat
    BY DEF Inv, Typed
  <1> QED BY <1>1, GrownHolds DEF Write

(* The sizes and formulas depend on the assembler alone.                   *)
LEMMA ArchKept ==
  ASSUME arch' = arch
  PROVE  /\ DataSize' = DataSize
         /\ \A p, r : Fixed(p, r)' = Fixed(p, r) /\ Late(p, r)' = Late(p, r)
  BY DEF DataSize, Fixed, Late

(* Labels stay apart while more is emitted behind them.                    *)
LEMMA ApartKept ==
  ASSUME Inv, arch' = arch, bound' = bound, size' \in Nat, size <= size'
  PROVE  Apart'
  <1>1. DataSize' = DataSize /\ DataSize \in Nat
    BY ArchKept, SizesAre DEF Inv, Typed
  <1> QED BY <1>1 DEF Inv, Typed, Apart

(* An instruction without a reference.                                     *)
LEMMA EmitInv ==
  ASSUME Inv, NEW n \in Nat, Write(n), arch = "arm64" => n = 4,
         UNCHANGED <<arch, bound, refs, data, closed>>
  PROVE  Inv'
  <1>1. size' = size + n /\ size' \in Nat /\ cap' \in Nat /\ size' <= cap' /\ size \in Nat
    BY WriteGrows DEF Inv, Typed
  <1>2. Typed'
    BY <1>1 DEF Inv, Typed
  <1>3. Apart'
    BY <1>1, ApartKept
  <1>4. Words'
    <2>1. arch = "arm64" => (Aligned(size) => Aligned(size'))
      BY <1>1 DEF Aligned
    <2> QED BY <2>1 DEF Inv, Words
  <1>5. \A p, r : Fixed(p, r)' = Fixed(p, r) /\ Late(p, r)' = Late(p, r)
    BY ArchKept
  <1>6. Referred'
    BY <1>5 DEF Inv, Referred, Pending, InData
  <1> QED BY <1>1, <1>2, <1>3, <1>4, <1>6 DEF Inv

(* The reference that Ldr adds.                                            *)
NewRef(l) == <<size, IF bound[l] = Unbound THEN 0 ELSE Late(bound[l], size), bound[l] # Unbound>>

(* Its parts.                                                              *)
LEMMA NewRefIs ==
  ASSUME Inv, NEW l \in Label
  PROVE  /\ NewRef(l) \in Nat \X Int \X BOOLEAN
         /\ NewRef(l)[1] = size /\ (NewRef(l)[3] <=> bound[l] # Unbound)
         /\ bound[l] # Unbound => NewRef(l)[2] = Late(bound[l], size)
  <1> DEFINE d == IF bound[l] = Unbound THEN 0 ELSE Late(bound[l], size)
             b == bound[l] # Unbound
  <1>1. size \in Nat /\ d \in Int /\ b \in BOOLEAN
    BY FixedIs DEF Inv, Typed
  <1>2. bound[l] # Unbound => d = Late(bound[l], size)
    OBVIOUS
  <1>3. NewRef(l) = <<size, d, b>>
    BY Zenon DEF NewRef
  <1>4. b <=> bound[l] # Unbound
    OBVIOUS
  <1> HIDE DEF d, b
  <1>5. <<size, d, b>> \in Nat \X Int \X BOOLEAN
    BY <1>1
  <1>6. <<size, d, b>>[1] = size /\ <<size, d, b>>[2] = d /\ <<size, d, b>>[3] = b
    BY Zenon
  <1> QED BY <1>2, <1>3, <1>4, <1>5, <1>6

(* What a load through a label does.                                       *)
LEMMA LdrIs ==
  ASSUME Inv, Ldr
  PROVE  /\ ~X(arch) /\ ~closed /\ Write(4) /\ UNCHANGED <<arch, asked, bound, closed>>
         /\ \E l \in Label, reloc \in BOOLEAN :
              /\ refs' = [refs EXCEPT ![l] = @ \cup {NewRef(l)}]
              /\ data' = IF reloc /\ New(l) THEN AppendRelocLabelEntry(l) ELSE data
  <1>1. ~X(arch) /\ ~closed /\ Write(4) /\ UNCHANGED <<arch, asked, bound, closed>>
    BY DEF Ldr
  <1>2. arch \in {"arm", "thumb", "arm64"}
    BY <1>1 DEF Inv, Typed, Archs, X
  <1>3. ASSUME NEW l \in Label
        PROVE  <<size, CASE arch = "arm" -> LdrArm(l)
                         [] arch = "thumb" -> T2_Ldr(l)
                         [] arch = "arm64" -> LdrArm64(l), bound[l] # Unbound>> = NewRef(l)
    BY <1>2 DEF NewRef, LdrArm, T2_Ldr, LdrArm64, Late
  <1> QED BY <1>1, <1>3 DEF Ldr

(* A load through a label keeps the invariant: a label of data_labels_ is  *)
(* still unbound, so the reference is not late.                            *)
LEMMA LdrInv ==
  ASSUME Inv, Ldr
  PROVE  Inv'
  <1>1. PICK l \in Label, reloc \in BOOLEAN :
          /\ refs' = [refs EXCEPT ![l] = @ \cup {NewRef(l)}]
          /\ data' = IF reloc /\ New(l) THEN AppendRelocLabelEntry(l) ELSE data
    BY LdrIs
  <1>2. ~X(arch) /\ ~closed /\ Write(4) /\ UNCHANGED <<arch, bound, closed>>
    BY LdrIs
  <1>3. size' = size + 4 /\ size' \in Nat /\ cap' \in Nat /\ size' <= cap' /\ size \in Nat
    BY <1>2, WriteGrows DEF Inv, Typed
  <1>4. PICK r0 \in Nat \X Int \X BOOLEAN : r0 = NewRef(l)
    BY NewRefIs
  <1>5. r0[1] = size /\ (r0[3] <=> bound[l] # Unbound)
        /\ (bound[l] # Unbound => r0[2] = Late(bound[l], size))
    BY <1>4, NewRefIs
  <1>6. \A m \in Label : refs'[m] = IF m = l THEN refs[l] \cup {r0} ELSE refs[m]
    BY <1>1, <1>4 DEF Inv, Typed
  <1>7. refs' \in [Label -> SUBSET (Nat \X Int \X BOOLEAN)]
    BY <1>1, <1>4 DEF Inv, Typed
  <1>8. /\ data' \in Seq(Label)
        /\ \A m \in Label : InData(m)' => InData(m) \/ (m = l /\ bound[l] = Unbound)
        /\ \A m \in Label : InData(m) => InData(m)'
    BY <1>1 DEF Inv, Typed, InData, AppendRelocLabelEntry, New
  <1>9. Typed'
    BY <1>2, <1>3, <1>7, <1>8 DEF Inv, Typed
  <1>10. Apart'
    BY <1>2, <1>3, ApartKept
  <1>11. Words'
    <2>1. Aligned(size) => Aligned(size')
      BY <1>3 DEF Aligned
    <2> QED BY <1>2, <1>5, <1>6, <2>1 DEF Inv, Words
  <1>12. \A p, r : Fixed(p, r)' = Fixed(p, r) /\ Late(p, r)' = Late(p, r)
    BY <1>2, ArchKept
  <1>13. Referred'
    <2> SUFFICES ASSUME NEW m \in Label
                 PROVE  /\ InData(m)' => bound[m] = Unbound
                        /\ InData(m)' \/ bound[m] = Unbound => \A r \in refs'[m] : ~r[3]
                        /\ ~InData(m)' /\ bound[m] # Unbound =>
                             \A r \in refs'[m] :
                               r[2] = IF r[3] THEN Late(bound[m], r[1]) ELSE Fixed(bound[m], r[1])
      BY <1>2, <1>12 DEF Referred, Pending
    <2>1. /\ InData(m) => bound[m] = Unbound
          /\ bound[m] = Unbound => \A r \in refs[m] : ~r[3]
          /\ ~InData(m) /\ bound[m] # Unbound =>
               \A r \in refs[m] : r[2] = IF r[3] THEN Late(bound[m], r[1]) ELSE Fixed(bound[m], r[1])
      BY <1>2 DEF Inv, Referred, Pending
    <2> QED BY <1>5, <1>6, <1>8, <2>1
  <1> QED BY <1>3, <1>9, <1>10, <1>11, <1>13 DEF Inv

(* A call through a label: the label is one that RelocBind will bind.      *)
LEMMA CallInv ==
  ASSUME Inv, CallFunction
  PROVE  Inv'
  <1>1. PICK l \in Label :
          /\ refs[l] = {} /\ refs' = [refs EXCEPT ![l] = {<<size + 6 + PopToEnd, 0, FALSE>>}]
          /\ data' = Append(data, l)
    BY DEF CallFunction, AppendRelocLabelEntry
  <1>2. X(arch) /\ ~closed /\ Write(7 + PopToEnd) /\ UNCHANGED <<arch, bound, closed>>
    BY DEF CallFunction
  <1>3. PopToEnd \in Nat /\ arch # "arm64"
    BY <1>2, SizesAre DEF Inv, Typed, X
  <1>4. 7 + PopToEnd \in Nat
    BY <1>3
  <1>5. size' = size + (7 + PopToEnd) /\ size' \in Nat /\ cap' \in Nat /\ size' <= cap' /\ size \in Nat
    BY <1>2, <1>4, WriteGrows DEF Inv, Typed
  <1>6. PICK r0 \in Nat \X Int \X BOOLEAN : r0 = <<size + 6 + PopToEnd, 0, FALSE>> /\ ~r0[3]
    <2> DEFINE n == size + 6 + PopToEnd
    <2>1. n \in Nat
      BY <1>3, <1>5
    <2> HIDE DEF n
    <2>2. 0 \in Int
      OBVIOUS
    <2>3. <<n, 0, FALSE>> \in Nat \X Int \X BOOLEAN
      BY <2>1, <2>2, Zenon
    <2>4. ~(<<n, 0, FALSE>>[3])
      BY Zenon
    <2> QED BY <2>3, <2>4, Zenon DEF n
  <1>7. \A m \in Label : refs'[m] = IF m = l THEN {r0} ELSE refs[m]
    BY <1>1, <1>6 DEF Inv, Typed
  <1>8. refs' \in [Label -> SUBSET (Nat \X Int \X BOOLEAN)]
    BY <1>1, <1>6 DEF Inv, Typed
  <1>9. data' \in Seq(Label) /\ \A m \in Label : InData(m)' <=> InData(m) \/ m = l
    <2>1. /\ data' \in Seq(Label) /\ Len(data) \in Nat /\ Len(data') = Len(data) + 1
          /\ \A i \in 1..Len(data) : data'[i] = data[i]
          /\ data'[Len(data) + 1] = l
      BY <1>1 DEF Inv, Typed
    <2>2. ASSUME NEW m \in Label, InData(m) \/ m = l PROVE InData(m)'
      <3>1. \A i \in 1..Len(data) : i \in 1..Len(data')
        BY <2>1
      <3>2. Len(data) + 1 \in 1..Len(data')
        BY <2>1
      <3> QED BY <2>1, <2>2, <3>1, <3>2 DEF InData
    <2>3. ASSUME NEW m \in Label, InData(m)' PROVE InData(m) \/ m = l
      <3>1. \A i \in 1..Len(data') : i \in 1..Len(data) \/ i = Len(data) + 1
        BY <2>1
      <3> QED BY <2>1, <2>3, <3>1 DEF InData
    <2> QED BY <2>1, <2>2, <2>3
  <1>10. Typed'
    BY <1>2, <1>5, <1>8, <1>9 DEF Inv, Typed
  <1>11. Apart'
    BY <1>2, <1>3, <1>5, ApartKept
  <1>12. Words'
    BY <1>2, <1>3 DEF Words
  <1>13. \A p, r : Fixed(p, r)' = Fixed(p, r) /\ Late(p, r)' = Late(p, r)
    BY <1>2, ArchKept
  <1>14. Referred'
    <2> SUFFICES ASSUME NEW m \in Label
                 PROVE  /\ \A r \in refs'[m] : ~r[3]
                        /\ ~InData(m)' => refs'[m] = {}
      BY <1>2, <1>13 DEF Referred, Pending
    <2>1. (\A r \in refs[m] : ~r[3]) /\ (~InData(m) => refs[m] = {})
      BY <1>2 DEF Inv, Referred
    <2> QED BY <1>6, <1>7, <1>9, <2>1
  <1> QED BY <1>5, <1>10, <1>11, <1>12, <1>14 DEF Inv

(* References linked when their label is bound: none was made late.        *)
LEMMA LinkedIs ==
  ASSUME Inv, NEW l \in Label, \A r \in refs[l] : ~r[3], NEW p \in Nat
  PROVE  /\ Linked(l, p) \in SUBSET (Nat \X Int \X BOOLEAN)
         /\ \A q \in Linked(l, p) : /\ ~q[3] /\ q[2] = Fixed(p, q[1])
                                    /\ \E r \in refs[l] : q[1] = r[1]
  <1>1. \A r \in refs[l] : r \in Nat \X Int \X BOOLEAN
    BY DEF Inv, Typed
  <1>2. Linked(l, p) = {<<r[1], Fixed(p, r[1]), FALSE>> : r \in refs[l]}
    BY DEF Linked
  <1>3. ASSUME NEW q \in Linked(l, p)
        PROVE  /\ q \in Nat \X Int \X BOOLEAN /\ ~q[3] /\ q[2] = Fixed(p, q[1])
               /\ \E r \in refs[l] : q[1] = r[1]
    <2>1. PICK r \in refs[l] : q = <<r[1], Fixed(p, r[1]), FALSE>>
      BY <1>2
    <2>2. r[1] \in Nat
      BY <1>1
    <2>3. Fixed(p, r[1]) \in Int
      <3>1. p \in Int /\ arch \in Archs
        BY DEF Inv, Typed
      <3> QED BY <2>2, <3>1, FixedIs
    <2>4. q[1] = r[1] /\ q[2] = Fixed(p, r[1]) /\ q[3] = FALSE
      BY <2>1, Zenon
    <2>5. q \in Nat \X Int \X BOOLEAN
      BY <2>1, <2>2, <2>3
    <2> QED BY <2>4, <2>5
  <1> QED BY <1>3

(* A label bound where its data is emitted.                                *)
LEMMA BindInv ==
  ASSUME Inv, PseudoBind
  PROVE  Inv'
  <1>1. PICK l \in Label :
          /\ bound[l] = Unbound /\ \A i \in 1..Len(data) : data[i] # l
          /\ bound' = [bound EXCEPT ![l] = size]
          /\ refs' = [refs EXCEPT ![l] = Linked(l, size)]
    BY DEF PseudoBind, New
  <1>2. ~closed /\ Write(DataSize) /\ UNCHANGED <<arch, data, closed>>
    BY DEF PseudoBind
  <1>3. DataSize \in {4, 8} /\ (arch = "arm64" => DataSize = 8)
    BY SizesAre DEF Inv, Typed
  <1>4. size' = size + DataSize /\ size' \in Nat /\ cap' \in Nat /\ size' <= cap' /\ size \in Nat
    BY <1>2, <1>3, WriteGrows DEF Inv, Typed
  <1>5. DataSize' = DataSize /\ \A p, r : Fixed(p, r)' = Fixed(p, r) /\ Late(p, r)' = Late(p, r)
    BY <1>2, ArchKept
  <1>6. ~InData(l) /\ \A r \in refs[l] : ~r[3]
    BY <1>1 DEF Inv, Referred, InData
  <1>7. PICK L \in SUBSET (Nat \X Int \X BOOLEAN) : L = Linked(l, size)
    BY <1>4, <1>6, LinkedIs
  <1>8. \A q \in L : ~q[3] /\ q[2] = Fixed(size, q[1]) /\ \E r \in refs[l] : q[1] = r[1]
    BY <1>4, <1>6, <1>7, LinkedIs
  <1>9. /\ bound' \in [Label -> Int] /\ refs' \in [Label -> SUBSET (Nat \X Int \X BOOLEAN)]
        /\ \A m \in Label : /\ bound'[m] = IF m = l THEN size ELSE bound[m]
                            /\ refs'[m] = IF m = l THEN L ELSE refs[m]
    BY <1>1, <1>4, <1>7 DEF Inv, Typed
  <1>10. Typed'
    BY <1>2, <1>4, <1>9 DEF Inv, Typed
  <1>11. Apart'
    <2>1. PICK d \in {4, 8} : d = DataSize /\ d = DataSize'
      BY <1>3, <1>5
    <2>2. /\ \A m \in Label : bound[m] # Unbound => bound[m] \in Nat /\ bound[m] + d <= size
          /\ \A k, m \in Label : k # m /\ bound[k] # Unbound /\ bound[m] # Unbound =>
               bound[k] + d <= bound[m] \/ bound[m] + d <= bound[k]
      BY <2>1 DEF Inv, Apart
    <2>3. size' = size + d
      BY <1>4, <2>1
    <2>4. \A m \in Label : bound'[m] # Unbound => bound'[m] \in Nat /\ bound'[m] + d <= size'
      BY <1>4, <1>9, <2>2, <2>3
    <2>5. \A k, m \in Label : k # m /\ bound'[k] # Unbound /\ bound'[m] # Unbound =>
               bound'[k] + d <= bound'[m] \/ bound'[m] + d <= bound'[k]
      BY <1>9, <2>2
    <2> QED BY <2>1, <2>4, <2>5 DEF Apart
  <1>12. Words'
    <2> SUFFICES ASSUME arch = "arm64"
                 PROVE  /\ Aligned(size')
                        /\ \A m \in Label : /\ bound'[m] # Unbound => Aligned(bound'[m])
                                            /\ \A r \in refs'[m] : Aligned(r[1])
      BY <1>2 DEF Words
    <2>1. Aligned(size) /\ \A m \in Label : /\ bound[m] # Unbound => Aligned(bound[m])
                                            /\ \A r \in refs[m] : Aligned(r[1])
      BY DEF Inv, Words
    <2>2. Aligned(size')
      BY <1>3, <1>4, <2>1 DEF Aligned
    <2>3. ASSUME NEW q \in L PROVE Aligned(q[1])
      <3>1. PICK r \in refs[l] : q[1] = r[1]
        BY <1>8
      <3>2. Aligned(r[1])
        BY <2>1
      <3> QED BY <3>1, <3>2, Zenon
    <2>4. ASSUME NEW m \in Label
          PROVE  /\ bound'[m] # Unbound => Aligned(bound'[m])
                 /\ \A r \in refs'[m] : Aligned(r[1])
      <3>1. CASE m = l
        BY <1>9, <2>1, <2>3, <3>1, Zenon
      <3>2. CASE m # l
        BY <1>9, <2>1, <3>2, Zenon
      <3> QED BY <3>1, <3>2
    <2> QED BY <2>2, <2>4
  <1>13. Referred'
    <2> SUFFICES ASSUME NEW m \in Label
                 PROVE  /\ InData(m) /\ ~X(arch) => bound'[m] = Unbound
                        /\ InData(m) \/ bound'[m] = Unbound \/ X(arch) => \A r \in refs'[m] : ~r[3]
                        /\ X(arch) /\ ~InData(m) => refs'[m] = {}
                        /\ ~InData(m) /\ bound'[m] # Unbound =>
                             \A r \in refs'[m] :
                               r[2] = IF r[3] THEN Late(bound'[m], r[1]) ELSE Fixed(bound'[m], r[1])
      <3>1. \A m \in Label : InData(m)' <=> InData(m)
        BY <1>2 DEF InData
      <3> QED BY <1>2, <1>5, <3>1 DEF Referred, Pending
    <2>1. CASE m # l
      BY <1>2, <1>9, <2>1 DEF Inv, Referred, Pending
    <2>2. CASE m = l
      <3>1. X(arch) => refs[l] = {}
        BY <1>6 DEF Inv, Referred
      <3>2. X(arch) => L = {}
        BY <1>8, <3>1
      <3> QED BY <1>6, <1>8, <1>9, <2>2, <3>2
    <2> QED BY <2>1, <2>2
  <1> QED BY <1>4, <1>10, <1>11, <1>12, <1>13 DEF Inv

(* Where RelocBind puts a label: in a slot of its own behind the code.     *)
LEMMA PlaceIs ==
  ASSUME Inv, NEW l \in Label, InData(l)
  PROVE  \E i \in 1..Len(data) : data[i] = l /\ Place(l) = size + (i - 1) * DataSize
  <1> DEFINE i == CHOOSE j \in 1..Len(data) : data[j] = l
  <1>1. i \in 1..Len(data) /\ data[i] = l
    BY DEF InData
  <1>2. Place(l) = size + (i - 1) * DataSize
    BY DEF Place
  <1> HIDE DEF i
  <1> QED BY <1>1, <1>2

(* Slots of one size, in multiples of 4 or 8 bytes.                        *)
LEMMA Slots ==
  ASSUME NEW d \in {4, 8}, NEW s \in Nat, NEW n \in Nat, NEW i \in 1..n, NEW j \in 1..n
  PROVE  /\ s + (i - 1) * d \in Nat /\ s <= s + (i - 1) * d
         /\ s + (i - 1) * d + d <= s + n * d
         /\ i < j => s + (i - 1) * d + d <= s + (j - 1) * d
         /\ Aligned(s) => Aligned(s + (i - 1) * d)
  <1>1. CASE d = 4
    <2>1. (s + (i - 1) * 4) % 4 = s % 4
      OBVIOUS
    <2> QED BY <1>1, <2>1 DEF Aligned
  <1>2. CASE d = 8
    <2>1. (s + (i - 1) * 8) % 4 = s % 4
      OBVIOUS
    <2> QED BY <1>2, <2>1 DEF Aligned
  <1> QED BY <1>1, <1>2

(* The places of the labels of data_labels_.                               *)
LEMMA Places ==
  ASSUME Inv
  PROVE  /\ \A l \in Label : InData(l) =>
              /\ Place(l) \in Nat /\ size <= Place(l)
              /\ Place(l) + DataSize <= size + Len(data) * DataSize
              /\ Aligned(size) => Aligned(Place(l))
         /\ \A l, m \in Label : l # m /\ InData(l) /\ InData(m) =>
              Place(l) + DataSize <= Place(m) \/ Place(m) + DataSize <= Place(l)
  <1> DEFINE d == DataSize
  <1>1. d \in {4, 8} /\ size \in Nat /\ Len(data) \in Nat
    BY SizesAre DEF Inv, Typed
  <1>2. ASSUME NEW l \in Label, InData(l)
        PROVE  \E i \in 1..Len(data) : data[i] = l /\ Place(l) = size + (i - 1) * d
    BY <1>2, PlaceIs
  <1>3. ASSUME NEW l \in Label, InData(l)
        PROVE  /\ Place(l) \in Nat /\ size <= Place(l)
               /\ Place(l) + d <= size + Len(data) * d
               /\ Aligned(size) => Aligned(Place(l))
    <2>1. PICK i \in 1..Len(data) : data[i] = l /\ Place(l) = size + (i - 1) * d
      BY <1>2, <1>3
    <2> HIDE DEF d
    <2> QED BY <1>1, <2>1, Slots
  <1>4. ASSUME NEW l \in Label, NEW m \in Label, l # m, InData(l), InData(m)
        PROVE  Place(l) + d <= Place(m) \/ Place(m) + d <= Place(l)
    <2>1. PICK i \in 1..Len(data) : data[i] = l /\ Place(l) = size + (i - 1) * d
      BY <1>2, <1>4
    <2>2. PICK j \in 1..Len(data) : data[j] = m /\ Place(m) = size + (j - 1) * d
      BY <1>2, <1>4
    <2>3. i < j \/ j < i
      BY <1>1, <1>4, <2>1, <2>2
    <2> HIDE DEF d
    <2> QED BY <1>1, <2>1, <2>2, <2>3, Slots
  <1> QED BY <1>3, <1>4

(* RelocBind binds the pending labels and appends their data.              *)
LEMMA RelocInv ==
  ASSUME Inv, RelocBind
  PROVE  Inv'
  <1>1. /\ ~closed /\ closed' = TRUE /\ UNCHANGED <<arch, data>>
        /\ size' = size + Len(data) * DataSize /\ cap' = Grown(size')
    BY DEF RelocBind
  <1>2. \A l \in Label : /\ bound'[l] = IF InData(l) THEN Place(l) ELSE bound[l]
                         /\ refs'[l] = IF InData(l) THEN Linked(l, Place(l)) ELSE refs[l]
    BY DEF RelocBind, InData
  <1>3. DataSize' = DataSize /\ \A p, r : Fixed(p, r)' = Fixed(p, r) /\ Late(p, r)' = Late(p, r)
    BY <1>1, ArchKept
  <1>4. PICK d \in {4, 8} : d = DataSize /\ d = DataSize' /\ (arch = "arm64" => d = 8)
    BY <1>3, SizesAre DEF Inv, Typed
  <1>5. size \in Nat /\ Len(data) \in Nat /\ cap \in Nat
    BY DEF Inv, Typed
  <1>6. size' \in Nat /\ size <= size'
    BY <1>1, <1>4, <1>5
  <1>7. cap' \in Nat /\ size' <= cap'
    <2> DEFINE n == size + Len(data) * DataSize
    <2>1. n \in Nat /\ size' = n /\ cap' = Grown(n)
      BY <1>1, <1>6 DEF Grown
    <2> HIDE DEF n
    <2> QED BY <1>5, <2>1, GrownHolds
  <1>8. ASSUME NEW l \in Label, InData(l) PROVE \A r \in refs[l] : ~r[3]
    BY <1>1, <1>8 DEF Inv, Referred, Pending
  <1>9. ASSUME NEW l \in Label, InData(l)
        PROVE  /\ Place(l) \in Nat /\ size <= Place(l) /\ Place(l) + d <= size'
               /\ Aligned(size) => Aligned(Place(l))
    BY <1>1, <1>4, <1>9, Places
  <1>10. ASSUME NEW l \in Label, InData(l)
         PROVE  /\ refs'[l] \in SUBSET (Nat \X Int \X BOOLEAN)
                /\ \A q \in refs'[l] : /\ ~q[3] /\ q[2] = Fixed(bound'[l], q[1])
                                       /\ \E r \in refs[l] : q[1] = r[1]
    BY <1>2, <1>8, <1>9, <1>10, LinkedIs
  <1>11. Typed'
    <2>1. bound' \in [Label -> Int]
      <3>1. \A l \in Label : bound'[l] \in Int
        BY <1>2, <1>9 DEF Inv, Typed
      <3>2. DOMAIN bound' = Label /\ bound' = [l \in Label |-> bound'[l]]
        BY DEF RelocBind
      <3> QED BY <3>1, <3>2
    <2>2. refs' \in [Label -> SUBSET (Nat \X Int \X BOOLEAN)]
      <3>1. \A l \in Label : refs'[l] \in SUBSET (Nat \X Int \X BOOLEAN)
        BY <1>2, <1>10 DEF Inv, Typed
      <3>2. refs' = [l \in Label |-> refs'[l]]
        BY DEF RelocBind
      <3> QED BY <3>1, <3>2
    <2> QED BY <1>1, <1>6, <1>7, <2>1, <2>2 DEF Inv, Typed
  <1>12. Apart'
    <2>1. /\ \A m \in Label : bound[m] # Unbound => bound[m] \in Nat /\ bound[m] + d <= size
          /\ \A k, m \in Label : k # m /\ bound[k] # Unbound /\ bound[m] # Unbound =>
               bound[k] + d <= bound[m] \/ bound[m] + d <= bound[k]
      BY <1>4 DEF Inv, Apart
    <2>2. \A k, m \in Label : k # m /\ InData(k) /\ InData(m) =>
               Place(k) + d <= Place(m) \/ Place(m) + d <= Place(k)
      BY <1>4, Places
    <2>3. ASSUME NEW m \in Label, bound'[m] # Unbound
          PROVE  bound'[m] \in Nat /\ bound'[m] + d <= size'
      BY <1>2, <1>4, <1>5, <1>6, <1>9, <2>1, <2>3
    <2>4. ASSUME NEW k \in Label, NEW m \in Label, k # m, bound'[k] # Unbound, bound'[m] # Unbound
          PROVE  bound'[k] + d <= bound'[m] \/ bound'[m] + d <= bound'[k]
      <3>1. CASE InData(k) /\ InData(m)
        BY <1>2, <2>2, <2>4, <3>1
      <3>2. CASE ~InData(k) /\ ~InData(m)
        BY <1>2, <2>1, <2>4, <3>2
      <3>3. CASE InData(k) /\ ~InData(m)
        BY <1>2, <1>4, <1>5, <1>9, <2>1, <2>4, <3>3
      <3>4. CASE ~InData(k) /\ InData(m)
        BY <1>2, <1>4, <1>5, <1>9, <2>1, <2>4, <3>4
      <3> QED BY <3>1, <3>2, <3>3, <3>4
    <2> QED BY <1>4, <2>3, <2>4 DEF Apart
  <1>13. Words'
    <2> SUFFICES ASSUME arch = "arm64"
                 PROVE  /\ Aligned(size')
                        /\ \A m \in Label : /\ bound'[m] # Unbound => Aligned(bound'[m])
                                            /\ \A r \in refs'[m] : Aligned(r[1])
      BY <1>1 DEF Words
    <2>1. Aligned(size) /\ \A m \in Label : /\ bound[m] # Unbound => Aligned(bound[m])
                                            /\ \A r \in refs[m] : Aligned(r[1])
      BY DEF Inv, Words
    <2>2. Aligned(size')
      <3>1. size' = size + Len(data) * 8
        BY <1>1, <1>4
      <3>2. (size + Len(data) * 8) % 4 = size % 4
        BY <1>5
      <3> QED BY <2>1, <3>1, <3>2 DEF Aligned
    <2> QED BY <1>2, <1>9, <1>10, <2>1, <2>2
  <1>14. Referred'
    <2>1. \A m \in Label : InData(m)' <=> InData(m)
      BY <1>1 DEF InData
    <2> SUFFICES ASSUME NEW m \in Label
                 PROVE  /\ bound'[m] = Unbound \/ X(arch) => \A r \in refs'[m] : ~r[3]
                        /\ X(arch) /\ ~InData(m) => refs'[m] = {}
                        /\ bound'[m] # Unbound =>
                             \A r \in refs'[m] :
                               r[2] = IF r[3] THEN Late(bound'[m], r[1]) ELSE Fixed(bound'[m], r[1])
      BY <1>1, <1>3, <2>1 DEF Referred, Pending
    <2>2. CASE InData(m)
      BY <1>10, <2>2
    <2>3. CASE ~InData(m)
      BY <1>2, <2>3 DEF Inv, Referred, Pending
    <2> QED BY <2>2, <2>3
  <1> QED BY <1>7, <1>11, <1>12, <1>13, <1>14 DEF Inv

(* Every method keeps the invariant.                                       *)
LEMMA AssemblerStep ==
  ASSUME Inv, [Next]_vars
  PROVE  Inv'
  <1>1. CASE EmitRequest
    <2>1. Write(4) /\ UNCHANGED <<arch, bound, refs, data, closed>>
      BY <1>1 DEF EmitRequest
    <2> QED BY <2>1, EmitInv
  <1>2. CASE EmitFiller
    <2>1. PICK n \in Length(arch) : Write(n)
      BY <1>2 DEF EmitFiller
    <2>2. UNCHANGED <<arch, bound, refs, data, closed>>
      BY <1>2 DEF EmitFiller
    <2>3. n \in Nat /\ (arch = "arm64" => n = 4)
      BY <2>1, SizesAre DEF Inv, Typed
    <2> QED BY <2>1, <2>2, <2>3, EmitInv
  <1>3. CASE UNCHANGED vars
    <2>1. UNCHANGED <<arch, bound, refs, data, closed, size, cap>>
      BY <1>3 DEF vars
    <2> QED BY <2>1 DEF Inv, Typed, Apart, Words, Referred, Pending, InData, DataSize, Fixed, Late
  <1> QED BY <1>1, <1>2, <1>3, LdrInv, CallInv, BindInv, RelocInv DEF Next

(* The invariant of a session.                                             *)
THEOREM SessionSound == Spec => []Inv
  <1>1. Inv /\ [Next]_vars => Inv'
    BY AssemblerStep
  <1> QED BY <1>1, AssemblerInit, PTL DEF Spec

(* Nothing is written beyond the code buffer, nor are two labels bound to  *)
(* the same place, however long the session.                               *)
THEOREM BufferAlwaysHolds == Spec => []BufferHolds
  <1>1. Inv => BufferHolds
    BY DEF Inv, Apart, BufferHolds
  <1> QED BY <1>1, SessionSound, PTL

(* Every reference to a bound label finds the label's data, except the     *)
(* ones each assembler misplaces, which never do.                          *)
THEOREM AllReferencesFound == Spec => []ReferencesFound
  <1>1. Inv => ReferencesFound
    <2> SUFFICES ASSUME Inv, closed, NEW l \in Label, bound[l] # Unbound, NEW r \in refs[l]
                 PROVE  (Effective(r) = bound[l] /\ ~(arch = "arm" /\ r[2] < 0)) <=> ~Misplaced(l, r)
      BY DEF ReferencesFound
    <2>1. r \in Nat \X Int \X BOOLEAN /\ bound[l] \in Nat /\ arch \in Archs
      BY DEF Inv, Typed, Apart
    <2>2. PICK a \in Nat, b \in Int, p \in Nat : a = r[1] /\ b = r[2] /\ p = bound[l]
      BY <2>1
    <2>3. b = IF r[3] THEN Late(p, a) ELSE Fixed(p, a)
      BY <2>2 DEF Inv, Referred, Pending
    <2>4. X(arch) => ~r[3]
      BY DEF Inv, Referred
    <2>5. CASE arch = "arm"
      BY <2>2, <2>3, <2>5 DEF Effective, Misplaced, Late, Fixed, FixedArm
    <2>6. CASE arch = "thumb"
      <3>1. a % 4 \in 0..3
        OBVIOUS
      <3>2. b = IF r[3] THEN p - a ELSE p - (a - (a % 4)) - 4
        BY <2>3, <2>6 DEF Late, Fixed, FixedThumb
      <3>3. Effective(r) = a - (a % 4) + 4 + b
        BY <2>2, <2>6 DEF Effective
      <3>4. Misplaced(l, r) <=> r[3]
        BY <2>6 DEF Misplaced
      <3>5. r[3] => Effective(r) # p
        BY <3>1, <3>2, <3>3
      <3>6. ~r[3] => Effective(r) = p
        BY <3>1, <3>2, <3>3
      <3> QED BY <2>2, <2>6, <3>4, <3>5, <3>6
    <2>7. CASE arch = "arm64"
      <3>1. Aligned(a) /\ Aligned(p)
        BY <2>2, <2>7 DEF Inv, Words
      <3>2. ((p - a) \div 4) * 4 = p - a
        BY <3>1 DEF Aligned
      <3>3. Fixed(p, a) = p - a
        BY <2>7, <3>2 DEF Fixed, FixedArm64
      <3> QED BY <2>2, <2>3, <2>7, <3>3 DEF Effective, Misplaced, Late
    <2>8. CASE arch = "x64"
      BY <2>2, <2>3, <2>4, <2>8 DEF Effective, Misplaced, Fixed, FixedX64, PopToEnd, CallFunctionX64, X
    <2>9. CASE arch = "ia32"
      BY <2>2, <2>3, <2>4, <2>9 DEF Effective, Misplaced, Fixed, FixedIa32, PopToEnd, CallFunctionIa32, X
    <2> QED BY <2>1, <2>5, <2>6, <2>7, <2>8, <2>9 DEF Archs
  <1> QED BY <1>1, SessionSound, PTL

-----------------------------------------------------------------------------
(* A sequence with the elements of two others, one behind the other, is    *)
(* their concatenation.                                                    *)
LEMMA Joined ==
  ASSUME NEW S, NEW s \in Seq(S), NEW t \in Seq(S), NEW u \in Seq(S),
         Len(u) = Len(s) + Len(t),
         \A i \in 1 .. Len(s) : u[i] = s[i],
         \A i \in 1 .. Len(t) : u[Len(s) + i] = t[i]
  PROVE  s \o t = u
<1>1. s \o t \in Seq(S) /\ Len(s \o t) = Len(s) + Len(t)
      /\ \A i \in 1 .. Len(s) + Len(t) : (s \o t)[i] = IF i <= Len(s) THEN s[i] ELSE t[i - Len(s)]
  BY ConcatProperties, Zenon
<1>2. ASSUME NEW i \in 1 .. Len(s) + Len(t) PROVE (s \o t)[i] = u[i]
  <2>1. CASE i <= Len(s)
    BY <1>1, <2>1
  <2>2. CASE ~(i <= Len(s))
    <3>1. i - Len(s) \in 1 .. Len(t) /\ Len(s) + (i - Len(s)) = i
      BY <2>2
    <3>2. u[Len(s) + (i - Len(s))] = t[i - Len(s)]
      BY <3>1
    <3> QED BY <1>1, <2>2, <3>1, <3>2
  <2> QED BY <2>1, <2>2
<1> QED BY <1>1, <1>2, SeqEqual

(* The tuples that requests are joined from.                               *)
LEMMA Join11 ==
  ASSUME NEW a, NEW b
  PROVE  <<a>> \o <<b>> = <<a, b>>
<1> DEFINE S == {a, b}
           s == <<a>>
           t == <<b>>
           u == <<a, b>>
<1>1. s \in Seq(S) /\ t \in Seq(S) /\ u \in Seq(S)
  OBVIOUS
<1>2. Len(s) = 1 /\ Len(t) = 1 /\ Len(u) = 2
  OBVIOUS
<1>3. u[1] = s[1] /\ u[2] = t[1]
  OBVIOUS
<1> HIDE DEF S, s, t, u
<1>4. \A i \in 1 .. Len(s) : u[i] = s[i]
  BY <1>2, <1>3
<1>5. \A i \in 1 .. Len(t) : u[Len(s) + i] = t[i]
  BY <1>2, <1>3
<1>6. Len(u) = Len(s) + Len(t)
  BY <1>2
<1>7. s \o t = u
  BY <1>1, <1>4, <1>5, <1>6, Joined, Zenon
<1> QED BY <1>7 DEF s, t, u

(* The same for call and an immediate.                                     *)
LEMMA Join12 ==
  ASSUME NEW a, NEW b, NEW c
  PROVE  <<a>> \o <<b, c>> = <<a, b, c>>
<1> DEFINE S == {a, b, c}
           s == <<a>>
           t == <<b, c>>
           u == <<a, b, c>>
<1>1. s \in Seq(S) /\ t \in Seq(S) /\ u \in Seq(S)
  OBVIOUS
<1>2. Len(s) = 1 /\ Len(t) = 2 /\ Len(u) = 3
  OBVIOUS
<1>3. u[1] = s[1] /\ u[2] = t[1] /\ u[3] = t[2]
  OBVIOUS
<1> HIDE DEF S, s, t, u
<1>4. \A i \in 1 .. Len(s) : u[i] = s[i]
  BY <1>2, <1>3
<1>5. \A i \in 1 .. Len(t) : u[Len(s) + i] = t[i]
  BY <1>2, <1>3
<1>6. Len(u) = Len(s) + Len(t)
  BY <1>2
<1>7. s \o t = u
  BY <1>1, <1>4, <1>5, <1>6, Joined, Zenon
<1> QED BY <1>7 DEF s, t, u

(* The same for call and a memory operand.                                 *)
LEMMA Join14 ==
  ASSUME NEW a, NEW b, NEW c, NEW d, NEW e
  PROVE  <<a>> \o <<b, c, d, e>> = <<a, b, c, d, e>>
<1> DEFINE S == {a, b, c, d, e}
           s == <<a>>
           t == <<b, c, d, e>>
           u == <<a, b, c, d, e>>
<1>1. s \in Seq(S) /\ t \in Seq(S) /\ u \in Seq(S)
  OBVIOUS
<1>2. Len(s) = 1 /\ Len(t) = 4 /\ Len(u) = 5
  OBVIOUS
<1>3. u[1] = s[1] /\ u[2] = t[1] /\ u[3] = t[2] /\ u[4] = t[3] /\ u[5] = t[4]
  OBVIOUS
<1> HIDE DEF S, s, t, u
<1>4. \A i \in 1 .. Len(s) : u[i] = s[i]
  BY <1>2, <1>3
<1>5. \A i \in 1 .. Len(t) : u[Len(s) + i] = t[i]
  BY <1>2, <1>3
<1>6. Len(u) = Len(s) + Len(t)
  BY <1>2
<1>7. s \o t = u
  BY <1>1, <1>4, <1>5, <1>6, Joined, Zenon
<1> QED BY <1>7 DEF s, t, u

(* The same for a method, a register and an immediate.                     *)
LEMMA Join22 ==
  ASSUME NEW a, NEW b, NEW c, NEW d
  PROVE  <<a, b>> \o <<c, d>> = <<a, b, c, d>>
<1> DEFINE S == {a, b, c, d}
           s == <<a, b>>
           t == <<c, d>>
           u == <<a, b, c, d>>
<1>1. s \in Seq(S) /\ t \in Seq(S) /\ u \in Seq(S)
  OBVIOUS
<1>2. Len(s) = 2 /\ Len(t) = 2 /\ Len(u) = 4
  OBVIOUS
<1>3. u[1] = s[1] /\ u[2] = s[2] /\ u[3] = t[1] /\ u[4] = t[2]
  OBVIOUS
<1> HIDE DEF S, s, t, u
<1>4. \A i \in 1 .. Len(s) : u[i] = s[i]
  BY <1>2, <1>3
<1>5. \A i \in 1 .. Len(t) : u[Len(s) + i] = t[i]
  BY <1>2, <1>3
<1>6. Len(u) = Len(s) + Len(t)
  BY <1>2
<1>7. s \o t = u
  BY <1>1, <1>4, <1>5, <1>6, Joined, Zenon
<1> QED BY <1>7 DEF s, t, u

(* The same for mov, a register and a memory operand.                      *)
LEMMA Join24 ==
  ASSUME NEW a, NEW b, NEW c, NEW d, NEW e, NEW f
  PROVE  <<a, b>> \o <<c, d, e, f>> = <<a, b, c, d, e, f>>
<1> DEFINE S == {a, b, c, d, e, f}
           s == <<a, b>>
           t == <<c, d, e, f>>
           u == <<a, b, c, d, e, f>>
<1>1. s \in Seq(S) /\ t \in Seq(S) /\ u \in Seq(S)
  OBVIOUS
<1>2. Len(s) = 2 /\ Len(t) = 4 /\ Len(u) = 6
  OBVIOUS
<1>3. u[1] = s[1] /\ u[2] = s[2] /\ u[3] = t[1] /\ u[4] = t[2] /\ u[5] = t[3] /\ u[6] = t[4]
  OBVIOUS
<1> HIDE DEF S, s, t, u
<1>4. \A i \in 1 .. Len(s) : u[i] = s[i]
  BY <1>2, <1>3
<1>5. \A i \in 1 .. Len(t) : u[Len(s) + i] = t[i]
  BY <1>2, <1>3
<1>6. Len(u) = Len(s) + Len(t)
  BY <1>2
<1>7. s \o t = u
  BY <1>1, <1>4, <1>5, <1>6, Joined, Zenon
<1> QED BY <1>7 DEF s, t, u

(* The same for mov of arm and its operand.                                *)
LEMMA Join32 ==
  ASSUME NEW a, NEW b, NEW c, NEW d, NEW e
  PROVE  <<a, b, c>> \o <<d, e>> = <<a, b, c, d, e>>
<1> DEFINE S == {a, b, c, d, e}
           s == <<a, b, c>>
           t == <<d, e>>
           u == <<a, b, c, d, e>>
<1>1. s \in Seq(S) /\ t \in Seq(S) /\ u \in Seq(S)
  OBVIOUS
<1>2. Len(s) = 3 /\ Len(t) = 2 /\ Len(u) = 5
  OBVIOUS
<1>3. u[1] = s[1] /\ u[2] = s[2] /\ u[3] = s[3] /\ u[4] = t[1] /\ u[5] = t[2]
  OBVIOUS
<1> HIDE DEF S, s, t, u
<1>4. \A i \in 1 .. Len(s) : u[i] = s[i]
  BY <1>2, <1>3
<1>5. \A i \in 1 .. Len(t) : u[Len(s) + i] = t[i]
  BY <1>2, <1>3
<1>6. Len(u) = Len(s) + Len(t)
  BY <1>2
<1>7. s \o t = u
  BY <1>1, <1>4, <1>5, <1>6, Joined, Zenon
<1> QED BY <1>7 DEF s, t, u

(* The same for add and sub of arm and their operand.                      *)
LEMMA Join42 ==
  ASSUME NEW a, NEW b, NEW c, NEW d, NEW e, NEW f
  PROVE  <<a, b, c, d>> \o <<e, f>> = <<a, b, c, d, e, f>>
<1> DEFINE S == {a, b, c, d, e, f}
           s == <<a, b, c, d>>
           t == <<e, f>>
           u == <<a, b, c, d, e, f>>
<1>1. s \in Seq(S) /\ t \in Seq(S) /\ u \in Seq(S)
  OBVIOUS
<1>2. Len(s) = 4 /\ Len(t) = 2 /\ Len(u) = 6
  OBVIOUS
<1>3. u[1] = s[1] /\ u[2] = s[2] /\ u[3] = s[3] /\ u[4] = s[4] /\ u[5] = t[1] /\ u[6] = t[2]
  OBVIOUS
<1> HIDE DEF S, s, t, u
<1>4. \A i \in 1 .. Len(s) : u[i] = s[i]
  BY <1>2, <1>3
<1>5. \A i \in 1 .. Len(t) : u[Len(s) + i] = t[i]
  BY <1>2, <1>3
<1>6. Len(u) = Len(s) + Len(t)
  BY <1>2
<1>7. s \o t = u
  BY <1>1, <1>4, <1>5, <1>6, Joined, Zenon
<1> QED BY <1>7 DEF s, t, u

(* The operands of b and bl, without the overload.                         *)
LEMMA LastOf3 ==
  ASSUME NEW a, NEW b, NEW c
  PROVE  SubSeq(<<a, b, c>>, 3, 3) = <<c>>
<1> DEFINE s == <<a, b, c>> u == <<c>> v == SubSeq(s, 3, 3)
<1>1. s[3] \in {c} /\ u \in Seq({c}) /\ Len(u) = 1 /\ u[1] = c /\ s[3] = c
  OBVIOUS
<1> HIDE DEF s, u
<1>2. v \in Seq({c}) /\ Len(v) = 1 /\ v[1] = s[3]
  <2>1. \A i \in 3 .. 3 : s[i] \in {c}
    BY <1>1
  <2>2. /\ v \in Seq({c})
        /\ Len(v) = IF 3 <= 3 THEN 3 - 3 + 1 ELSE 0
        /\ \A i \in 1 .. 3 - 3 + 1 : v[i] = s[3 + i - 1]
    BY <2>1, SubSeqProperties
  <2> QED BY <2>2
<1> HIDE DEF v
<1>3. v = u
  BY <1>1, <1>2, SeqEqual
<1> QED BY <1>3 DEF s, u, v

(* A word of arm means what was asked for, unless it is said not to.       *)
ArmRight(q) == Arm!Meaning(q) = Arm!Asked(q) <=> ~Arm!Misencoded(q)

(* sub and add on arm: every register operand, every immediate above a     *)
(* byte and every rn but sp goes wrong.                                    *)
LEMMA ArmData ==
  ASSUME NEW op \in {"sub", "add"}, NEW c \in BOOLEAN, NEW d \in Int, NEW n \in 0 .. 14,
         NEW k \in {"imm", "reg"}, NEW v \in Nat
  PROVE  ArmRight(<<op, c, d, n, k, v>>)
<1> DEFINE q == <<op, c, d, n, k, v>>
           sub == op = "sub" \/ ~c
           o == IF sub THEN "sub" ELSE "adds"
           w == IF sub THEN Arm!Or13(n) ELSE n
<1>1. Arm!Asked(q) = <<op, d, n, v>>
  BY DEF Arm!Asked
<1>2. /\ op = "sub" => (Arm!Misencoded(q) <=> k = "reg" \/ v > 255 \/ n # 13)
      /\ op = "add" => Arm!Misencoded(q)
  BY DEF Arm!Misencoded
<1>3. Arm!Encode(q) = Arm!Data(q)
  BY DEF Arm!Encode
<1>4. /\ k = "reg" => Arm!Data(q) = Arm!Ones
      /\ k = "imm" => Arm!Data(q) = [cls |-> "dp", op |-> o, d |-> d, n |-> w, imm |-> v]
  BY DEF Arm!Data
<1>5. <<"garbled">> # <<op, d, n, v>>
  OBVIOUS
<1>6. op = "sub" => o = "sub" /\ w = Arm!Or13(n)
  OBVIOUS
<1>7. o # "add"
  OBVIOUS
<1>8. Arm!Or13(n) = n <=> n = 13
  BY DEF Arm!Or13
<1>9. <<o, d, w, v>> = <<op, d, n, v>> <=> o = op /\ w = n
  OBVIOUS
<1> HIDE DEF q, o, w
<1>10. CASE k = "reg"
  <2>1. Arm!Meaning(q) = <<"garbled">>
    BY <1>3, <1>4, <1>10 DEF Arm!Meaning, Arm!Ones, Arm!Decode, Arm!Garbled
  <2> QED BY <1>1, <1>2, <1>5, <1>10, <2>1 DEF ArmRight, q
<1>11. CASE k = "imm"
  <2>1. Arm!Meaning(q) = IF v < 256 THEN <<o, d, w, v>> ELSE <<"garbled">>
    BY <1>3, <1>4, <1>11 DEF Arm!Meaning, Arm!Decode, Arm!Garbled
  <2>2. Arm!Meaning(q) = Arm!Asked(q) <=> v < 256 /\ o = op /\ w = n
    BY <1>1, <1>5, <1>9, <2>1
  <2>3. ~Arm!Misencoded(q) <=> v < 256 /\ o = op /\ w = n
    BY <1>2, <1>6, <1>7, <1>8, <1>11
  <2> QED BY <2>2, <2>3 DEF ArmRight, q
<1> QED BY <1>10, <1>11

(* ldr and str on arm: the offset is kept, its sign and the mode as far as *)
(* the opcode lets them.                                                   *)
LEMMA ArmMemory ==
  ASSUME NEW op \in {"ldr", "str"}, NEW c \in BOOLEAN, NEW d, NEW n,
         NEW v \in Int, NEW mode \in {"offset", "pre", "post"}
  PROVE  ArmRight(<<op, c, d, n, v, mode>>)
<1> DEFINE q == <<op, c, d, n, v, mode>>
           o == IF op = "ldr" \/ ~c THEN "ldr" ELSE "str"
           got == IF mode = "pre" THEN "pre" ELSE "offset"
           a == <<op, d, n, v, mode>>
<1>1. Arm!Asked(q) = a
  <2>1. Arm!Asked(q) = <<op>> \o SubSeq(q, 3, 6)
    BY DEF Arm!Asked
  <2> QED BY <2>1
<1>2. Arm!Misencoded(q) <=> mode = "post" \/ (op = "str" /\ ~c)
  BY DEF Arm!Misencoded
<1>3. Arm!Meaning(q) = <<o, d, n, v, got>>
  <2> DEFINE e == [cls |-> "mem", load |-> op = "ldr" \/ ~c, t |-> d, n |-> n,
                   P |-> TRUE, W |-> mode = "pre", U |-> v >= 0,
                   off |-> IF v < 0 THEN -v ELSE v]
  <2>1. Arm!Encode(q) = e
    BY DEF Arm!Encode, Arm!LoadStore
  <2>2. /\ e.cls = "mem" /\ e.load = (op = "ldr" \/ ~c) /\ e.t = d /\ e.n = n
        /\ e.P = TRUE /\ e.W = (mode = "pre") /\ e.U = (v >= 0)
        /\ e.off = IF v < 0 THEN -v ELSE v
    BY Zenon
  <2> HIDE DEF e
  <2>3. (IF e.load THEN "ldr" ELSE "str") = o /\ (IF e.W THEN "pre" ELSE "offset") = got
    BY <2>2, Zenon
  <2>4. (IF v >= 0 THEN e.off ELSE -e.off) = v
    BY <2>2
  <2>5. (IF e.U THEN e.off ELSE -e.off) = v
    BY <2>2, <2>4, Zenon
  <2>6. Arm!Decode(e) = <<IF e.load THEN "ldr" ELSE "str", e.t, e.n,
                          IF e.U THEN e.off ELSE -e.off,
                          IF e.W THEN "pre" ELSE "offset">>
    BY <2>2 DEF Arm!Decode
  <2> QED BY <2>1, <2>2, <2>3, <2>5, <2>6 DEF Arm!Meaning
<1>4. <<o, d, n, v, got>> = a <=> o = op /\ got = mode
  OBVIOUS
<1>5. o = op <=> ~(op = "str" /\ ~c)
  OBVIOUS
<1>6. got = mode <=> mode # "post"
  OBVIOUS
<1> HIDE DEF q, o, got, a
<1> QED BY <1>1, <1>2, <1>3, <1>4, <1>5, <1>6 DEF ArmRight, q

(* mov on arm moves r0, whatever it is asked for.                          *)
LEMMA ArmMove ==
  ASSUME NEW c \in BOOLEAN, NEW d, NEW k \in {"imm", "reg"}, NEW r \in Int
  PROVE  ArmRight(<<"mov", c, d, k, r>>)
<1> DEFINE q == <<"mov", c, d, k, r>>
           a == <<"mov", d, k, r>>
<1>1. Arm!Asked(q) = a
  <2>1. Arm!Asked(q) = <<"mov">> \o SubSeq(q, 3, 5)
    BY DEF Arm!Asked
  <2> QED BY <2>1
<1>2. Arm!Misencoded(q) <=> k = "imm" \/ r # 0
  BY DEF Arm!Misencoded
<1>3. Arm!Meaning(q) = IF k = "reg" /\ r # 0 THEN <<"garbled">> ELSE <<"mov", d, "reg", 0>>
  BY DEF Arm!Meaning, Arm!Encode, Arm!Move, Arm!Decode, Arm!Ones, Arm!Garbled
<1>4. <<"mov", d, "reg", 0>> = a <=> k = "reg" /\ r = 0
  OBVIOUS
<1>5. <<"garbled">> # a
  OBVIOUS
<1> HIDE DEF q, a
<1> QED BY <1>1, <1>2, <1>3, <1>4, <1>5 DEF ArmRight, q

(* b and bl on arm are each other.                                         *)
LEMMA ArmBranch ==
  ASSUME NEW op \in {"b", "bl"}, NEW v
  PROVE  ArmRight(<<op, FALSE, v>>)
<1> DEFINE q == <<op, FALSE, v>>
           o == IF op = "b" THEN "bl" ELSE "b"
<1>1. Arm!Asked(q) = <<op, v>>
  <2>1. Arm!Asked(q) = <<op>> \o SubSeq(q, 3, 3)
    BY DEF Arm!Asked
  <2>2. SubSeq(q, 3, 3) = <<v>>
    BY LastOf3, Zenon
  <2>3. <<op>> \o <<v>> = <<op, v>>
    BY Join11, Zenon
  <2> QED BY <2>1, <2>2, <2>3, Zenon
<1>2. Arm!Misencoded(q)
  BY DEF Arm!Misencoded
<1>3. Arm!Meaning(q) = <<o, v>>
  BY DEF Arm!Meaning, Arm!Encode, Arm!Branch, Arm!Decode
<1>4. <<o, v>> # <<op, v>>
  OBVIOUS
<1> HIDE DEF q, o
<1> QED BY <1>1, <1>2, <1>3, <1>4 DEF ArmRight, q

(* Every request on arm.                                                   *)
LEMMA ArmRequests ==
  ASSUME NEW Regs \in SUBSET (0 .. 15), NEW Offs \in SUBSET Int, NEW q \in Arm!Requests(Regs, Offs)
  PROVE  ArmRight(q)
<1> DEFINE Ops == {<<"imm", 56>>, <<"imm", 300>>, <<"reg", 1>>}
           WithOp(m, c, d, n, o) == <<m, c, d, n>> \o o
           Mov(c, d, o) == <<"mov", c, d>> \o o
           Go(m, o) == <<m, FALSE, o>>
           A == {WithOp(m, c, d, n, o) : m \in {"sub", "add"}, c \in BOOLEAN, d \in Regs,
                                         n \in Regs \ {15}, o \in Ops}
           M == {<<m, c, t, n, o, mode>> : m \in {"ldr", "str"}, c \in BOOLEAN, t \in Regs, n \in Regs,
                                           o \in Offs, mode \in {"offset", "pre", "post"}}
           V == {Mov(c, d, o) : c \in BOOLEAN, d \in Regs, o \in {"reg", "imm"} \X Regs}
           B == {Go(m, o) : m \in {"b", "bl"}, o \in Offs}
<1>1. Arm!Requests(Regs, Offs) = A \cup M \cup V \cup B
  BY DEF Arm!Requests
<1> HIDE DEF WithOp, Mov, Go
<1>2. ASSUME q \in A PROVE ArmRight(q)
  <2>1. PICK m \in {"sub", "add"}, c \in BOOLEAN, d \in Regs, n \in Regs \ {15}, o \in Ops :
               q = WithOp(m, c, d, n, o)
    BY <1>2
  <2>2. o[1] \in {"imm", "reg"} /\ o[2] \in Nat /\ o = <<o[1], o[2]>>
    OBVIOUS
  <2>3. <<m, c, d, n>> \o <<o[1], o[2]>> = <<m, c, d, n, o[1], o[2]>>
    BY Join42
  <2>4. d \in Int /\ n \in 0 .. 14
    OBVIOUS
  <2>5. ArmRight(<<m, c, d, n, o[1], o[2]>>)
    BY <2>2, <2>4, ArmData
  <2> QED BY <2>1, <2>2, <2>3, <2>5 DEF WithOp
<1>3. ASSUME q \in M PROVE ArmRight(q)
  <2>1. PICK m \in {"ldr", "str"}, c \in BOOLEAN, t \in Regs, n \in Regs, o \in Offs,
             mode \in {"offset", "pre", "post"} : q = <<m, c, t, n, o, mode>>
    BY <1>3
  <2> QED BY <2>1, ArmMemory
<1>4. ASSUME q \in V PROVE ArmRight(q)
  <2>1. PICK c \in BOOLEAN, d \in Regs, o \in {"reg", "imm"} \X Regs : q = Mov(c, d, o)
    BY <1>4
  <2>2. o = <<o[1], o[2]>>
    OBVIOUS
  <2>3. o[1] \in {"imm", "reg"} /\ o[2] \in Int
    <3>1. o[1] \in {"reg", "imm"} /\ o[2] \in Regs
      OBVIOUS
    <3>2. Regs \subseteq Int
      OBVIOUS
    <3>3. o[2] \in Int
      BY <3>1, <3>2, Zenon
    <3>4. o[1] \in {"imm", "reg"}
      BY <3>1, Zenon
    <3> QED BY <3>3, <3>4
  <2>4. <<"mov", c, d>> \o <<o[1], o[2]>> = <<"mov", c, d, o[1], o[2]>>
    BY Join32
  <2>5. ArmRight(<<"mov", c, d, o[1], o[2]>>)
    BY <2>3, ArmMove
  <2> QED BY <2>1, <2>2, <2>4, <2>5 DEF Mov
<1>5. ASSUME q \in B PROVE ArmRight(q)
  <2>1. PICK m \in {"b", "bl"}, o \in Offs : q = Go(m, o)
    BY <1>5
  <2> QED BY <2>1, ArmBranch DEF Go
<1> HIDE DEF A, M, V, B
<1> QED BY <1>1, <1>2, <1>3, <1>4, <1>5

(* A word of arm64 means what was asked for, unless it is said not to.     *)
Arm64Right(q) == Arm64!Meaning(q) = Arm64!Asked(q) <=> ~Arm64!Misencoded(q)

(* What is left of a number in a field of w bits, and what the processor   *)
(* reads back.                                                             *)
LEMMA Field7 == ASSUME NEW i \in Int PROVE Arm64!Field(i, 7) = i % 128
<1>1. 2 ^ 7 = 128
  BY SMT
<1> QED BY <1>1, SMT DEF Arm64!Field

(* The same for 12 bits.                                                   *)
LEMMA Field12 == ASSUME NEW i \in Int PROVE Arm64!Field(i, 12) = i % 4096
<1>1. 2 ^ 12 = 4096
  BY SMT
<1> QED BY <1>1, SMT DEF Arm64!Field

(* The same for 16 bits.                                                   *)
LEMMA Field16 == ASSUME NEW i \in Int PROVE Arm64!Field(i, 16) = i % 65536
<1>1. 2 ^ 16 = 65536
  BY SMT
<1> QED BY <1>1, SMT DEF Arm64!Field

(* The same for 21 bits.                                                   *)
LEMMA Field21 == ASSUME NEW i \in Int PROVE Arm64!Field(i, 21) = i % 2097152
<1>1. 2 ^ 21 = 2097152
  BY SMT
<1> QED BY <1>1, SMT DEF Arm64!Field

(* The same for 26 bits.                                                   *)
LEMMA Field26 == ASSUME NEW i \in Int PROVE Arm64!Field(i, 26) = i % 67108864
<1>1. 2 ^ 26 = 67108864
  BY SMT
<1> QED BY <1>1, SMT DEF Arm64!Field

(* How the processor reads a signed field of 7 bits.                       *)
LEMMA Signed7 ==
  ASSUME NEW i \in Int
  PROVE  Arm64!Signed(i, 7) = IF i >= 64 THEN i - 128 ELSE i
<1>1. 2 ^ 7 = 128 /\ 2 ^ (7 - 1) = 64
  BY SMT
<1> QED BY <1>1, SMT DEF Arm64!Signed

(* The same for 19 bits.                                                   *)
LEMMA Signed19 ==
  ASSUME NEW i \in Int
  PROVE  Arm64!Signed(i, 19) = IF i >= 262144 THEN i - 524288 ELSE i
<1>1. 2 ^ 19 = 524288 /\ 2 ^ (19 - 1) = 262144
  BY SMT
<1> QED BY <1>1, SMT DEF Arm64!Signed

(* The same for 21 bits.                                                   *)
LEMMA Signed21 ==
  ASSUME NEW i \in Int
  PROVE  Arm64!Signed(i, 21) = IF i >= 1048576 THEN i - 2097152 ELSE i
<1>1. 2 ^ 21 = 2097152 /\ 2 ^ (21 - 1) = 1048576
  BY SMT
<1> QED BY <1>1, SMT DEF Arm64!Signed

(* The same for 26 bits.                                                   *)
LEMMA Signed26 ==
  ASSUME NEW i \in Int
  PROVE  Arm64!Signed(i, 26) = IF i >= 33554432 THEN i - 67108864 ELSE i
<1>1. 2 ^ 26 = 67108864 /\ 2 ^ (26 - 1) = 33554432
  BY SMT
<1> QED BY <1>1, SMT DEF Arm64!Signed

(* A distance in words, cut to 26 bits.                                    *)
LEMMA Wrapped26 ==
  ASSUME NEW w \in Int, -33554432 <= w, w < 67108864
  PROVE  Arm64!Field(w, 26) = IF w < 0 THEN w + 67108864 ELSE w
BY Field26, SMT

(* A distance in words survives a field of 26 bits.                        *)
LEMMA Back26 ==
  ASSUME NEW w \in Int, -33554432 <= w, w < 33554432
  PROVE  Arm64!Signed(Arm64!Field(w, 26), 26) = w
<1> DEFINE f == Arm64!Field(w, 26)
<1>1. f = (IF w < 0 THEN w + 67108864 ELSE w) /\ f \in Int
  BY Wrapped26, SMT
<1> HIDE DEF f
<1>2. Arm64!Signed(f, 26) = IF f >= 33554432 THEN f - 67108864 ELSE f
  BY <1>1, Signed26, SMT
<1> QED BY <1>1, <1>2, SMT DEF f

(* A distance in pages survives a field of 21 bits.                        *)
LEMMA Back21 ==
  ASSUME NEW w \in Int, -1048576 <= w, w < 1048576
  PROVE  Arm64!Signed(Arm64!Field(w, 21), 21) = w
<1> DEFINE f == Arm64!Field(w, 21)
<1>1. f = (IF w < 0 THEN w + 2097152 ELSE w) /\ f \in Int
  BY Field21, SMT
<1> HIDE DEF f
<1>2. Arm64!Signed(f, 21) = IF f >= 1048576 THEN f - 2097152 ELSE f
  BY <1>1, Signed21, SMT
<1> QED BY <1>1, <1>2, SMT DEF f

(* add and sub on arm64: immediates of twelve bits.                        *)
LEMMA Arm64Add ==
  ASSUME NEW m \in {"add", "sub"}, NEW d, NEW n, NEW i \in Int
  PROVE  Arm64Right(<<m, d, n, i>>)
<1> DEFINE q == <<m, d, n, i>>
<1>1. Arm64!Asked(q) = q /\ (Arm64!Misencoded(q) <=> i < 0 \/ i > 4095)
  BY DEF Arm64!Asked, Arm64!Misencoded
<1>2. Arm64!Meaning(q) = <<m, d, n, Arm64!Field(i, 12)>>
  BY DEF Arm64!Meaning, Arm64!Encode, Arm64!AddSubImmediate, Arm64!Decode
<1>3. Arm64!Field(i, 12) = i <=> ~(i < 0 \/ i > 4095)
  BY Field12, SMT
<1>4. <<m, d, n, Arm64!Field(i, 12)>> = q <=> Arm64!Field(i, 12) = i
  OBVIOUS
<1> HIDE DEF q
<1> QED BY <1>1, <1>2, <1>3, <1>4 DEF Arm64Right, q

(* ldr and str on arm64: x registers and scaled offsets of twelve bits.    *)
LEMMA Arm64Memory ==
  ASSUME NEW m \in {"ldr", "str"}, NEW s, NEW t, NEW n, NEW i \in Int, i % 8 = 0
  PROVE  Arm64Right(<<m, s, t, n, i>>)
<1> DEFINE q == <<m, s, t, n, i>>
           o == Arm64!Field(i \div 8, 12) * 8
<1>1. Arm64!Asked(q) = q /\ (Arm64!Misencoded(q) <=> s # "x" \/ i < 0 \/ i > 8 * 4095)
  BY DEF Arm64!Asked, Arm64!Misencoded
<1>2. Arm64!Meaning(q) = <<m, "x", t, n, o>>
  BY DEF Arm64!Meaning, Arm64!Encode, Arm64!LoadStore, Arm64!Scale, Arm64!MemOperand, Arm64!Decode
<1>3. o = i <=> ~(i < 0 \/ i > 8 * 4095)
  <2>1. PICK w \in Int : i = 8 * w /\ i \div 8 = w
    OBVIOUS
  <2> QED BY <2>1, Field12, SMT
<1>4. <<m, "x", t, n, o>> = q <=> s = "x" /\ o = i
  OBVIOUS
<1> HIDE DEF q, o
<1> QED BY <1>1, <1>2, <1>3, <1>4 DEF Arm64Right, q

(* ldr of a literal: only the distance 0 is kept.                          *)
LEMMA Arm64Literal ==
  ASSUME NEW s, NEW t, NEW i \in Int, -33554432 <= i, i < 67108864
  PROVE  Arm64Right(<<"ldr_lit", s, t, i>>)
<1> DEFINE q == <<"ldr_lit", s, t, i>>
           f == Arm64!Field(i, 26)
           v == Arm64!Signed(f, 19) * 4
<1>1. Arm64!Asked(q) = q /\ (Arm64!Misencoded(q) <=> i # 0)
  BY SMT DEF Arm64!Asked, Arm64!Misencoded
<1>2. Arm64!Meaning(q) = IF f >= 2 ^ 19 THEN <<"garbled">> ELSE <<"ldr_lit", s, t, v>>
  BY SMT DEF Arm64!Meaning, Arm64!Encode, Arm64!LoadLiteral, Arm64!Decode, Arm64!Garbled
<1>3. f \in Int /\ f = IF i < 0 THEN i + 67108864 ELSE i
  BY Wrapped26, SMT
<1>4. 2 ^ 19 = 524288 /\ v = (IF f >= 262144 THEN f - 524288 ELSE f) * 4
  BY <1>3, Signed19, SMT
<1>5. <<"ldr_lit", s, t, v>> = q <=> v = i
  BY SMT
<1>6. <<"garbled">> # q
  BY SMT
<1> HIDE DEF q, f, v
<1>7. ~(f >= 524288) /\ v = i <=> i = 0
  BY <1>3, <1>4, SMT
<1> QED BY <1>1, <1>2, <1>4, <1>5, <1>6, <1>7, SMT DEF Arm64Right, q

(* ldp and stp: scaled offsets of seven bits, in every mode.               *)
LEMMA Arm64Pair ==
  ASSUME NEW m \in {"ldp", "stp"}, NEW s \in {"x", "q"}, NEW t, NEW u, NEW n, NEW i \in Int, i % 16 = 0,
         NEW mode
  PROVE  Arm64Right(<<m, s, t, u, n, i, mode>>)
<1> DEFINE q == <<m, s, t, u, n, i, mode>>
           k == Arm64!PairScale(s)
           o == Arm64!Signed(Arm64!Field(i \div k, 7), 7) * k
<1>1. Arm64!Asked(q) = q /\ (Arm64!Misencoded(q) <=> i \div k \notin -64 .. 63)
  BY DEF Arm64!Asked, Arm64!Misencoded
<1>2. Arm64!Meaning(q) = <<m, s, t, u, n, o, mode>>
  BY DEF Arm64!Meaning, Arm64!Encode, Arm64!LoadStorePair, Arm64!PairImm7, Arm64!MemOperand, Arm64!Decode
<1>3. k \in {8, 16}
  BY DEF Arm64!PairScale
<1>4. o = i <=> i \div k \in -64 .. 63
  <2>1. PICK w \in Int : i = k * w /\ i \div k = w
    <3>1. CASE k = 8
      BY <3>1
    <3>2. CASE k = 16
      BY <3>2
    <3> QED BY <1>3, <3>1, <3>2
  <2>2. /\ Arm64!Field(w, 7) = w % 128 /\ w % 128 \in Int
        /\ Arm64!Signed(w % 128, 7) = IF w % 128 >= 64 THEN (w % 128) - 128 ELSE w % 128
    BY Field7, Signed7, SMT
  <2>3. Arm64!Signed(w % 128, 7) = w <=> w \in -64 .. 63
    BY <2>2
  <2> QED BY <1>3, <2>1, <2>2, <2>3
<1>5. <<m, s, t, u, n, o, mode>> = q <=> o = i
  OBVIOUS
<1> HIDE DEF q, o
<1> QED BY <1>1, <1>2, <1>4, <1>5 DEF Arm64Right, q

(* mov: orr, or add with SP, and from x0 neither.                          *)
LEMMA Arm64Move ==
  ASSUME NEW d \in Int, NEW n \in Int
  PROVE  Arm64Right(<<"mov", d, n>>)
<1> DEFINE q == <<"mov", d, n>>
<1>1. Arm64!Misencoded(q) <=> n = 0 /\ d # 31
  BY DEF Arm64!Misencoded
<1>2. Arm64!Meaning(q) = Arm64!Decode(Arm64!Move(q))
  BY DEF Arm64!Meaning, Arm64!Encode
<1>3. CASE d = 31 \/ n = 31
  <2>1. Arm64!Asked(q) = <<"add", d, n, 0>>
    BY <1>3 DEF Arm64!Asked
  <2>2. Arm64!Field(0, 12) = 0
    BY Field12, SMT
  <2>3. 31 \in {d, n} /\ q[2] = d /\ q[3] = n
    BY <1>3
  <2>4. Arm64!Move(q) = [cls |-> "add", d |-> d, n |-> n, imm |-> 0]
    BY <2>2, <2>3 DEF Arm64!Move, Arm64!AddSubImmediate
  <2>5. Arm64!Meaning(q) = <<"add", d, n, 0>>
    BY <1>2, <2>4 DEF Arm64!Decode
  <2> QED BY <1>1, <1>3, <2>1, <2>5 DEF Arm64Right
<1>4. CASE ~(d = 31 \/ n = 31)
  <2>1. Arm64!Asked(q) = q
    BY <1>4 DEF Arm64!Asked
  <2>2. 31 \notin {d, n} /\ q[2] = d /\ q[3] = n
    BY <1>4
  <2>3. Arm64!Meaning(q) = IF n = 0 THEN <<"garbled">> ELSE <<"mov", d, n>>
    BY <1>2, <2>2 DEF Arm64!Move, Arm64!Logical, Arm64!IsImmediate, Arm64!Decode, Arm64!Garbled
  <2>4. <<"garbled">> # q
    OBVIOUS
  <2> QED BY <1>1, <1>4, <2>1, <2>3, <2>4 DEF Arm64Right
<1> QED BY <1>3, <1>4

(* By how much a wide immediate may be shifted.                            *)
WideShifts == {0, 16, 32, 48}

(* movz, movk and movn.                                                    *)
LEMMA Arm64Wide ==
  ASSUME NEW m \in {"movz", "movk", "movn"}, NEW d, NEW i \in Nat, i < 65536, NEW h \in WideShifts
  PROVE  Arm64Right(<<m, d, i, h>>)
<1> DEFINE q == <<m, d, i, h>>
<1>1. Arm64!Asked(q) = q /\ ~Arm64!Misencoded(q)
  BY DEF Arm64!Asked, Arm64!Misencoded
<1>2. Arm64!Encode(q) = [cls |-> m, d |-> d, imm |-> Arm64!Field(i, 16), hw |-> h \div 16]
  BY DEF Arm64!Encode, Arm64!MoveWide
<1>3. Arm64!Field(i, 16) = i /\ (h \div 16) * 16 = h
  BY Field16, SMT DEF WideShifts
<1>4. Arm64!Meaning(q) = Arm64!Decode(Arm64!Encode(q))
  BY DEF Arm64!Meaning
<1> DEFINE e == [cls |-> m, d |-> d, imm |-> i, hw |-> h \div 16]
<1>5. e.cls = m /\ e.d = d /\ e.imm = i /\ e.hw * 16 = h
  BY <1>3
<1> HIDE DEF e
<1>6. Arm64!Decode(e) = <<m, d, i, h>>
  BY <1>5 DEF Arm64!Decode
<1>7. Arm64!Meaning(q) = q
  BY <1>2, <1>3, <1>4, <1>6 DEF e
<1> QED BY <1>1, <1>7 DEF Arm64Right

(* br and blr.                                                             *)
LEMMA Arm64Jump ==
  ASSUME NEW m \in {"br", "blr"}, NEW n
  PROVE  Arm64Right(<<m, n>>)
BY DEF Arm64Right, Arm64!Asked, Arm64!Misencoded, Arm64!Meaning, Arm64!Encode, Arm64!Decode

(* b: distances of 26 bits in words.                                       *)
LEMMA Arm64Branch ==
  ASSUME NEW i \in Int, i % 4 = 0, -134217728 <= i, i < 134217728
  PROVE  Arm64Right(<<"b", i>>)
<1> DEFINE q == <<"b", i>>
<1>1. Arm64!Asked(q) = q /\ ~Arm64!Misencoded(q)
  BY SMT DEF Arm64!Asked, Arm64!Misencoded
<1>2. Arm64!Meaning(q) = <<"b", Arm64!Signed(Arm64!Field(i \div 4, 26), 26) * 4>>
  BY SMT DEF Arm64!Meaning, Arm64!Encode, Arm64!Decode
<1>3. PICK w \in Int : i = 4 * w /\ i \div 4 = w /\ -33554432 <= w /\ w < 33554432
  BY SMT
<1>4. Arm64!Signed(Arm64!Field(w, 26), 26) = w
  BY <1>3, Back26, SMT
<1>5. Arm64!Meaning(q) = q
  BY <1>2, <1>3, <1>4, SMT
<1> QED BY <1>1, <1>5, SMT DEF Arm64Right

(* adrp: distances of 21 bits in pages.                                    *)
LEMMA Arm64Page ==
  ASSUME NEW d, NEW w \in Int, -1048576 <= w, w < 1048576
  PROVE  /\ Arm64Right(<<"adrp", d, 4096 * w>>)
         /\ Arm64!Decode(Arm64!Adrp(<<"adrp", d, 4096 * w>>)) = <<"adrp", d, 4096 * w>>
<1> DEFINE q == <<"adrp", d, 4096 * w>>
<1>1. Arm64!Asked(q) = q /\ ~Arm64!Misencoded(q)
  BY SMT DEF Arm64!Asked, Arm64!Misencoded
<1>2. Arm64!Meaning(q) = Arm64!Decode(Arm64!Adrp(q))
  BY SMT DEF Arm64!Meaning, Arm64!Encode
<1>3. Arm64!Adrp(q) = [cls |-> "adrp", d |-> d, imm |-> Arm64!Field((4096 * w) \div 4096, 21)]
  BY SMT DEF Arm64!Adrp
<1>4. (4096 * w) \div 4096 = w
  BY SMT
<1>5. Arm64!Signed(Arm64!Field(w, 21), 21) = w
  BY Back21, SMT
<1>6. Arm64!Decode(Arm64!Adrp(q)) = q
  BY <1>3, <1>4, <1>5, SMT DEF Arm64!Decode
<1> QED BY <1>1, <1>2, <1>6, SMT DEF Arm64Right

(* What is asked for and meant is right.                                   *)
LEMMA RightIs ==
  ASSUME NEW q, Arm64!Meaning(q) = q, Arm64!Asked(q) = q, ~Arm64!Misencoded(q)
  PROVE  Arm64Right(q)
BY DEF Arm64Right

(* The page of an address and the place in it.                             *)
LEMMA PageIs ==
  ASSUME NEW a \in Nat, a < 1048576
  PROVE  \E k \in Nat, r \in Nat :
           k < 256 /\ a % 4096 = r /\ Arm64!PageOf(a) = 4096 * k /\ a = 4096 * k + r
<1> DEFINE k == a \div 4096
           r == a % 4096
<1>1. k \in Nat /\ r \in Nat /\ a = 4096 * k + r
  BY SMT
<1>2. k < 256
  BY SMT
<1>3. Arm64!PageOf(a) = a - r
  BY SMT DEF Arm64!PageOf
<1>4. a % 4096 = r
  OBVIOUS
<1> HIDE DEF k, r
<1> QED BY <1>1, <1>2, <1>3, <1>4, SMT

(* Mov of a 64-bit value, half by half.                                    *)
LEMMA Arm64Value ==
  ASSUME NEW d, NEW a \in Nat, NEW b \in Nat, NEW c \in Nat, NEW e \in Nat,
         a < 65536, b < 65536, c < 65536, e < 65536
  PROVE  Arm64Right(<<"Mov", d, <<a, b, c, e>>>>)
<1> DEFINE v == <<a, b, c, e>>
           q == <<"Mov", d, v>>
           es == Arm64!Mov(q)
<1>1. Arm64!Asked(q) = q /\ ~Arm64!Misencoded(q)
  BY SMT DEF Arm64!Asked, Arm64!Misencoded
<1>2. Arm64!Meaning(q) = <<"Mov", d, Arm64!RunMoves(es)>>
  BY SMT DEF Arm64!Meaning
<1>3. q[2] = d /\ q[3] = v
  BY SMT
<1>4. v[1] = a /\ v[2] = b /\ v[3] = c /\ v[4] = e
  BY SMT
<1>5. \A k \in 1 .. 4 : v[k] \in Int /\ 0 <= v[k] /\ v[k] < 65536
  BY <1>4, SMT
<1> DEFINE op(k) == IF k = 1 THEN "movz" ELSE "movk"
<1>6. es = [k \in 1 .. 4 |-> Arm64!MoveWide(<<op(k), d, v[k], 16 * (k - 1)>>)]
  BY <1>3, SMT DEF Arm64!Mov
<1> HIDE DEF q, v, es, op
<1>7. ASSUME NEW k \in 1 .. 4
      PROVE  es[k].hw = k - 1 /\ es[k].imm = v[k]
  <2>1. es[k] = Arm64!MoveWide(<<op(k), d, v[k], 16 * (k - 1)>>)
    BY <1>6, SMT
  <2>2. es[k] = [cls |-> op(k), d |-> d, imm |-> Arm64!Field(v[k], 16), hw |-> (16 * (k - 1)) \div 16]
    BY <2>1, SMT DEF Arm64!MoveWide
  <2>3. (16 * (k - 1)) \div 16 = k - 1
    BY SMT
  <2>4. Arm64!Field(v[k], 16) = v[k]
    BY <1>5, Field16, SMT
  <2> QED BY <2>2, <2>3, <2>4, SMT
<1>8. ASSUME NEW k \in 1 .. 4
      PROVE  Arm64!RunMoves(es)[k] = v[k]
  <2> DEFINE last == {n \in 1 .. 4 : es[n].hw = k - 1}
  <2>1. last = {k}
    BY <1>7, SMT
  <2>2. Arm64!RunMoves(es)[k] = IF last = {} THEN 0 ELSE es[CHOOSE n \in last : TRUE].imm
    BY SMT DEF Arm64!RunMoves
  <2> HIDE DEF last
  <2> DEFINE it == CHOOSE n \in last : TRUE
  <2>3. last # {} /\ it = k
    BY <2>1, SMT
  <2>4. Arm64!RunMoves(es)[k] = es[it].imm
    BY <2>2, <2>3, SMT
  <2> HIDE DEF it
  <2>5. es[k].imm = v[k]
    BY <1>7, SMT
  <2> QED BY <2>3, <2>4, <2>5, SMT
<1>9. Arm64!RunMoves(es) = v
  <2>1. v = [k \in 1 .. 4 |-> v[k]]
    BY SMT DEF v
  <2>2. Arm64!RunMoves(es) = [k \in 1 .. 4 |-> Arm64!RunMoves(es)[k]]
    BY SMT DEF Arm64!RunMoves
  <2>3. DOMAIN v = 1 .. 4 /\ DOMAIN Arm64!RunMoves(es) = 1 .. 4
    BY <2>1, <2>2, SMT
  <2> QED BY <1>8, <2>1, <2>2, <2>3, SMT
<1>10. Arm64!Meaning(q) = q
  BY <1>2, <1>9, SMT DEF q
<1> HIDE DEF q
<1>11. Arm64Right(q)
  BY <1>1, <1>10, RightIs, SMT
<1> QED BY <1>11, SMT DEF q, v

(* AdrpAdd reaches any address from any place.                             *)
LEMMA Arm64Address ==
  ASSUME NEW d, NEW p \in Nat, NEW a \in Nat, p < 1048576, a < 1048576
  PROVE  Arm64Right(<<"AdrpAdd", d, p, a>>)
<1> DEFINE q == <<"AdrpAdd", d, p, a>>
           pg == Arm64!PageOf(a) - Arm64!PageOf(p)
           hi == Arm64!Adrp(<<"adrp", d, pg>>)
           lo == Arm64!AddSubImmediate(<<"add", d, d, a % 4096>>)
<1>1. Arm64!Asked(q) = q /\ ~Arm64!Misencoded(q)
  BY SMT DEF Arm64!Asked, Arm64!Misencoded
<1>2. Arm64!AdrpAdd(q) = <<hi, lo>>
  BY SMT DEF Arm64!AdrpAdd
<1>3. /\ \E w \in Int : pg = 4096 * w /\ -1048576 <= w /\ w < 1048576
      /\ Arm64!PageOf(p) + pg + (a % 4096) = a
  <2>1. PICK i \in Nat, r \in Nat :
          i < 256 /\ a % 4096 = r /\ Arm64!PageOf(a) = 4096 * i /\ a = 4096 * i + r
    BY PageIs, SMT
  <2>2. PICK j \in Nat, s \in Nat :
          j < 256 /\ p % 4096 = s /\ Arm64!PageOf(p) = 4096 * j /\ p = 4096 * j + s
    BY PageIs, SMT
  <2>3. /\ pg = 4096 * (i - j) /\ i - j \in Int /\ -1048576 <= i - j /\ i - j < 1048576
        /\ Arm64!PageOf(p) + pg + r = a
    BY <2>1, <2>2, SMT
  <2> HIDE DEF pg
  <2> QED BY <2>1, <2>3, SMT
<1>4. a % 4096 \in Int /\ (a % 4096) % 4096 = a % 4096
  BY SMT
<1> HIDE DEF pg
<1>5. Arm64!Decode(hi) = <<"adrp", d, pg>>
  BY <1>3, Arm64Page, SMT
<1>6. lo.d = d /\ lo.imm = a % 4096
  BY <1>4, Field12, SMT DEF Arm64!AddSubImmediate
<1> HIDE DEF hi, lo
<1>7. q[3] = p /\ <<hi, lo>>[1] = hi /\ <<hi, lo>>[2] = lo /\ <<"adrp", d, pg>>[3] = pg
  BY SMT
<1>8. Arm64!Meaning(q) = LET e == Arm64!AdrpAdd(q)
                         IN  <<"AdrpAdd", e[2].d, q[3],
                               Arm64!PageOf(q[3]) + Arm64!Decode(e[1])[3] + e[2].imm>>
  BY SMT DEF Arm64!Meaning
<1>9. Arm64!Meaning(q) = <<"AdrpAdd", d, p, Arm64!PageOf(p) + pg + (a % 4096)>>
  <2> DEFINE x == Arm64!Decode(hi)[3]
             y == lo.imm
  <2>1. Arm64!Meaning(q) = <<"AdrpAdd", lo.d, p, Arm64!PageOf(p) + x + y>>
    BY <1>2, <1>7, <1>8, SMT
  <2>2. x = pg /\ y = a % 4096
    BY <1>5, <1>6, <1>7, SMT
  <2> HIDE DEF x, y
  <2>3. Arm64!PageOf(p) + x + y = Arm64!PageOf(p) + pg + (a % 4096)
    BY <2>2, SMT
  <2> HIDE DEF q
  <2> QED BY <1>6, <2>1, <2>3, SMT
<1>10. Arm64!Meaning(q) = q
  BY <1>3, <1>9, SMT DEF q
<1> HIDE DEF q
<1>11. Arm64Right(q)
  BY <1>1, <1>10, RightIs, SMT
<1> QED BY <1>11, SMT DEF q

(* Every request on arm64.                                                 *)
LEMMA Arm64Requests ==
  ASSUME NEW Regs \in SUBSET Int, NEW Imms \in SUBSET Int,
         \A i \in Imms : i % 16 = 0 /\ i % 8 = 0 /\ i % 4 = 0 /\ -33554432 <= i /\ i < 33554432,
         NEW q \in Arm64!Requests(Regs, Imms)
  PROVE  Arm64Right(q)
<1> DEFINE Add == {<<m, d, n, i>> : m \in {"add", "sub"}, d \in Regs, n \in Regs, i \in Imms}
           Mem == {<<m, s, t, n, i>> : m \in {"ldr", "str"}, s \in {"w", "x", "q"}, t \in Regs, n \in Regs,
                                       i \in Imms}
           Lit == {<<"ldr_lit", s, t, i>> : s \in {"w", "x", "q"}, t \in Regs, i \in Imms}
           Pair == {<<m, s, t, t + 1, n, i, mode>> : m \in {"ldp", "stp"}, s \in {"x", "q"}, t \in Regs,
                                        n \in Regs, i \in Imms, mode \in {"offset", "pre", "post"}}
           Move == {<<"mov", d, n>> : d \in Regs, n \in Regs}
           Wide == {<<m, d, i, h>> : m \in {"movz", "movk", "movn"}, d \in Regs, i \in 0 .. 2,
                                     h \in {0, 16, 32, 48}}
           Jump == {<<m, n>> : m \in {"br", "blr"}, n \in Regs}
           Go == {<<"b", i>> : i \in Imms}
           Page == {<<"adrp", d, 4096 * i>> : d \in Regs, i \in {-3, 0, 5}}
           Value == {<<"Mov", d, <<i, 65535, j, 1>>>> : d \in Regs, i \in 0 .. 1, j \in 0 .. 1}
           Addr == {<<"AdrpAdd", d, i, j>> : d \in Regs, i \in {4092, 4096, 20004},
                                             j \in {0, 4095, 8192, 12300}}
<1>1. Arm64!Requests(Regs, Imms) =
        Add \cup Mem \cup Lit \cup Pair \cup Move \cup Wide \cup Jump \cup Go \cup Page \cup Value \cup Addr
  BY SMT DEF Arm64!Requests
<1>2. ASSUME q \in Add PROVE Arm64Right(q)
  <2>1. PICK m \in {"add", "sub"}, d \in Regs, n \in Regs, i \in Imms : q = <<m, d, n, i>>
    BY <1>2, SMT
  <2> QED BY <2>1, Arm64Add, SMT
<1>3. ASSUME q \in Mem PROVE Arm64Right(q)
  <2>1. PICK m \in {"ldr", "str"}, s \in {"w", "x", "q"}, t \in Regs, n \in Regs, i \in Imms :
          q = <<m, s, t, n, i>>
    BY <1>3, SMT
  <2> QED BY <2>1, Arm64Memory, SMT
<1>4. ASSUME q \in Lit PROVE Arm64Right(q)
  <2>1. PICK s \in {"w", "x", "q"}, t \in Regs, i \in Imms : q = <<"ldr_lit", s, t, i>>
    BY <1>4, SMT
  <2> QED BY <2>1, Arm64Literal, SMT
<1>5. ASSUME q \in Pair PROVE Arm64Right(q)
  <2>1. PICK m \in {"ldp", "stp"}, s \in {"x", "q"}, t \in Regs, n \in Regs, i \in Imms,
             mode \in {"offset", "pre", "post"} : q = <<m, s, t, t + 1, n, i, mode>>
    BY <1>5, SMT
  <2> QED BY <2>1, Arm64Pair, SMT
<1>6. ASSUME q \in Move PROVE Arm64Right(q)
  <2>1. PICK d \in Regs, n \in Regs : q = <<"mov", d, n>>
    BY <1>6, SMT
  <2> QED BY <2>1, Arm64Move, SMT
<1>7. ASSUME q \in Wide PROVE Arm64Right(q)
  <2>1. PICK m \in {"movz", "movk", "movn"}, d \in Regs, i \in 0 .. 2, h \in WideShifts :
          q = <<m, d, i, h>>
    BY <1>7, SMT DEF WideShifts
  <2>2. i \in Nat /\ i < 65536
    BY SMT
  <2>3. Arm64Right(<<m, d, i, h>>)
    BY <2>2, Arm64Wide, SMT
  <2> QED BY <2>1, <2>3, SMT
<1>8. ASSUME q \in Jump PROVE Arm64Right(q)
  <2>1. PICK m \in {"br", "blr"}, n \in Regs : q = <<m, n>>
    BY <1>8, SMT
  <2> QED BY <2>1, Arm64Jump, SMT
<1>9. ASSUME q \in Go PROVE Arm64Right(q)
  <2>1. PICK i \in Imms : q = <<"b", i>>
    BY <1>9, SMT
  <2> QED BY <2>1, Arm64Branch, SMT
<1>10. ASSUME q \in Page PROVE Arm64Right(q)
  <2>1. PICK d \in Regs, w \in {-3, 0, 5} : q = <<"adrp", d, 4096 * w>>
    BY <1>10, SMT
  <2>2. w \in Int /\ -1048576 <= w /\ w < 1048576
    BY SMT
  <2>3. Arm64Right(<<"adrp", d, 4096 * w>>)
    BY <2>2, Arm64Page, SMT
  <2> QED BY <2>1, <2>3, SMT
<1>11. ASSUME q \in Value PROVE Arm64Right(q)
  <2>1. PICK d \in Regs, i \in 0 .. 1, j \in 0 .. 1 : q = <<"Mov", d, <<i, 65535, j, 1>>>>
    BY <1>11, SMT
  <2>2. i \in Nat /\ j \in Nat /\ i < 65536 /\ j < 65536 /\ 65535 \in Nat /\ 65535 < 65536 /\ 1 \in Nat /\ 1 < 65536
    BY SMT
  <2>3. Arm64Right(<<"Mov", d, <<i, 65535, j, 1>>>>)
    BY <2>2, Arm64Value, SMT
  <2> QED BY <2>1, <2>3, SMT
<1>12. ASSUME q \in Addr PROVE Arm64Right(q)
  <2>1. PICK d \in Regs, i \in {4092, 4096, 20004}, j \in {0, 4095, 8192, 12300} : q = <<"AdrpAdd", d, i, j>>
    BY <1>12, SMT
  <2>2. i \in Nat /\ j \in Nat /\ i < 1048576 /\ j < 1048576
    BY SMT
  <2> QED BY <2>1, <2>2, Arm64Address, SMT
<1> HIDE DEF Add, Mem, Lit, Pair, Move, Wide, Jump, Go, Page, Value, Addr
<1> QED BY <1>1, <1>2, <1>3, <1>4, <1>5, <1>6, <1>7, <1>8, <1>9, <1>10, <1>11, <1>12, SMT

(* What the assembler of x64 or ia32 emits means what was asked for, unless *)
(* it is said not to.                                                      *)
X86Right(isa, q) == X86!Meaning(isa = "x64", q) = q <=> ~X86!Misencoded(isa = "x64", q)
Emits(isa, q) == IF isa = "x64" THEN X86!EncodeX64(q) ELSE X86!EncodeIa32(q)

(* The sizes a request names.                                              *)
ImmSizes == {8, 16, 32, 64}

(* Only an immediate of one byte is cut.                                   *)
LEMMA EmittedIs ==
  ASSUME NEW n \in ImmSizes, NEW v
  PROVE  /\ X86!Emitted(<<n, v>>)[1] = n
         /\ n # 8 => X86!Emitted(<<n, v>>) = <<n, v>>
BY DEF X86!Emitted, ImmSizes

(* The bits of REX for a register; B goes with the register of push and    *)
(* pop alone.                                                              *)
LEMMA RexIs ==
  ASSUME NEW r \in Int
  PROVE  /\ "W" \in X86!RexR(r) /\ "X" \notin X86!RexR(r) /\ "B" \notin X86!RexR(r)
         /\ "R" \in X86!RexR(r) <=> r > 7
         /\ "B" \in X86!RexRB(r) <=> r > 7
         /\ "X" \notin X86!RexRB(r)
BY DEF X86!RexR, X86!RexRB

(* sub, add and mov of an immediate: the size the opcode takes, and no     *)
(* register above rdi.                                                     *)
LEMMA X86Immediate ==
  ASSUME NEW isa, NEW m \in {"sub_ri", "add_ri", "mov_ri"}, NEW r \in 0 .. 15,
         NEW n \in ImmSizes, NEW v, isa # "x64" => r < 8
  PROVE  X86Right(isa, <<m, r, n, v>>)
<1> DEFINE q == <<m, r, n, v>>
<1>0. PICK e : e = Emits(isa, q)
  OBVIOUS
<1>1. /\ e.op = IF m = "mov_ri" THEN "B8" ELSE "81"
      /\ e.mod = 3 /\ e.rm = r % 8 /\ "B" \notin e.rex
      /\ m = "sub_ri" => e.reg = 5
      /\ m = "add_ri" => e.reg = IF r > 7 THEN 1 ELSE 0
      /\ "W" \in e.rex <=> isa = "x64"
      /\ e.imm = X86!Emitted(<<n, v>>)
  <2> DEFINE f == X86!EncodeX64(q)
  <2>1. q[1] = m /\ q[2] = r /\ q[3] = n /\ q[4] = v
    OBVIOUS
  <2> HIDE DEF q
  <2>2. /\ f.op = IF m = "mov_ri" THEN "B8" ELSE "81"
        /\ f.mod = 3 /\ f.rm = r % 8
        /\ m = "sub_ri" => f.reg = 5
        /\ m = "add_ri" => f.reg = IF r > 7 THEN 1 ELSE 0
        /\ f.rex = X86!RexR(r)
        /\ f.imm = X86!Emitted(<<n, v>>)
    <3>1. CASE m = "sub_ri"
      BY <2>1, <3>1 DEF X86!EncodeX64, X86!Encoding, X86!RegisterForm
    <3>2. CASE m = "add_ri"
      BY <2>1, <3>2 DEF X86!EncodeX64, X86!Encoding, X86!RegisterForm
    <3>3. CASE m = "mov_ri"
      BY <2>1, <3>3 DEF X86!EncodeX64, X86!Encoding, X86!NoForm
    <3> QED BY <3>1, <3>2, <3>3
  <2>3. X86!EncodeIa32(q) = [f EXCEPT !.rex = {}]
    BY <2>1 DEF X86!EncodeIa32
  <2> DEFINE g == [f EXCEPT !.rex = {}]
  <2>4. /\ g.op = f.op /\ g.mod = f.mod /\ g.rm = f.rm /\ g.reg = f.reg /\ g.imm = f.imm /\ g.rex = {}
    <3>1. {"op", "mod", "rm", "reg", "imm", "rex"} \subseteq DOMAIN f
      <4>1. CASE m = "sub_ri"
        BY <2>1, <4>1 DEF X86!EncodeX64, X86!Encoding, X86!RegisterForm
      <4>2. CASE m = "add_ri"
        BY <2>1, <4>2 DEF X86!EncodeX64, X86!Encoding, X86!RegisterForm
      <4>3. CASE m = "mov_ri"
        BY <2>1, <4>3 DEF X86!EncodeX64, X86!Encoding, X86!NoForm
      <4> QED BY <4>1, <4>2, <4>3
    <3> HIDE DEF f
    <3> QED BY <3>1
  <2> HIDE DEF f, g
  <2>5. \/ isa = "x64" /\ e = f
        \/ isa # "x64" /\ e = g
    BY <1>0, <2>3 DEF Emits, f, g, q
  <2>6. /\ e.op = f.op /\ e.mod = f.mod /\ e.rm = f.rm /\ e.reg = f.reg /\ e.imm = f.imm
    BY <2>4, <2>5
  <2>7. r \in Int /\ "B" \notin e.rex
    BY <2>2, <2>4, <2>5, RexIs
  <2>8. "W" \in e.rex <=> isa = "x64"
    <3>1. "W" \in f.rex /\ "W" \notin g.rex
      BY <2>2, <2>4, <2>7, RexIs
    <3> QED BY <2>5, <3>1
  <2> QED BY <2>2, <2>6, <2>7, <2>8
<1>2. X86!Meaning(isa = "x64", q) = X86!Decode(e)
  BY <1>0 DEF X86!Meaning, Emits
<1>3. e.imm[1] = n /\ (n # 8 => e.imm = <<n, v>>)
  BY <1>1, EmittedIs
<1>4. X86!Rm(e) = r % 8
  BY <1>1 DEF X86!Rm
<1>5. r % 8 = r <=> r <= 7
  OBVIOUS
<1>6. <<"garbled">> # q
  OBVIOUS
<1>7. CASE m = "mov_ri"
  <2>1. X86!ImmSize(e) = IF isa = "x64" THEN 64 ELSE 32
    BY <1>1, <1>7 DEF X86!ImmSize
  <2>2. X86!Misencoded(isa = "x64", q) <=> n # (IF isa = "x64" THEN 64 ELSE 32) \/ r > 7
    BY <1>7 DEF X86!Misencoded
  <2>3. n # X86!ImmSize(e) => X86!Decode(e) = <<"garbled">>
    BY <1>3 DEF X86!Decode, X86!Garbled
  <2>4. n = X86!ImmSize(e) => X86!Decode(e) = <<"mov_ri", r % 8, n, v>>
    BY <1>1, <1>3, <1>4, <1>7, <2>1 DEF X86!Decode
  <2>5. <<"mov_ri", r % 8, n, v>> = q <=> r % 8 = r
    BY <1>7
  <2> HIDE DEF q
  <2> QED BY <1>2, <1>5, <1>6, <2>1, <2>2, <2>3, <2>4, <2>5 DEF X86Right, q
<1>8. CASE m # "mov_ri"
  <2>1. X86!ImmSize(e) = 32
    BY <1>1, <1>8 DEF X86!ImmSize
  <2>2. X86!Misencoded(isa = "x64", q) <=> n # 32 \/ r > 7
    BY <1>8 DEF X86!Misencoded
  <2>3. n # 32 => X86!Decode(e) = <<"garbled">>
    BY <1>3, <2>1 DEF X86!Decode, X86!Garbled
  <2> DEFINE o == IF m = "add_ri" THEN IF r > 7 THEN "or_ri" ELSE "add_ri" ELSE "sub_ri"
  <2>4. n = 32 => X86!Decode(e) = <<o, r % 8, n, v>>
    <3>1. ASSUME n = 32
          PROVE  X86!Decode(e) = <<CASE e.reg = 0 -> "add_ri" [] e.reg = 1 -> "or_ri" [] e.reg = 5 -> "sub_ri",
                                   r % 8, n, v>>
      BY <1>1, <1>3, <1>4, <1>8, <2>1, <3>1 DEF X86!Decode
    <3>2. (CASE e.reg = 0 -> "add_ri" [] e.reg = 1 -> "or_ri" [] e.reg = 5 -> "sub_ri") = o
      BY <1>1, <1>8
    <3> QED BY <3>1, <3>2
  <2>5. <<o, r % 8, n, v>> = q <=> o = m /\ r % 8 = r
    OBVIOUS
  <2>6. r <= 7 => o = m
    BY <1>8
  <2> HIDE DEF q, o
  <2> QED BY <1>2, <1>5, <1>6, <2>2, <2>3, <2>4, <2>5, <2>6 DEF X86Right, q
<1> QED BY <1>7, <1>8

(* An encoding, and one without memory operand and immediate.              *)
Fields(op, x, md, g, w, s, d, i) ==
  [op |-> op, rex |-> x, mod |-> md, reg |-> g, rm |-> w, sib |-> s, disp |-> d, imm |-> i]
Plain(op, x, g, w, i) == Fields(op, x, 3, g, w, <<>>, X86!None, i)

(* ia32 emits the encoding without REX.                                    *)
LEMMA WithoutRex ==
  ASSUME NEW a, NEW b, NEW c, NEW d, NEW w, NEW x, NEW y, NEW z
  PROVE  [Fields(a,b,c,d,w,x,y,z) EXCEPT !.rex = {}] = Fields(a,{},c,d,w,x,y,z)
BY SMT DEF Fields

(* x *)
LEMMA PlainWithoutRex ==
  ASSUME NEW op, NEW rex, NEW reg, NEW rm, NEW i
  PROVE  [Plain(op, rex, reg, rm, i) EXCEPT !.rex = {}] = Plain(op, {}, reg, rm, i)
BY WithoutRex, SMT DEF Plain

(* mov between registers: the source is in rm, which REX.R does not        *)
(* extend.                                                                 *)
LEMMA X86MoveRegister ==
  ASSUME NEW isa, NEW r \in 0 .. 15, NEW s \in 0 .. 15, isa # "x64" => r < 8 /\ s < 8
  PROVE  X86Right(isa, <<"mov_rr", r, s>>)
<1> DEFINE q == <<"mov_rr", r, s>>
           g == IF s > 7 /\ r % 2 = 0 THEN (r % 8) + 1 ELSE r % 8
           w == s % 8
<1>1. q[1] = "mov_rr" /\ q[2] = r /\ q[3] = s
  OBVIOUS
<1> HIDE DEF q
<1>2. X86!EncodeX64(q) = Plain("8B", X86!RexR(r), g, w, X86!None)
  BY <1>1 DEF X86!EncodeX64, X86!Encoding, X86!RegisterForm, Plain, Fields, X86!Emitted, X86!None
<1> HIDE DEF g, w
<1>3. X86!EncodeIa32(q) = Plain("8B", {}, g, w, X86!None)
  <2>1. X86!EncodeIa32(q) = [X86!EncodeX64(q) EXCEPT !.rex = {}]
    BY <1>1 DEF X86!EncodeIa32
  <2>2. [Plain("8B", X86!RexR(r), g, w, X86!None) EXCEPT !.rex = {}] = Plain("8B", {}, g, w, X86!None)
    BY PlainWithoutRex
  <2> QED BY <1>2, <2>1, <2>2, Zenon
<1> DEFINE x == IF isa = "x64" THEN X86!RexR(r) ELSE {}
<1>4. Emits(isa, q) = Plain("8B", x, g, w, X86!None)
  BY <1>2, <1>3 DEF Emits
<1>5. "B" \notin x /\ ("R" \in x <=> r > 7) /\ g \in Int /\ w \in Int
  BY RexIs DEF g, w
<1> HIDE DEF x
<1>6. X86!Meaning(isa = "x64", q) = <<"mov_rr", g + (IF r > 7 THEN 8 ELSE 0), w>>
  BY <1>4, <1>5 DEF X86!Meaning, Emits, X86!Decode, X86!ImmSize, Plain, Fields, X86!None, X86!Reg, X86!Rm
<1>7. X86!Misencoded(isa = "x64", q) <=> s > 7
  BY <1>1 DEF X86!Misencoded
<1>8. w = s <=> s <= 7
  BY DEF w
<1>9. s <= 7 => g + (IF r > 7 THEN 8 ELSE 0) = r
  BY DEF g
<1> QED BY <1>6, <1>7, <1>8, <1>9 DEF X86Right, q

(* call of a register: above rdi the fourth bit of rm turns /2 into /3.    *)
LEMMA X86CallRegister ==
  ASSUME NEW isa, NEW r \in 0 .. 15, isa # "x64" => r < 8
  PROVE  X86Right(isa, <<"call_r", r>>)
<1> DEFINE q == <<"call_r", r>>
           g == IF r > 7 THEN 3 ELSE 2
<1>1. q[1] = "call_r" /\ q[2] = r
  OBVIOUS
<1> HIDE DEF q
<1>2. X86!EncodeX64(q) = Plain("FF", X86!RexR(r), g, r % 8, X86!None)
  BY <1>1 DEF X86!EncodeX64, X86!Encoding, X86!RegisterForm, Plain, Fields, X86!Emitted, X86!None
<1>3. X86!EncodeIa32(q) = Plain("FF", {}, g, r % 8, X86!None)
  <2>1. X86!EncodeIa32(q) = [X86!EncodeX64(q) EXCEPT !.rex = {}]
    BY <1>1 DEF X86!EncodeIa32
  <2> QED BY <1>2, <2>1, PlainWithoutRex
<1> DEFINE x == IF isa = "x64" THEN X86!RexR(r) ELSE {}
<1>4. Emits(isa, q) = Plain("FF", x, g, r % 8, X86!None)
  BY <1>2, <1>3 DEF Emits
<1>5. "B" \notin x
  BY RexIs
<1> HIDE DEF x
<1>6. X86!Meaning(isa = "x64", q) = IF r > 7 THEN <<"garbled">> ELSE <<"call_r", r % 8>>
  <2>1. CASE r > 7
    <3> DEFINE e == Plain("FF", x, 3, r % 8, X86!None)
    <3>1. X86!Meaning(isa = "x64", q) = X86!Decode(e)
      BY <1>4, <2>1 DEF X86!Meaning, Emits
    <3>2. e.op = "FF" /\ e.reg = 3
      BY DEF Plain, Fields
    <3> HIDE DEF e
    <3>3. X86!Decode(e) = <<"garbled">>
      BY <3>2 DEF X86!Decode, X86!Garbled
    <3> QED BY <2>1, <3>1, <3>3
  <2>2. CASE ~(r > 7)
    BY <1>4, <1>5, <2>2 DEF X86!Meaning, Emits, X86!Decode, X86!ImmSize, Plain, Fields, X86!None, X86!Rm
  <2> QED BY <2>1, <2>2
<1>7. X86!Misencoded(isa = "x64", q) <=> r > 7
  BY <1>1 DEF X86!Misencoded
<1>8. r <= 7 => r % 8 = r
  OBVIOUS
<1> QED BY <1>6, <1>7, <1>8 DEF X86Right, q

(* push and pop, which set REX.B.                                          *)
LEMMA X86Stack ==
  ASSUME NEW isa, NEW m \in {"push", "pop"}, NEW r \in 0 .. 15, isa # "x64" => r < 8
  PROVE  X86Right(isa, <<m, r>>)
<1> DEFINE q == <<m, r>>
           o == IF m = "push" THEN "50" ELSE "58"
<1>1. q[1] = m /\ q[2] = r
  OBVIOUS
<1> HIDE DEF q
<1>2. X86!EncodeX64(q) = Plain(o, X86!RexRB(r), 0, r % 8, X86!None)
  <2>1. CASE m = "push"
    BY <1>1, <2>1 DEF X86!EncodeX64, X86!Encoding, X86!NoForm, Plain, Fields, X86!Emitted, X86!None
  <2>2. CASE m = "pop"
    BY <1>1, <2>2 DEF X86!EncodeX64, X86!Encoding, X86!NoForm, Plain, Fields, X86!Emitted, X86!None
  <2> QED BY <2>1, <2>2
<1>3. X86!EncodeIa32(q) = Plain(o, {}, 0, r % 8, X86!None)
  <2>1. X86!EncodeIa32(q) = [X86!EncodeX64(q) EXCEPT !.rex = {}]
    BY <1>1 DEF X86!EncodeIa32
  <2> QED BY <1>2, <2>1, PlainWithoutRex
<1> DEFINE x == IF isa = "x64" THEN X86!RexRB(r) ELSE {}
<1>4. Emits(isa, q) = Plain(o, x, 0, r % 8, X86!None)
  BY <1>2, <1>3 DEF Emits
<1>5. "B" \in x <=> r > 7
  BY RexIs
<1>6. r = (r % 8) + (IF r > 7 THEN 8 ELSE 0)
  OBVIOUS
<1> HIDE DEF x
<1>7. X86!Meaning(isa = "x64", q) = <<m, (r % 8) + (IF r > 7 THEN 8 ELSE 0)>>
  BY <1>4, <1>5 DEF X86!Meaning, Emits, X86!Decode, X86!ImmSize, Plain, Fields, X86!None, X86!Rm
<1>8. ~X86!Misencoded(isa = "x64", q)
  BY <1>1 DEF X86!Misencoded
<1> QED BY <1>6, <1>7, <1>8 DEF X86Right, q

(* call of a distance: four bytes of it.                                   *)
LEMMA X86CallImmediate ==
  ASSUME NEW isa, NEW n \in ImmSizes, NEW v
  PROVE  X86Right(isa, <<"call_i", n, v>>)
<1> DEFINE q == <<"call_i", n, v>>
           i == X86!Emitted(<<n, v>>)
           e == Plain("E8", {}, 0, 0, i)
<1>1. q[1] = "call_i" /\ q[2] = n /\ q[3] = v
  OBVIOUS
<1> HIDE DEF q
<1>2. X86!EncodeX64(q) = e
  BY <1>1 DEF X86!EncodeX64, X86!Encoding, X86!NoForm, X86!None, Plain, Fields
<1>3. X86!EncodeIa32(q) = e
  <2>1. X86!EncodeIa32(q) = [X86!EncodeX64(q) EXCEPT !.rex = {}]
    BY <1>1 DEF X86!EncodeIa32
  <2>2. [Plain("E8", {}, 0, 0, i) EXCEPT !.rex = {}] = Plain("E8", {}, 0, 0, i)
    BY PlainWithoutRex
  <2> QED BY <1>2, <2>1, <2>2, Zenon
<1>4. X86!Meaning(isa = "x64", q) = X86!Decode(e)
  BY <1>2, <1>3 DEF X86!Meaning
<1>5. i[1] = n /\ (n # 8 => i = <<n, v>>)
  BY EmittedIs
<1> HIDE DEF i
<1>6. X86!Decode(e) = IF n # 32 THEN <<"garbled">> ELSE <<"call_i", i[1], i[2]>>
  BY <1>5 DEF X86!Decode, X86!ImmSize, X86!Garbled, Plain, Fields
<1>7. X86!Misencoded(isa = "x64", q) <=> n # 32
  BY <1>1 DEF X86!Misencoded
<1>8. n = 32 => i[1] = n /\ i[2] = v
  BY <1>5
<1> QED BY <1>4, <1>6, <1>7, <1>8 DEF X86Right, q

(* The lower half of what stands for no register is not that of rsp.       *)
LEMMA NoRegIs == X86!NoReg \in Int /\ -2 < X86!NoReg /\ X86!NoReg < 0 /\ X86!NoReg % 8 = 7
<1>1. X86!NoReg \in Int /\ -2 < X86!NoReg /\ X86!NoReg < 0
  BY DEF X86!NoReg
<1>2. \A n \in Int : -2 < n /\ n < 0 => n % 8 = 7
  OBVIOUS
<1> QED BY <1>1, <1>2

(* What of a memory operand may be asked for.                              *)
Operand(isa, b, i, s, d) ==
  /\ b \in Int /\ i \in Int /\ s \in Int /\ d \in Int
  /\ X86!NoReg <= b /\ b < 16 /\ X86!NoReg <= i /\ i < 16 /\ i # 4
  /\ i = X86!NoReg => s = 0 /\ b # X86!NoReg
  /\ isa # "x64" => b < 8 /\ i < 8

(* The operand Address encodes is the one asked for, once REX names the    *)
(* upper half of the registers as it does.                                 *)
LEMMA X86Operand ==
  ASSUME NEW isa, NEW b, NEW i, NEW s, NEW d, Operand(isa, b, i, s, d),
         NEW a, a = X86!Address(b, i, s, d),
         NEW e, e.mod = a.mod, e.rm = a.rm, e.sib = a.sib, e.disp = a.disp,
         "X" \in e.rex => i > 7
  PROVE  /\ e.mod # 3 /\ e.disp[1] = X86!DispSize(e)
         /\ X86!Memory(e) =
              <<IF b = X86!NoReg THEN X86!NoReg ELSE (b % 8) + (IF "B" \in e.rex THEN 8 ELSE 0),
                IF i = X86!NoReg \/ (i = 12 /\ "X" \notin e.rex) THEN X86!NoReg
                ELSE (i % 8) + (IF "X" \in e.rex THEN 8 ELSE 0), s, d>>
<1>0. /\ b \in Int /\ i \in Int /\ s \in Int /\ d \in Int
      /\ X86!NoReg <= b /\ b < 16 /\ X86!NoReg <= i /\ i < 16 /\ i # 4
      /\ i = X86!NoReg => s = 0 /\ b # X86!NoReg
  BY DEF Operand
<1> USE <1>0
<1> DEFINE md == IF b = X86!NoReg THEN 0 ELSE X86!DispMode(b, d)
           wide == i # X86!NoReg \/ b % 8 = 4
<1>1. /\ a.mod = md
      /\ a.rm = IF wide THEN 4 ELSE b % 8
      /\ a.sib = IF wide THEN <<s, IF i = X86!NoReg THEN 4 ELSE i % 8, IF b = X86!NoReg THEN 5 ELSE b % 8>>
                 ELSE <<>>
      /\ a.disp = IF b = X86!NoReg \/ md = 2 THEN <<32, d>> ELSE IF md = 1 THEN <<8, d>> ELSE <<0, 0>>
  BY DEF X86!Address, X86!None
<1>2. md \in {0, 1, 2} /\ (md = 0 => b = X86!NoReg \/ (d = 0 /\ b % 8 # 5)) /\ (b = X86!NoReg => wide)
  <2>1. md \in {0, 1, 2} /\ (md = 0 => b = X86!NoReg \/ (d = 0 /\ b % 8 # 5))
    BY DEF X86!DispMode
  <2>2. b = X86!NoReg => wide
    OBVIOUS
  <2> QED BY <2>1, <2>2
<1> DEFINE g == b % 8
           h == i % 8
<1>3. g \in 0 .. 7 /\ h \in 0 .. 7 /\ (h = 4 => i = 12) /\ (i = 12 => h = 4)
  BY NoRegIs
<1> HIDE DEF md, g, h
<1>4. CASE wide
  <2>1. /\ e.mod = md /\ e.rm = 4
        /\ e.sib # <<>> /\ e.sib[1] = s
        /\ e.sib[2] = IF i = X86!NoReg THEN 4 ELSE h
        /\ e.sib[3] = IF b = X86!NoReg THEN 5 ELSE g
    BY <1>1, <1>4 DEF g, h
  <2>2. e.disp[2] = d /\ e.disp[1] = IF b = X86!NoReg \/ md = 2 THEN 32 ELSE IF md = 1 THEN 8 ELSE 0
    BY <1>1, <1>2
  <2> HIDE DEF wide
  <2>3. e.disp[1] = X86!DispSize(e)
    <3>1. CASE md = 0
      <4>1. b = X86!NoReg \/ g # 5
        BY <1>2, <3>1 DEF g
      <4> QED BY <2>1, <2>2, <3>1, <4>1 DEF X86!DispSize
    <3>2. CASE md = 1
      <4>1. b # X86!NoReg
        BY <3>2 DEF md
      <4> QED BY <2>1, <2>2, <3>2, <4>1 DEF X86!DispSize
    <3>3. CASE md = 2
      BY <2>1, <2>2, <3>3 DEF X86!DispSize
    <3> QED BY <1>2, <3>1, <3>2, <3>3
  <2>4. (e.mod = 0 /\ e.sib[3] = 5) <=> b = X86!NoReg
    <3>1. b = X86!NoReg => md = 0
      BY DEF md
    <3>2. md = 0 /\ b # X86!NoReg => g # 5
      BY <1>2 DEF g
    <3> QED BY <2>1, <3>1, <3>2
  <2>5. (e.sib[2] = 4 /\ "X" \notin e.rex) <=> (i = X86!NoReg \/ (i = 12 /\ "X" \notin e.rex))
    BY <1>3, <2>1, NoRegIs
  <2>6. /\ X86!Memory(e)[1] = IF b = X86!NoReg THEN X86!NoReg ELSE g + (IF "B" \in e.rex THEN 8 ELSE 0)
    BY <2>1, <2>4 DEF X86!Memory
  <2> QED BY <1>2, <1>3, <2>1, <2>2, <2>3, <2>4, <2>5 DEF X86!Memory, g, h
<1>5. CASE ~wide
  <2>1. i = X86!NoReg /\ b # X86!NoReg /\ s = 0 /\ g # 4 /\ "X" \notin e.rex
    BY <1>2, <1>5, NoRegIs DEF g
  <2>2. e.mod = md /\ e.rm = g /\ e.sib = <<>>
    BY <1>1, <1>5 DEF g
  <2>3. e.disp[2] = d /\ e.disp[1] = IF md = 2 THEN 32 ELSE IF md = 1 THEN 8 ELSE 0
    BY <1>1, <1>2, <2>1
  <2> HIDE DEF wide
  <2>4. e.disp[1] = X86!DispSize(e)
    <3>1. CASE md = 0
      <4>1. g # 5
        BY <1>2, <2>1, <3>1 DEF g
      <4> QED BY <2>2, <2>3, <3>1, <4>1 DEF X86!DispSize
    <3>2. CASE md = 1
      BY <2>2, <2>3, <3>2 DEF X86!DispSize
    <3>3. CASE md = 2
      BY <2>2, <2>3, <3>3 DEF X86!DispSize
    <3> QED BY <1>2, <3>1, <3>2, <3>3
  <2> QED BY <1>2, <1>3, <2>1, <2>2, <2>3, <2>4 DEF X86!Memory, g
<1> QED BY <1>4, <1>5

(* A method with a memory operand.                                         *)
MemoryMethod(op, x, r, b, i, s, d) ==
  LET a == X86!Address(b, i, s, d)
  IN  Fields(op, x, a.mod, r % 8, a.rm, a.sib, a.disp, X86!None)

(* A request with four or five operands in ia32's form.                    *)
LEMMA TailOf6 ==
  ASSUME NEW m, NEW r, NEW b, NEW i, NEW s, NEW d, NEW t, t = SubSeq(<<m, r, b, i, s, d>>, 3, 6)
  PROVE  t[1] = b /\ t[2] = i /\ t[3] = s /\ t[4] = d
OBVIOUS

(* The same for call, which has no register.                               *)
LEMMA TailOf5 ==
  ASSUME NEW m, NEW b, NEW i, NEW s, NEW d, NEW t, t = SubSeq(<<m, b, i, s, d>>, 2, 5)
  PROVE  t[1] = b /\ t[2] = i /\ t[3] = s /\ t[4] = d
OBVIOUS

(* ia32's methods with a memory operand, which drop the operand's REX.     *)
LEMMA MemoryIa32 ==
  ASSUME NEW op, NEW r, NEW t
  PROVE  X86!MemoryMethodIa32(op, r, t) = MemoryMethod(op, {}, r, t[1], t[2], t[3], t[4])
<1> DEFINE a == X86!Address(t[1], t[2], t[3], t[4])
           z == X86!AddressIa32(t[1], t[2], t[3], t[4])
<1>1. z.mod = a.mod /\ z.rm = a.rm /\ z.sib = a.sib /\ z.disp = a.disp
  BY DEF X86!AddressIa32, X86!Address
<1>2. X86!MemoryMethodIa32(op, r, t) = X86!Encoding(op, {}, X86!MemoryForm(r, z), X86!None)
  BY DEF X86!MemoryMethodIa32
<1> HIDE DEF a, z
<1>3. X86!Encoding(op, {}, X86!MemoryForm(r, z), X86!None)
        = Fields(op, {}, a.mod, r % 8, a.rm, a.sib, a.disp, X86!None)
  BY <1>1 DEF X86!Encoding, X86!MemoryForm, X86!Emitted, X86!None, Fields
<1> QED BY <1>2, <1>3 DEF MemoryMethod, a

(* x64's methods with a memory operand.                                    *)
LEMMA MemoryX64 ==
  ASSUME NEW op, NEW x, NEW r, NEW b, NEW i, NEW s, NEW d, NEW a, a = X86!Address(b, i, s, d)
  PROVE  X86!Encoding(op, x, X86!MemoryForm(r, a), X86!None) = MemoryMethod(op, x, r, b, i, s, d)
BY DEF X86!Encoding, X86!MemoryForm, X86!Emitted, X86!None, Fields, MemoryMethod

(* The processor finds the operand.                                        *)
LEMMA MemoryFound ==
  ASSUME NEW isa, NEW b, NEW i, NEW s, NEW d, Operand(isa, b, i, s, d), NEW op, NEW x, NEW r \in Int,
         "X" \in x => i > 7,
         NEW e, e = MemoryMethod(op, x, r, b, i, s, d)
  PROVE  /\ e.op = op /\ e.rex = x /\ e.reg = r % 8 /\ e.imm[1] = 0
         /\ e.mod # 3 /\ e.disp[1] = X86!DispSize(e)
         /\ X86!Memory(e) =
              <<IF b = X86!NoReg THEN X86!NoReg ELSE (b % 8) + (IF "B" \in x THEN 8 ELSE 0),
                IF i = X86!NoReg \/ (i = 12 /\ "X" \notin x) THEN X86!NoReg
                ELSE (i % 8) + (IF "X" \in x THEN 8 ELSE 0), s, d>>
<1>1. PICK a : a = X86!Address(b, i, s, d)
  OBVIOUS
<1>2. /\ e.op = op /\ e.rex = x /\ e.reg = r % 8 /\ e.imm[1] = 0
      /\ e.mod = a.mod /\ e.rm = a.rm /\ e.sib = a.sib /\ e.disp = a.disp
  BY <1>1 DEF MemoryMethod, Fields, X86!None
<1>4. "X" \in e.rex => i > 7
  BY <1>2
<1>5. /\ e.mod # 3 /\ e.disp[1] = X86!DispSize(e)
      /\ X86!Memory(e) =
           <<IF b = X86!NoReg THEN X86!NoReg ELSE (b % 8) + (IF "B" \in e.rex THEN 8 ELSE 0),
             IF i = X86!NoReg \/ (i = 12 /\ "X" \notin e.rex) THEN X86!NoReg
             ELSE (i % 8) + (IF "X" \in e.rex THEN 8 ELSE 0), s, d>>
  BY <1>1, <1>2, <1>4, X86Operand
<1> QED BY <1>2, <1>5

(* The bits of REX an operand asks for.                                    *)
LEMMA OperandRex ==
  ASSUME NEW isa, NEW b, NEW i, NEW s, NEW d, Operand(isa, b, i, s, d), NEW a, a = X86!Address(b, i, s, d)
  PROVE  /\ "B" \in a.rex <=> b > 7
         /\ "X" \in a.rex <=> i > 7
         /\ "W" \notin a.rex /\ "R" \notin a.rex
BY NoRegIs DEF Operand, X86!Address

(* The operand found is the one asked for when REX.B and REX.X say so.     *)
LEMMA OperandKept ==
  ASSUME NEW isa, NEW b, NEW i, NEW s, NEW d, Operand(isa, b, i, s, d), NEW x,
         "B" \in x <=> b > 7, "X" \in x <=> i > 7
  PROVE  /\ (IF b = X86!NoReg THEN X86!NoReg ELSE (b % 8) + (IF "B" \in x THEN 8 ELSE 0)) = b
         /\ (IF i = X86!NoReg \/ (i = 12 /\ "X" \notin x) THEN X86!NoReg
             ELSE (i % 8) + (IF "X" \in x THEN 8 ELSE 0)) = i
<1>1. b \in Int /\ i \in Int /\ X86!NoReg <= b /\ b < 16 /\ X86!NoReg <= i /\ i < 16
  BY DEF Operand
<1>2. ASSUME NEW n \in Int, X86!NoReg <= n, n < 16, n # X86!NoReg
      PROVE  (n % 8) + (IF n > 7 THEN 8 ELSE 0) = n
  BY <1>2, NoRegIs
<1>3. b # X86!NoReg => (b % 8) + (IF "B" \in x THEN 8 ELSE 0) = b
  BY <1>1, <1>2
<1>4. i # X86!NoReg => (i % 8) + (IF "X" \in x THEN 8 ELSE 0) = i
  BY <1>1, <1>2
<1> QED BY <1>3, <1>4

(* mov to memory merges the operand's REX into its own.                    *)
LEMMA X86Store ==
  ASSUME NEW isa, NEW r \in 0 .. 15, isa # "x64" => r < 8,
         NEW b, NEW i, NEW s, NEW d, Operand(isa, b, i, s, d)
  PROVE  X86Right(isa, <<"mov_mr", r, b, i, s, d>>)
<1> DEFINE q == <<"mov_mr", r, b, i, s, d>>
           a == X86!Address(b, i, s, d)
           x == IF isa = "x64" THEN X86!RexR(r) \cup a.rex ELSE {}
           e == MemoryMethod("89", x, r, b, i, s, d)
<1>1. q[1] = "mov_mr" /\ q[2] = r /\ q[3] = b /\ q[4] = i /\ q[5] = s /\ q[6] = d
  OBVIOUS
<1>2. PICK t : t = SubSeq(q, 3, 6)
  OBVIOUS
<1>3. t[1] = b /\ t[2] = i /\ t[3] = s /\ t[4] = d
  BY <1>2, TailOf6
<1> HIDE DEF q
<1>4. X86!EncodeX64(q) = MemoryMethod("89", X86!RexR(r) \cup a.rex, r, b, i, s, d)
  <2>1. X86!EncodeX64(q) = X86!Encoding("89", X86!RexR(r) \cup a.rex, X86!MemoryForm(r, a), X86!None)
    BY <1>1 DEF X86!EncodeX64
  <2> QED BY <2>1, MemoryX64
<1>5. X86!EncodeIa32(q) = MemoryMethod("89", {}, r, b, i, s, d)
  <2>1. X86!EncodeIa32(q) = X86!MemoryMethodIa32("89", r, t)
    BY <1>1, <1>2 DEF X86!EncodeIa32
  <2> QED BY <1>3, <2>1, MemoryIa32
<1>6. X86!Meaning(isa = "x64", q) = X86!Decode(e)
  BY <1>4, <1>5 DEF X86!Meaning
<1>7. /\ "B" \in x <=> b > 7
      /\ "X" \in x <=> i > 7
      /\ "R" \in x <=> r > 7
  <2>1. r \in Int
    OBVIOUS
  <2>2. isa # "x64" => r < 8 /\ b < 8 /\ i < 8 /\ b \in Int /\ i \in Int
    BY DEF Operand
  <2> QED BY <2>1, <2>2, OperandRex, RexIs
<1> HIDE DEF x, e
<1>8. /\ e.op = "89" /\ e.rex = x /\ e.reg = r % 8 /\ e.imm[1] = 0
      /\ e.mod # 3 /\ e.disp[1] = X86!DispSize(e)
      /\ X86!Memory(e) = <<b, i, s, d>>
  <2>1. r \in Int /\ ("X" \in x => i > 7) /\ e = MemoryMethod("89", x, r, b, i, s, d)
    BY <1>7 DEF e
  <2>2. /\ e.op = "89" /\ e.rex = x /\ e.reg = r % 8 /\ e.imm[1] = 0
        /\ e.mod # 3 /\ e.disp[1] = X86!DispSize(e)
        /\ X86!Memory(e) =
             <<IF b = X86!NoReg THEN X86!NoReg ELSE (b % 8) + (IF "B" \in x THEN 8 ELSE 0),
               IF i = X86!NoReg \/ (i = 12 /\ "X" \notin x) THEN X86!NoReg
               ELSE (i % 8) + (IF "X" \in x THEN 8 ELSE 0), s, d>>
    BY <2>1, MemoryFound
  <2> QED BY <1>7, <2>2, OperandKept
<1>9. X86!Decode(e) = <<"mov_mr", X86!Reg(e)>> \o X86!Memory(e)
  BY <1>8 DEF X86!Decode, X86!ImmSize
<1>10. X86!Reg(e) = r
  BY <1>7, <1>8 DEF X86!Reg
<1>11. X86!Meaning(isa = "x64", q) = q
  BY <1>6, <1>8, <1>9, <1>10, Join24 DEF q
<1>12. ~X86!Misencoded(isa = "x64", q)
  BY <1>1 DEF X86!Misencoded
<1>13. X86Right(isa, q)
  BY <1>11, <1>12 DEF X86Right
<1> QED BY <1>13 DEF q

(* call through memory has no REX but the operand's.                       *)
LEMMA X86CallMemory ==
  ASSUME NEW isa, NEW b, NEW i, NEW s, NEW d, Operand(isa, b, i, s, d)
  PROVE  X86Right(isa, <<"call_m", b, i, s, d>>)
<1> DEFINE q == <<"call_m", b, i, s, d>>
           a == X86!Address(b, i, s, d)
           x == IF isa = "x64" THEN a.rex ELSE {}
           e == MemoryMethod("FF", x, 2, b, i, s, d)
<1>1. q[1] = "call_m" /\ q[2] = b /\ q[3] = i /\ q[4] = s /\ q[5] = d
  OBVIOUS
<1>2. PICK t : t = SubSeq(q, 2, 5)
  OBVIOUS
<1>3. t[1] = b /\ t[2] = i /\ t[3] = s /\ t[4] = d
  BY <1>2, TailOf5
<1> HIDE DEF q
<1>4. X86!EncodeX64(q) = MemoryMethod("FF", a.rex, 2, b, i, s, d)
  <2>1. X86!EncodeX64(q) = X86!Encoding("FF", a.rex, X86!MemoryForm(2, a), X86!None)
    BY <1>1 DEF X86!EncodeX64
  <2> QED BY <2>1, MemoryX64
<1>5. X86!EncodeIa32(q) = MemoryMethod("FF", {}, 2, b, i, s, d)
  <2>1. X86!EncodeIa32(q) = X86!MemoryMethodIa32("FF", 2, t)
    BY <1>1, <1>2 DEF X86!EncodeIa32
  <2> QED BY <1>3, <2>1, MemoryIa32
<1>6. X86!Meaning(isa = "x64", q) = X86!Decode(e)
  BY <1>4, <1>5 DEF X86!Meaning
<1>7. /\ "B" \in x <=> b > 7
      /\ "X" \in x <=> i > 7
  <2>1. isa # "x64" => b < 8 /\ i < 8 /\ b \in Int /\ i \in Int
    BY DEF Operand
  <2> QED BY <2>1, OperandRex
<1> HIDE DEF x, e
<1>8. /\ e.op = "FF" /\ e.reg = 2 /\ e.imm[1] = 0
      /\ e.mod # 3 /\ e.disp[1] = X86!DispSize(e)
      /\ X86!Memory(e) = <<b, i, s, d>>
  <2>1. 2 \in Int /\ 2 % 8 = 2 /\ ("X" \in x => i > 7) /\ e = MemoryMethod("FF", x, 2, b, i, s, d)
    BY <1>7 DEF e
  <2>2. /\ e.op = "FF" /\ e.rex = x /\ e.reg = 2 % 8 /\ e.imm[1] = 0
        /\ e.mod # 3 /\ e.disp[1] = X86!DispSize(e)
        /\ X86!Memory(e) =
             <<IF b = X86!NoReg THEN X86!NoReg ELSE (b % 8) + (IF "B" \in x THEN 8 ELSE 0),
               IF i = X86!NoReg \/ (i = 12 /\ "X" \notin x) THEN X86!NoReg
               ELSE (i % 8) + (IF "X" \in x THEN 8 ELSE 0), s, d>>
    BY <2>1, MemoryFound
  <2> QED BY <1>7, <2>1, <2>2, OperandKept
<1>9. X86!Decode(e) = <<"call_m">> \o X86!Memory(e)
  BY <1>8 DEF X86!Decode, X86!ImmSize
<1>10. X86!Meaning(isa = "x64", q) = q
  BY <1>6, <1>8, <1>9, Join14 DEF q
<1>11. ~X86!Misencoded(isa = "x64", q)
  BY <1>1 DEF X86!Misencoded
<1>12. X86Right(isa, q)
  BY <1>10, <1>11 DEF X86Right
<1> QED BY <1>12 DEF q

(* mov from memory sends nothing but W and R of REX.                       *)
LEMMA X86Load ==
  ASSUME NEW isa, NEW r \in 0 .. 15, isa # "x64" => r < 8,
         NEW b, NEW i, NEW s, NEW d, Operand(isa, b, i, s, d)
  PROVE  X86Right(isa, <<"mov_rm", r, b, i, s, d>>)
<1> DEFINE q == <<"mov_rm", r, b, i, s, d>>
           a == X86!Address(b, i, s, d)
           x == IF isa = "x64" THEN X86!RexR(r) ELSE {}
           e == MemoryMethod("8B", x, r, b, i, s, d)
           b8 == IF b = X86!NoReg THEN X86!NoReg ELSE b % 8
           i8 == IF i = X86!NoReg \/ i = 12 THEN X86!NoReg ELSE i % 8
<1>1. q[1] = "mov_rm" /\ q[2] = r /\ q[3] = b /\ q[4] = i /\ q[5] = s /\ q[6] = d
  OBVIOUS
<1>2. PICK t : t = SubSeq(q, 3, 6)
  OBVIOUS
<1>3. t[1] = b /\ t[2] = i /\ t[3] = s /\ t[4] = d
  BY <1>2, TailOf6
<1> HIDE DEF q
<1>4. X86!EncodeX64(q) = MemoryMethod("8B", X86!RexR(r), r, b, i, s, d)
  <2>1. X86!EncodeX64(q) = X86!Encoding("8B", X86!RexR(r), X86!MemoryForm(r, a), X86!None)
    BY <1>1 DEF X86!EncodeX64
  <2> QED BY <2>1, MemoryX64
<1>5. X86!EncodeIa32(q) = MemoryMethod("8B", {}, r, b, i, s, d)
  <2>1. X86!EncodeIa32(q) = X86!MemoryMethodIa32("8B", r, t)
    BY <1>1, <1>2 DEF X86!EncodeIa32
  <2> QED BY <1>3, <2>1, MemoryIa32
<1>6. X86!Meaning(isa = "x64", q) = X86!Decode(e)
  BY <1>4, <1>5 DEF X86!Meaning
<1>7. /\ "B" \notin x /\ "X" \notin x
      /\ "R" \in x <=> r > 7
  <2>1. r \in Int
    OBVIOUS
  <2> QED BY <2>1, RexIs
<1>8. /\ b \in Int /\ i \in Int /\ X86!NoReg <= b /\ b < 16 /\ X86!NoReg <= i /\ i < 16
  BY DEF Operand
<1>9. b8 \in Int /\ i8 \in Int /\ (b8 = b <=> b <= 7) /\ (i8 = i <=> i <= 7)
  BY <1>8, NoRegIs
<1> HIDE DEF x, e
<1>10. /\ e.op = "8B" /\ e.rex = x /\ e.reg = r % 8 /\ e.imm[1] = 0
       /\ e.mod # 3 /\ e.disp[1] = X86!DispSize(e)
       /\ X86!Memory(e) = <<b8, i8, s, d>>
  <2>1. r \in Int /\ ("X" \in x => i > 7) /\ e = MemoryMethod("8B", x, r, b, i, s, d)
    BY <1>7 DEF e
  <2>2. /\ e.op = "8B" /\ e.rex = x /\ e.reg = r % 8 /\ e.imm[1] = 0
        /\ e.mod # 3 /\ e.disp[1] = X86!DispSize(e)
        /\ X86!Memory(e) =
             <<IF b = X86!NoReg THEN X86!NoReg ELSE (b % 8) + (IF "B" \in x THEN 8 ELSE 0),
               IF i = X86!NoReg \/ (i = 12 /\ "X" \notin x) THEN X86!NoReg
               ELSE (i % 8) + (IF "X" \in x THEN 8 ELSE 0), s, d>>
    BY <2>1, MemoryFound
  <2>3. /\ (IF b = X86!NoReg THEN X86!NoReg ELSE (b % 8) + (IF "B" \in x THEN 8 ELSE 0)) = b8
        /\ (IF i = X86!NoReg \/ (i = 12 /\ "X" \notin x) THEN X86!NoReg
            ELSE (i % 8) + (IF "X" \in x THEN 8 ELSE 0)) = i8
    BY <1>7, <1>8
  <2> QED BY <2>2, <2>3
<1> HIDE DEF b8, i8
<1>11. X86!Decode(e) = <<"mov_rm", X86!Reg(e)>> \o X86!Memory(e)
  BY <1>10 DEF X86!Decode, X86!ImmSize
<1>12. X86!Reg(e) = r
  BY <1>7, <1>10 DEF X86!Reg
<1>13. X86!Meaning(isa = "x64", q) = <<"mov_rm", r, b8, i8, s, d>>
  BY <1>6, <1>10, <1>11, <1>12, Join24
<1>14. X86!Misencoded(isa = "x64", q) <=> b > 7 \/ i > 7
  BY <1>1 DEF X86!Misencoded
<1>15. <<"mov_rm", r, b8, i8, s, d>> = q <=> b8 = b /\ i8 = i
  BY DEF q
<1>16. X86Right(isa, q)
  BY <1>8, <1>9, <1>13, <1>14, <1>15 DEF X86Right
<1> QED BY <1>16 DEF q

(* Every request on x64 and ia32.                                          *)
LEMMA X86Requests ==
  ASSUME NEW isa, NEW Regs \in SUBSET (0 .. 15), NEW Disps \in SUBSET Int, NEW Imms,
         isa # "x64" => \A r \in Regs : r < 8,
         \A i \in Imms : i[1] \in ImmSizes /\ i = <<i[1], i[2]>>,
         NEW q \in X86!Requests(Regs, Disps, Imms)
  PROVE  X86Right(isa, q)
<1> DEFINE Plainly == {<<b, X86!NoReg, 0, d>> : b \in Regs, d \in Disps}
           Indexed == {<<b, i, 2, d>> : b \in Regs \cup {X86!NoReg}, i \in Regs \ {4}, d \in Disps}
           Mems == Plainly \cup Indexed
           WithImm(m, r, i) == <<m, r>> \o i
           WithMem(m, r, a) == <<m, r>> \o a
           CallMem(a) == <<"call_m">> \o a
           CallImm(i) == <<"call_i">> \o i
           A == {WithImm(m, r, i) : m \in {"sub_ri", "add_ri", "mov_ri"}, r \in Regs, i \in Imms}
           B == {<<"mov_rr", r, s>> : r \in Regs, s \in Regs}
           C == {WithMem(m, r, a) : m \in {"mov_rm", "mov_mr"}, r \in Regs, a \in Mems}
           D == {CallMem(a) : a \in Mems}
           E == {<<m, r>> : m \in {"call_r", "push", "pop"}, r \in Regs}
           F == {CallImm(i) : i \in Imms}
<1>1. X86!Requests(Regs, Disps, Imms) = A \cup B \cup C \cup D \cup E \cup F
  BY DEF X86!Requests
<1> HIDE DEF WithImm, WithMem, CallMem, CallImm, A, B, C, D, E, F, Mems
<1>2. ASSUME NEW r \in Regs PROVE r \in 0 .. 15 /\ (isa # "x64" => r < 8)
  OBVIOUS
<1>3. ASSUME NEW a \in Mems
      PROVE  \E b, i, s, d : a = <<b, i, s, d>> /\ Operand(isa, b, i, s, d)
  <2>1. CASE a \in Plainly
    <3>1. PICK b \in Regs, d \in Disps : a = <<b, X86!NoReg, 0, d>>
      BY <2>1
    <3>2. b \in 0 .. 15 /\ (isa # "x64" => b < 8) /\ d \in Int
      BY <1>2
    <3>3. Operand(isa, b, X86!NoReg, 0, d)
      BY <3>2, NoRegIs DEF Operand
    <3> QED BY <3>1, <3>3
  <2>2. CASE a \in Indexed
    <3>1. PICK b \in Regs \cup {X86!NoReg}, i \in Regs \ {4}, d \in Disps : a = <<b, i, 2, d>>
      BY <2>2
    <3>2. /\ i \in 0 .. 15 /\ i # 4 /\ (isa # "x64" => i < 8) /\ d \in Int
          /\ b = X86!NoReg \/ (b \in 0 .. 15 /\ (isa # "x64" => b < 8))
      BY <1>2
    <3>3. Operand(isa, b, i, 2, d)
      BY <3>2, NoRegIs DEF Operand
    <3> QED BY <3>1, <3>3
  <2> QED BY <2>1, <2>2 DEF Mems
<1>4. ASSUME q \in A PROVE X86Right(isa, q)
  <2>1. PICK m \in {"sub_ri", "add_ri", "mov_ri"}, r \in Regs, i \in Imms : q = WithImm(m, r, i)
    BY <1>4 DEF A
  <2>2. i[1] \in ImmSizes /\ i = <<i[1], i[2]>> /\ r \in 0 .. 15 /\ (isa # "x64" => r < 8)
    BY <1>2
  <2>3. <<m, r>> \o <<i[1], i[2]>> = <<m, r, i[1], i[2]>>
    BY Join22
  <2>4. X86Right(isa, <<m, r, i[1], i[2]>>)
    BY <2>2, X86Immediate
  <2> QED BY <2>1, <2>2, <2>3, <2>4 DEF WithImm
<1>5. ASSUME q \in B PROVE X86Right(isa, q)
  <2>1. PICK r \in Regs, s \in Regs : q = <<"mov_rr", r, s>>
    BY <1>5 DEF B
  <2>2. X86Right(isa, <<"mov_rr", r, s>>)
    BY <1>2, X86MoveRegister
  <2> QED BY <2>1, <2>2
<1>6. ASSUME q \in C PROVE X86Right(isa, q)
  <2>1. PICK m \in {"mov_rm", "mov_mr"}, r \in Regs, a \in Mems : q = WithMem(m, r, a)
    BY <1>6 DEF C
  <2>2. PICK b, i, s, d : a = <<b, i, s, d>> /\ Operand(isa, b, i, s, d)
    BY <1>3
  <2>3. q = <<m, r, b, i, s, d>>
    BY <2>1, <2>2, Join24 DEF WithMem
  <2>4. r \in 0 .. 15 /\ (isa # "x64" => r < 8)
    BY <1>2
  <2>5. X86Right(isa, <<"mov_rm", r, b, i, s, d>>)
    BY <2>2, <2>4, X86Load
  <2>6. X86Right(isa, <<"mov_mr", r, b, i, s, d>>)
    BY <2>2, <2>4, X86Store
  <2> QED BY <2>1, <2>3, <2>5, <2>6
<1>7. ASSUME q \in D PROVE X86Right(isa, q)
  <2>1. PICK a \in Mems : q = CallMem(a)
    BY <1>7 DEF D
  <2>2. PICK b, i, s, d : a = <<b, i, s, d>> /\ Operand(isa, b, i, s, d)
    BY <1>3
  <2>3. q = <<"call_m", b, i, s, d>>
    BY <2>1, <2>2, Join14 DEF CallMem
  <2>4. X86Right(isa, <<"call_m", b, i, s, d>>)
    BY <2>2, X86CallMemory
  <2> QED BY <2>3, <2>4
<1>8. ASSUME q \in E PROVE X86Right(isa, q)
  <2>1. PICK m \in {"call_r", "push", "pop"}, r \in Regs : q = <<m, r>>
    BY <1>8 DEF E
  <2>2. r \in 0 .. 15 /\ (isa # "x64" => r < 8)
    BY <1>2
  <2>3. X86Right(isa, <<"call_r", r>>)
    BY <2>2, X86CallRegister
  <2>4. m \in {"push", "pop"} => X86Right(isa, <<m, r>>)
    BY <2>2, X86Stack
  <2> QED BY <2>1, <2>3, <2>4
<1>9. ASSUME q \in F PROVE X86Right(isa, q)
  <2>1. PICK i \in Imms : q = CallImm(i)
    BY <1>9 DEF F
  <2>2. i[1] \in ImmSizes /\ i = <<i[1], i[2]>>
    OBVIOUS
  <2>3. <<"call_i">> \o <<i[1], i[2]>> = <<"call_i", i[1], i[2]>>
    BY Join12
  <2>4. X86Right(isa, <<"call_i", i[1], i[2]>>)
    BY <2>2, X86CallImmediate
  <2> QED BY <2>1, <2>2, <2>3, <2>4 DEF CallImm
<1> QED BY <1>1, <1>4, <1>5, <1>6, <1>7, <1>8, <1>9

(* Every request of a session is encoded as asked for, unless it is one of *)
(* those listed as encoded wrongly, and those are.                         *)
LEMMA RequestRight ==
  ASSUME arch \in Archs, NEW q \in Requests
  PROVE  Meaning(q) = Asked(q) <=> ~Misencoded(q)
<1>1. Registers \cap 0 .. 15 \in SUBSET (0 .. 15) /\ Registers \cap 0 .. 7 \in SUBSET (0 .. 15)
      /\ Registers \in SUBSET (0 .. 15)
  BY AssemblerAssumption
<1>2. CASE arch = "arm"
  <2>1. {-4, 0, 52} \in SUBSET Int /\ q \in Arm!Requests(Registers \cap 0 .. 15, {-4, 0, 52})
    BY <1>2 DEF Requests
  <2>2. ArmRight(q)
    BY <1>1, <2>1, ArmRequests
  <2> QED BY <1>2, <2>2 DEF ArmRight, Meaning, Asked, Misencoded
<1>3. CASE arch = "thumb"
  BY <1>3 DEF Requests
<1>4. CASE arch = "arm64"
  <2> DEFINE Regs == {0, 1, 16, 31}
             Imms == {-16, 0, 32, 384, 4096, 40000}
  <2>1. q \in Arm64!Requests(Regs, Imms)
    BY <1>4, SMT DEF Requests
  <2>2. Regs \in SUBSET Int /\ Imms \in SUBSET Int
    BY SMT
  <2>3. \A i \in Imms : i % 16 = 0 /\ i % 8 = 0 /\ i % 4 = 0 /\ -33554432 <= i /\ i < 33554432
    BY SMT
  <2> HIDE DEF Regs, Imms
  <2>4. Arm64Right(q)
    BY <2>1, <2>2, <2>3, Arm64Requests, SMT
  <2> QED BY <1>4, <2>4, SMT DEF Arm64Right, Meaning, Asked, Misencoded
<1>5. CASE arch = "x64"
  <2> DEFINE Disps == {-4, 0, 8, 160}
             Imms == {<<32, 8>>, <<64, 8>>} \cup {X86!ImmediateX64(v) : v \in {8, 300, 70000}}
  <2>1. q \in X86!Requests(Registers, Disps, Imms)
    BY <1>5, SMT DEF Requests
  <2>2. Disps \in SUBSET Int
    BY SMT
  <2>3. \A i \in Imms : i[1] \in ImmSizes /\ i = <<i[1], i[2]>>
    BY SMT DEF X86!ImmediateX64, ImmSizes
  <2> HIDE DEF Disps, Imms
  <2>4. X86Right("x64", q)
    BY <1>1, <2>1, <2>2, <2>3, X86Requests
  <2> QED BY <1>5, <2>4 DEF X86Right, Meaning, Asked, Misencoded
<1>6. CASE arch = "ia32"
  <2> DEFINE Disps == {-4, 0, 8, 160}
             Regs == Registers \cap 0 .. 7
             Imms == {<<32, 8>>, X86!ImmediateIa32(8), X86!ImmediateIa32(70000)}
  <2>1. q \in X86!Requests(Regs, Disps, Imms)
    BY <1>6, SMT DEF Requests
  <2>2. Disps \in SUBSET Int /\ Regs \in SUBSET (0 .. 15) /\ \A r \in Regs : r < 8
    BY <1>1, SMT
  <2>3. \A i \in Imms : i[1] \in ImmSizes /\ i = <<i[1], i[2]>>
    BY SMT DEF X86!ImmediateIa32, ImmSizes
  <2> HIDE DEF Disps, Regs, Imms
  <2>4. X86Right("ia32", q)
    BY <2>1, <2>2, <2>3, X86Requests
  <2> QED BY <1>6, <2>4 DEF X86Right, Meaning, Asked, Misencoded
<1> QED BY <1>2, <1>3, <1>4, <1>5, <1>6 DEF Archs

(* Every request made of an assembler comes out as the caller meant it,    *)
(* for every register, offset, mode and condition asked for, except those  *)
(* listed with each assembler, which never do.                             *)
THEOREM RequestsEncoded == Spec => []EncodedAsAsked
<1> DEFINE Made == arch \in Archs /\ (asked = <<>> \/ asked \in Requests)
<1>1. Init => Made
  BY AssemblerAssumption DEF Init, Archs
<1>2. Made /\ [Next]_vars => Made'
  <2> SUFFICES ASSUME Made, [Next]_vars PROVE Made'
    OBVIOUS
  <2>1. arch' = arch /\ (asked' = asked \/ asked' \in Requests)
    BY DEF Next, EmitRequest, EmitFiller, Ldr, CallFunction, PseudoBind, RelocBind, vars
  <2>2. Requests' = Requests
    BY <2>1 DEF Requests
  <2> QED BY <2>1, <2>2
<1>3. Made => EncodedAsAsked
  BY RequestRight DEF EncodedAsAsked
<1> QED BY <1>1, <1>2, <1>3, PTL DEF Spec
=============================================================================
