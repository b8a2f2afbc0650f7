------------------------- MODULE DobbyMemoryProofs -------------------------
(***************************************************************************)
(* Proofs about DobbyMemory, for any number of threads, functions and      *)
(* pages, any sizes of the code and any layout of the library.             *)
(***************************************************************************)
EXTENDS DobbyMemory, FiniteSetTheorems, SequenceTheorems, WellFoundedInduction, TLAPS

-----------------------------------------------------------------------------
(* Numbers.                                                                *)

(* What a \div n is, for any n.                                            *)
LEMMA DivIs ==
  ASSUME NEW a \in Int, NEW n \in Nat \ {0}
  PROVE  a \div n \in Int /\ n * (a \div n) <= a /\ a < n * (a \div n) + n
  OBVIOUS

(* The only p whose multiples of n are around a.                           *)
LEMMA DivUnique ==
  ASSUME NEW n \in Nat \ {0}, NEW p \in Int, NEW a \in Int, p * n <= a, a < p * n + n
  PROVE  a \div n = p
  OBVIOUS

(* Division keeps the order.                                               *)
LEMMA DivMono ==
  ASSUME NEW n \in Nat \ {0}, NEW a \in Int, NEW b \in Int, a <= b
  PROVE  a \div n <= b \div n
  OBVIOUS

(* The page of a byte of page p is p.                                      *)
LEMMA PageIs ==
  ASSUME NEW p \in Nat, NEW a \in Nat, p * PageSize <= a, a < p * PageSize + PageSize
  PROVE  Page(a) = p
  BY MemoryAssumption, DivUnique DEF MemoryAssumption, Page

(* The page of an address is a number.                                     *)
LEMMA PageNat ==
  ASSUME NEW a \in Nat
  PROVE  Page(a) \in Nat /\ PageSize * Page(a) <= a /\ a < PageSize * Page(a) + PageSize
  <1>1. PageSize \in Nat \ {0}
    BY MemoryAssumption DEF MemoryAssumption
  <1>2. a \div PageSize \in Int /\ PageSize * (a \div PageSize) <= a
        /\ a < PageSize * (a \div PageSize) + PageSize
    BY <1>1, DivIs
  <1>3. 0 <= a \div PageSize
    BY <1>1
  <1> QED BY <1>2, <1>3 DEF Page

(* Two addresses on one page have everything between them on it.           *)
LEMMA PageBetween ==
  ASSUME NEW a \in Nat, NEW b \in Nat, NEW c \in Nat, a <= b, b <= c, Page(a) = Page(c)
  PROVE  Page(b) = Page(a)
  <1>1. PageSize \in Nat \ {0}
    BY MemoryAssumption DEF MemoryAssumption
  <1>2. Page(a) <= Page(b) /\ Page(b) <= Page(c)
    BY <1>1, DivMono DEF Page
  <1> QED BY <1>2, PageNat

(* The least element of a set of numbers.                                  *)
LEMMA MinIs ==
  ASSUME NEW S \in SUBSET Nat, S # {}
  PROVE  Min(S) \in S /\ \A n \in S : Min(S) <= n
  <1> DEFINE R == {ss \in Nat \X Nat : ss[1] < ss[2]}
  <1>1. OpToRel(<, Nat) = R
    BY DEF OpToRel
  <1>2. IsWellFoundedOn(R, Nat)
    BY <1>1, NatLessThanWellFounded
  <1>3. PICK n \in S : \A m \in S : ~(<<m, n>> \in R)
    <2> HIDE DEF R
    <2> QED BY <1>2, WFMin
  <1>4. ASSUME NEW m \in S PROVE n <= m
    <2>1. m \in Nat /\ n \in Nat
      OBVIOUS
    <2>2. <<m, n>> \in R <=> m < n
      BY <2>1, Zenon
    <2> QED BY <1>3, <2>1, <2>2
  <1> QED BY <1>4 DEF Min

(* The first index of a set of them, 0 for none.                           *)
LEMMA LowestIs ==
  ASSUME NEW n \in Nat, NEW S \in SUBSET (1..n), Lowest(S) # 0
  PROVE  Lowest(S) \in S
  <1>1. S # {}
    BY DEF Lowest
  <1>2. S \in SUBSET Nat
    OBVIOUS
  <1>3. Min(S) \in S
    BY <1>1, <1>2, MinIs
  <1> QED BY <1>1, <1>3 DEF Lowest

-----------------------------------------------------------------------------
(* The regions of the process.                                             *)

(* A list that falls, of c members of S.                                   *)
Falling(s, c) == \A i, j \in 1..c : i < j => s[i] > s[j]
Falls(S) == \E s \in [1..Cardinality(S) -> S] : Falling(s, Cardinality(S))

(* A falling list, with something above all of it put first.               *)
LEMMA FallsFrom ==
  ASSUME NEW m \in Nat, NEW U \in SUBSET (0..m - 1), NEW c \in Nat,
         NEW s \in [1..c -> U], Falling(s, c)
  PROVE  \E r \in [1..c + 1 -> U \cup {m}] : Falling(r, c + 1)
  <1> DEFINE r == [i \in 1..c + 1 |-> IF i = 1 THEN m ELSE s[i - 1]]
  <1>1. ASSUME NEW i \in 1..c + 1, i # 1
        PROVE  i - 1 \in 1..c /\ s[i - 1] \in U /\ s[i - 1] \in Nat /\ s[i - 1] < m
    <2>1. i - 1 \in 1..c
      BY <1>1
    <2>2. s[i - 1] \in U
      BY <2>1
    <2>3. s[i - 1] \in 0..m - 1
      BY <2>2
    <2> QED BY <2>1, <2>2, <2>3
  <1>2. r \in [1..c + 1 -> U \cup {m}]
    BY <1>1
  <1>3. ASSUME NEW i \in 1..c + 1, NEW j \in 1..c + 1, i < j
        PROVE  r[i] > r[j]
    <2>1. j # 1
      BY <1>3
    <2>2. r[j] = s[j - 1] /\ j - 1 \in 1..c /\ s[j - 1] \in Nat /\ s[j - 1] < m
      BY <2>1, <1>1
    <2>3. CASE i = 1
      BY <2>2, <2>3
    <2>4. CASE i # 1
      <3>1. r[i] = s[i - 1] /\ i - 1 \in 1..c
        BY <2>4, <1>1
      <3>2. i - 1 < j - 1
        BY <1>3
      <3>3. s[i - 1] > s[j - 1]
        BY <3>1, <3>2, <2>2 DEF Falling
      <3> QED BY <3>1, <3>3, <2>2
    <2> QED BY <2>3, <2>4
  <1> HIDE DEF r
  <1> QED BY <1>2, <1>3 DEF Falling

(* Pages below n are finitely many.                                        *)
LEMMA FewPages ==
  ASSUME NEW n \in Nat, NEW S \in SUBSET (0..n - 1)
  PROVE  IsFiniteSet(S) /\ Cardinality(S) \in Nat
  <1>1. IsFiniteSet(0..n - 1)
    BY FS_Interval
  <1> QED BY <1>1, FS_Subset, FS_CardinalityType

(* If every set of pages below m falls, so does every set below m + 1.     *)
LEMMA FallsStep ==
  ASSUME NEW m \in Nat, \A U \in SUBSET (0..m - 1) : Falls(U),
         NEW T \in SUBSET (0..(m + 1) - 1)
  PROVE  Falls(T)
  <1>1. CASE m \notin T
    <2>1. T \in SUBSET (0..m - 1)
      BY <1>1
    <2> QED BY <2>1
  <1>2. CASE m \in T
    <2>1. PICK U : U = T \ {m}
      OBVIOUS
    <2>2. U \in SUBSET (0..m - 1) /\ T = U \cup {m}
      BY <2>1, <1>2
    <2>3. IsFiniteSet(T) /\ Cardinality(T) \in Nat
      <3>1. m + 1 \in Nat
        OBVIOUS
      <3> QED BY <3>1, FewPages
    <2>4. Cardinality(U) \in Nat
      BY <2>2, FewPages
    <2>5. Cardinality(U) = Cardinality(T) - 1
      BY <2>1, <2>3, <1>2, FS_RemoveElement
    <2>6. PICK s \in [1..Cardinality(U) -> U] : Falling(s, Cardinality(U))
      BY <2>2 DEF Falls
    <2>7. PICK r \in [1..Cardinality(U) + 1 -> U \cup {m}] : Falling(r, Cardinality(U) + 1)
      BY <2>2, <2>4, <2>6, FallsFrom
    <2>8. Cardinality(T) = Cardinality(U) + 1
      BY <2>3, <2>4, <2>5
    <2> QED BY <2>2, <2>7, <2>8 DEF Falls
  <1> QED BY <1>1, <1>2

(* A set of pages has a falling list.                                      *)
LEMMA DescendingExists ==
  ASSUME NEW n \in Nat, NEW S \in SUBSET (0..n - 1)
  PROVE  Falls(S)
  <1> DEFINE Good(m) == \A T \in SUBSET (0..m - 1) : Falls(T)
             Bad == {m \in Nat : ~Good(m)}
  <1>1. Good(0)
    <2> SUFFICES ASSUME NEW T \in SUBSET (0..0 - 1) PROVE Falls(T)
      OBVIOUS
    <2>1. T = {}
      OBVIOUS
    <2>2. Cardinality(T) = 0
      BY <2>1, FS_EmptySet
    <2>3. [i \in 1..0 |-> i] \in [1..0 -> T]
      OBVIOUS
    <2>4. Falling([i \in 1..0 |-> i], 0)
      BY DEF Falling
    <2> QED BY <2>2, <2>3, <2>4 DEF Falls
  <1>2. ASSUME NEW m \in Nat, Good(m) PROVE Good(m + 1)
    BY <1>2, FallsStep
  <1> HIDE DEF Good
  <1>3. Bad = {}
    <2> SUFFICES ASSUME Bad # {} PROVE FALSE
      OBVIOUS
    <2>1. PICK m \in Bad : \A k \in Bad : m <= k
      <3>1. Bad \in SUBSET Nat
        OBVIOUS
      <3> HIDE DEF Bad
      <3> QED BY <3>1, MinIs
    <2>2. m \in Nat /\ ~Good(m)
      OBVIOUS
    <2>3. m # 0
      BY <2>2, <1>1
    <2>4. m - 1 \in Nat /\ (m - 1) + 1 = m
      BY <2>2, <2>3
    <2>5. m - 1 \notin Bad
      <3> HIDE DEF Bad
      <3> QED BY <2>1, <2>4, <2>2
    <2>6. Good(m - 1)
      BY <2>4, <2>5
    <2> QED BY <2>6, <1>2, <2>4, <2>2
  <1>4. Good(n)
    BY <1>3
  <1> QED BY <1>4 DEF Good

(* Every region of the layout is a mapped page, if anything is mapped.     *)
LEMMA LayoutIs ==
  ASSUME prot \in [0..Pages - 1 -> {"none", "r", "rx", "rwx"}],
         NEW p0 \in 0..Pages - 1, prot[p0] # "none"
  PROVE  /\ Layout \in Seq(0..Pages - 1)
         /\ \A k \in 1..Len(Layout) : Layout[k] \in 0..Pages - 1
  <1> DEFINE S == 0..(Pages - 1) \ Free
             down == Descending(S)
             c == Cardinality(S)
  <1>1. Pages \in Nat
    BY MemoryAssumption DEF MemoryAssumption
  <1>2. S \in SUBSET (0..Pages - 1)
    OBVIOUS
  <1>3. p0 \in S
    BY DEF Free
  <1>4. c \in Nat /\ \E s \in [1..c -> S] : \A i, j \in 1..c : i < j => s[i] > s[j]
    BY <1>1, <1>2, DescendingExists, FewPages DEF Falls, Falling
  <1>5. c # 0
    <2>1. IsFiniteSet(0..Pages - 1)
      BY <1>1, FS_Interval
    <2>2. IsFiniteSet(S)
      BY <2>1, <1>2, FS_Subset
    <2> QED BY <2>2, <1>3, FS_EmptySet
  <1>6. down \in [1..c -> S]
    BY <1>4 DEF Descending
  <1> HIDE DEF down, c, S
  <1>7. down \in [1..c -> 0..Pages - 1]
    BY <1>6, <1>2
  <1>8. down \in Seq(0..Pages - 1) /\ Len(down) = c
    <2>1. down \in UNION {[1..m -> 0..Pages - 1] : m \in Nat}
      BY <1>7, <1>4
    <2>2. down \in Seq(0..Pages - 1)
      BY <2>1, SeqDef
    <2>3. Len(down) \in Nat /\ DOMAIN down = 1..Len(down)
      BY <2>2, LenProperties
    <2>4. 1..Len(down) = 1..c
      BY <2>3, <1>7
    <2>5. PICK m : m = Len(down)
      OBVIOUS
    <2>6. m \in Nat /\ c \in 1..m
      <3>1. m \in Nat /\ 1..m = 1..c
        BY <2>3, <2>4, <2>5
      <3>2. c \in 1..c
        BY <1>4, <1>5
      <3> QED BY <3>1, <3>2
    <2>7. m \in 1..c
      <3>1. m \in 1..m
        BY <2>6
      <3> QED BY <3>1, <2>4, <2>5
    <2>8. m = c
      BY <2>6, <2>7, <1>4
    <2> QED BY <2>2, <2>5, <2>8
  <1>9. down # <<>>
    BY <1>8, <1>5
  <1>10. Head(down) \in 0..Pages - 1
    BY <1>8, <1>9, HeadTailProperties
  <1>11. <<Head(down)>> \in Seq(0..Pages - 1)
    BY <1>10
  <1>12. Layout = <<Head(down)>> \o down
    BY DEF Layout, down, S
  <1>13. Layout \in Seq(0..Pages - 1)
    BY <1>8, <1>11, <1>12, ConcatProperties
  <1>14. ASSUME NEW k \in 1..Len(Layout) PROVE Layout[k] \in 0..Pages - 1
    BY <1>13, ElementOfSeq
  <1> QED BY <1>13, <1>14

(* The range of the search is two pages, and is turned around where the    *)
(* range is negative.                                                      *)
LEMMA RangeIs ==
  ASSUME NEW pos \in Nat
  PROVE  /\ MinPage(pos) \in Int /\ MaxPage(pos) \in Int
         /\ X86 => MinPage(pos) > MaxPage(pos)
  <1>1. PageSize \in Nat \ {0} /\ Reach \in Nat
    BY MemoryAssumption DEF MemoryAssumption
  <1>2. PICK lo, hi \in Int : lo = pos - IntRange /\ hi = pos + IntRange
    <2>1. IntRange \in Int
      BY <1>1 DEF IntRange
    <2> QED BY <2>1
  <1>3. lo \div PageSize \in Int /\ hi \div PageSize \in Int
    BY <1>1, DivIs
  <1>4. X86 => hi <= lo
    BY <1>1, <1>2 DEF IntRange
  <1>5. X86 => hi \div PageSize <= lo \div PageSize
    BY <1>1, <1>4, DivMono
  <1>6. MinPage(pos) = (lo \div PageSize) + 1 /\ MaxPage(pos) = (hi \div PageSize) - 1
    BY <1>2 DEF MinPage, MaxPage, Page
  <1> QED BY <1>3, <1>5, <1>6

(* The greater of two.                                                     *)
LEMMA MaxOfTwo ==
  ASSUME NEW a \in Int, NEW b \in Int
  PROVE  Max({a, b}) = IF a >= b THEN a ELSE b
  <1>1. CASE a >= b
    <2>1. \E x \in {a, b} : \A y \in {a, b} : x >= y
      BY <1>1
    <2>2. Max({a, b}) \in {a, b} /\ \A y \in {a, b} : Max({a, b}) >= y
      BY <2>1 DEF Max
    <2> QED BY <2>2, <1>1
  <1>2. CASE ~(a >= b)
    <2>1. \E x \in {a, b} : \A y \in {a, b} : x >= y
      BY <1>2
    <2>2. Max({a, b}) \in {a, b} /\ \A y \in {a, b} : Max({a, b}) >= y
      BY <2>1 DEF Max
    <2> QED BY <2>2, <1>2
  <1> QED BY <1>1, <1>2

(* search_near_blank_page names a page of the process, and none where the  *)
(* range is negative.                                                      *)
LEMMA BlankPage ==
  ASSUME prot \in [0..Pages - 1 -> {"none", "r", "rx", "rwx"}],
         NEW p0 \in 0..Pages - 1, prot[p0] # "none",
         NEW pos \in Nat, NEW beyond \in {0, Pages},
         NEW p \in search_near_blank_page(pos, beyond)
  PROVE  p \in 0..Pages - 1 /\ ~X86
  <1>1. Pages \in Nat
    BY MemoryAssumption DEF MemoryAssumption
  <1>2. Layout \in Seq(0..Pages - 1) /\ \A k \in 1..Len(Layout) : Layout[k] \in 0..Pages - 1
    BY LayoutIs
  <1>3. Len(Layout) \in Nat
    BY <1>2, LenProperties
  <1>4. PICK i \in 1..Len(Layout) :
          /\ InRange(i, pos)
          /\ \/ SpecialBlank(i) /\ p = SpecialPage(i, pos)
             \/ RightBlank(i, beyond) /\ p = Layout[i] + 1
    <2> DEFINE near_regions == {k \in 1..Len(Layout) : InRange(k, pos)}
               special == {j \in near_regions : SpecialBlank(j) /\ ~AssumedOther(j, pos, beyond)}
               right == {j \in near_regions : RightBlank(j, beyond)}
    <2>1. p \in {SpecialPage(k, pos) : k \in special} \cup {Layout[k] + 1 : k \in right}
      BY DEF search_near_blank_page
    <2>2. \A j \in special : j \in 1..Len(Layout) /\ InRange(j, pos) /\ SpecialBlank(j)
      OBVIOUS
    <2>3. \A j \in right : j \in 1..Len(Layout) /\ InRange(j, pos) /\ RightBlank(j, beyond)
      OBVIOUS
    <2> HIDE DEF special, right
    <2>4. (\E k \in special : p = SpecialPage(k, pos)) \/ (\E k \in right : p = Layout[k] + 1)
      BY <2>1
    <2>5. CASE \E k \in special : p = SpecialPage(k, pos)
      <3>1. PICK k \in special : p = SpecialPage(k, pos)
        BY <2>5
      <3>2. k \in 1..Len(Layout) /\ InRange(k, pos) /\ SpecialBlank(k)
        BY <2>2
      <3> QED BY <3>1, <3>2
    <2>6. CASE \E k \in right : p = Layout[k] + 1
      <3>1. PICK k \in right : p = Layout[k] + 1
        BY <2>6
      <3>2. k \in 1..Len(Layout) /\ InRange(k, pos) /\ RightBlank(k, beyond)
        BY <2>3
      <3> QED BY <3>1, <3>2
    <2> QED BY <2>4, <2>5, <2>6
  <1>5. Layout[i] + 1 < MaxPage(pos) /\ Layout[i] >= MinPage(pos)
    BY <1>4 DEF InRange
  <1>6. MinPage(pos) \in Int /\ MaxPage(pos) \in Int /\ (X86 => MinPage(pos) > MaxPage(pos))
    BY RangeIs
  <1>7. Layout[i] \in 0..Pages - 1
    BY <1>2, <1>4
  <1>8. ~X86
    BY <1>1, <1>5, <1>6, <1>7
  <1>9. CASE SpecialBlank(i) /\ p = SpecialPage(i, pos)
    <2>1. i # 1 /\ Layout[i] > Layout[i - 1] + 1
      BY <1>9 DEF SpecialBlank
    <2>2. i - 1 \in 1..Len(Layout)
      BY <2>1, <1>4, <1>3
    <2>3. Layout[i - 1] \in 0..Pages - 1
      BY <2>2, <1>2
    <2>4. p = Max({MinPage(pos), Layout[i - 1] + 1})
      BY <1>9 DEF SpecialPage
    <2>5. PICK a, b \in Int : a = MinPage(pos) /\ b = Layout[i - 1] + 1
      BY <1>6, <2>3, <1>1
    <2>6. p = IF a >= b THEN a ELSE b
      BY <2>4, <2>5, MaxOfTwo
    <2>7. a <= Layout[i] /\ b < Layout[i]
      BY <2>1, <2>5, <1>5
    <2>8. b >= 1
      BY <2>3, <2>5, <1>1
    <2>9. p \in 0..Pages - 1
      BY <2>6, <2>7, <2>8, <1>1, <1>7
    <2> QED BY <2>9, <1>8
  <1>10. CASE RightBlank(i, beyond) /\ p = Layout[i] + 1
    <2>1. p = Layout[i] + 1
      BY <1>10
    <2>2. Layout[i] + 1 < IF i < Len(Layout) THEN Layout[i + 1] ELSE beyond
      BY <1>10 DEF RightBlank
    <2>3. i < Len(Layout) => Layout[i + 1] \in 0..Pages - 1
      BY <1>2, <1>3, <1>4
    <2>4. CASE i < Len(Layout)
      BY <2>1, <2>2, <2>3, <2>4, <1>1, <1>7, <1>8
    <2>5. CASE ~(i < Len(Layout))
      BY <2>1, <2>2, <2>5, <1>1, <1>7, <1>8
    <2> QED BY <2>4, <2>5
  <1> QED BY <1>4, <1>9, <1>10

(* search_near_blank_memory_chunk names an address on a page of the        *)
(* process, and none where the range is negative.                          *)
LEMMA Cave ==
  ASSUME prot \in [0..Pages - 1 -> {"none", "r", "rx", "rwx"}],
         NEW p0 \in 0..Pages - 1, prot[p0] # "none",
         NEW pos \in Nat, NEW c \in search_near_blank_memory_chunk(pos, ForwardSize)
  PROVE  c \in Nat /\ Page(c) \in 0..Pages - 1 /\ ~X86
  <1>1. /\ Pages \in Nat /\ PageSize \in Nat \ {0}
        /\ ForwardSize \in Nat /\ ForwardSize >= 2
    BY MemoryAssumption, SizeAssumption DEF MemoryAssumption, SizeAssumption
  <1>2. Layout \in Seq(0..Pages - 1) /\ \A k \in 1..Len(Layout) : Layout[k] \in 0..Pages - 1
    BY LayoutIs
  <1>3. Len(Layout) \in Nat
    BY <1>2, LenProperties
  <1>4. PICK k \in Searched(pos) :
          \E b \in Span(Layout[k] * PageSize,
               PageSize - (ForwardSize + 3 * Cardinality(Searched(pos) \cap 1..k)) + 1) :
            c = b + 4 - (b % 4)
    BY DEF search_near_blank_memory_chunk
  <1>5. k \in 1..Len(Layout) /\ Layout[k] + 1 <= MaxPage(pos) /\ Layout[k] >= MinPage(pos)
    BY DEF Searched
  <1>6. Layout[k] \in 0..Pages - 1
    BY <1>2, <1>5
  <1>7. MinPage(pos) \in Int /\ MaxPage(pos) \in Int /\ (X86 => MinPage(pos) > MaxPage(pos))
    BY RangeIs
  <1>8. ~X86
    BY <1>1, <1>5, <1>6, <1>7
  <1>9. PICK n : n = Cardinality(Searched(pos) \cap 1..k)
    OBVIOUS
  <1>10. n \in Nat /\ n >= 1
    <2>1. IsFiniteSet(1..k)
      BY <1>3, <1>5, FS_Interval
    <2>2. IsFiniteSet(Searched(pos) \cap 1..k)
      BY <2>1, FS_Subset
    <2>3. k \in Searched(pos) \cap 1..k
      BY <1>5, <1>3
    <2>4. Cardinality(Searched(pos) \cap 1..k) # 0
      BY <2>2, <2>3, FS_EmptySet
    <2>5. Cardinality(Searched(pos) \cap 1..k) \in Nat
      BY <2>2, FS_CardinalityType
    <2> QED BY <1>9, <2>4, <2>5
  <1>11. PICK r, base \in Nat : r = Layout[k] /\ base = r * PageSize
    BY <1>1, <1>6
  <1>12. PICK b \in base .. base + (PageSize - (ForwardSize + 3 * n) + 1) - 1 :
            c = b + 4 - (b % 4)
    BY <1>4, <1>9, <1>11 DEF Span
  <1>13. b \in Nat /\ base <= b /\ b + ForwardSize + 3 <= base + PageSize
    BY <1>1, <1>10, <1>12
  <1>14. b % 4 \in 0..3
    BY <1>13
  <1>15. c \in Nat /\ base <= c /\ c < base + PageSize
    BY <1>1, <1>12, <1>13, <1>14
  <1>16. Page(c) = r
    BY <1>11, <1>15, PageIs
  <1> QED BY <1>6, <1>8, <1>11, <1>15, <1>16
-----------------------------------------------------------------------------
(* Types, and what a thread holds at each place of the code.               *)

Arena == {"pick", "read", "bump"}
NearArena == {"pickNear", "readNear", "bumpNear"}
Patching == {"unprotect", "copy", "protect"}
ArenaCode == {"bridge", "closure", "add"}
Purpose == ArenaCode \cup {"forward", "done"}
Place == Arena \cup NearArena \cup Patching \cup {"idle", "gen", "plugin", "dangling", "add"}
PageRecord == [base : Nat, cursor : Nat]
WriteRecord == [at : Nat, len : Nat, by : Fn \cup {"none"}, what : Purpose \cup {"map"}]
JobRecord == [f : Fn \cup {"none"}, size : Nat, at : Nat, len : Nat, page : Nat,
              next : Purpose \cup {"none"}]

Typed ==
  /\ arch \in Arch
  /\ prot \in [0..Pages - 1 -> {"none", "r", "rx", "rwx"}]
  /\ pages \in Seq(PageRecord) /\ nears \in Seq(PageRecord)
  /\ writes \in Seq(WriteRecord)
  /\ entries \subseteq Fn
  /\ pc \in [Thread -> Place] /\ job \in [Thread -> JobRecord]

(* What a thread's job is, at each place of the code.                      *)
Shape(t) ==
  /\ pc[t] # "idle" => job[t].f \in Fn
  /\ pc[t] = "idle" => job[t].next = "none"
  /\ pc[t] \in Arena => job[t].next \in ArenaCode /\ job[t].len + 4 < PageSize
  /\ pc[t] \in NearArena => job[t].next = "forward" /\ job[t].len = ForwardSize
  /\ pc[t] \in Patching => job[t].next \in Purpose
  /\ pc[t] = "add" => job[t].next = "add"
  /\ pc[t] \in {"read", "bump"} => job[t].page \in 1..Len(pages)
  /\ pc[t] \in {"readNear", "bumpNear"} => job[t].page \in 1..Len(nears)
  /\ job[t].next \in {"add", "done"} => job[t].size <= NormalSize + 1
  /\ job[t].next = "done" =>
       /\ pc[t] \in Patching /\ job[t].f \in entries
       /\ job[t].at = Start[job[t].f] /\ job[t].len = job[t].size
Shaped == \A t \in Thread : Shape(t)

(* The pages of an arena were mapped, and begin where a page does.         *)
Owned(qs, pr) ==
  \A i \in 1..Len(qs) :
    /\ qs[i].base <= qs[i].cursor
    /\ \E p \in 0..Pages - 1 : qs[i].base = p * PageSize /\ pr[p] # "none"
MappedText == \A p \in Text : prot[p] # "none"

(* What the assumptions say, in one place.                                 *)
LEMMA Sizes ==
  /\ PageSize \in Nat \ {0} /\ Pages \in Nat /\ Start \in [Fn -> Nat] /\ "none" \notin Fn
  /\ Text \subseteq 0..Pages - 1 /\ \A f \in Fn : Start[f] \in Nat /\ Page(Start[f]) \in Text
  /\ NormalSize \in Nat /\ NearSize \in 0..NormalSize + 1 /\ ForwardSize \in Nat
  /\ RelocSize \in Nat /\ RelocSize + 4 < PageSize
  /\ ClosureSize \in Nat /\ ClosureSize + 4 < PageSize
  /\ BridgeSize \in Nat /\ BridgeSize + 4 < PageSize
  BY MemoryAssumption, SizeAssumption DEF MemoryAssumption, SizeAssumption, Page

(* On to the relocated code, after a trampoline no longer than a normal    *)
(* one, or to a chunk near the function.                                   *)
Relocates(t) == \E n \in 0..NormalSize + 1 : GenerateRelocatedCode(t, n)

(* GenerateNormalTrampolineBuffer does one or the other.                   *)
LEMMA NormalGoes ==
  ASSUME Typed, NEW t \in Thread, GenerateNormalTrampolineBuffer(t)
  PROVE  (~X86 /\ Relocates(t)) \/ (X86 /\ AllocateNear(t))
  <1>1. arch \in {"arm", "arm64", "x64", "ia32"}
    BY MemoryAssumption DEF MemoryAssumption, Typed
  <1>2. NormalSize \in Nat
    BY Sizes
  <1>3. CASE arch = "arm"
    <2>1. NormalArm(t)
      BY <1>3 DEF GenerateNormalTrampolineBuffer
    <2>2. NormalSize + (IF job[t].f \in Unaligned THEN 1 ELSE 0) \in 0..NormalSize + 1
      BY <1>2
    <2>3. Relocates(t)
      BY <2>1, <2>2, Zenon DEF NormalArm, Relocates
    <2>4. ~X86
      BY <1>3 DEF X86
    <2> QED BY <2>3, <2>4
  <1>4. CASE arch = "arm64"
    <2>1. NormalArm64(t)
      BY <1>4 DEF GenerateNormalTrampolineBuffer
    <2>2. NormalSize + (IF job[t].f \in Paged THEN 0 ELSE 1) \in 0..NormalSize + 1
      BY <1>2
    <2>3. Relocates(t)
      BY <2>1, <2>2, Zenon DEF NormalArm64, Relocates
    <2>4. ~X86
      BY <1>4 DEF X86
    <2> QED BY <2>3, <2>4
  <1>5. CASE arch = "x64"
    BY <1>5 DEF GenerateNormalTrampolineBuffer, NormalX64, AllocIndirectStub, X86
  <1>6. CASE arch = "ia32"
    BY <1>6 DEF GenerateNormalTrampolineBuffer, NormalIa32, AllocIndirectStub, X86
  <1> QED BY <1>1, <1>3, <1>4, <1>5, <1>6

(* What the job of t becomes, and that no other thread's does.             *)
LEMMA RelocatesIs ==
  ASSUME Typed, NEW t \in Thread, Relocates(t)
  PROVE  /\ pc' \in [Thread -> Place] /\ job' \in [Thread -> JobRecord]
         /\ pc'[t] = "pick" /\ job'[t].f = job[t].f /\ job'[t].next = "add"
         /\ job'[t].len = RelocSize /\ job'[t].size <= NormalSize + 1
         /\ \A u \in Thread \ {t} : pc'[u] = pc[u] /\ job'[u] = job[u]
  <1>1. PICK n \in 0..NormalSize + 1 : GenerateRelocatedCode(t, n)
    BY DEF Relocates
  <1>2. n \in Nat /\ RelocSize \in Nat /\ NormalSize \in Nat
    BY Sizes
  <1>3. pc' = [pc EXCEPT ![t] = "pick"]
    BY <1>1 DEF GenerateRelocatedCode, Go
  <1>4. job' = [job EXCEPT ![t] = [job[t] EXCEPT !.size = n, !.len = RelocSize, !.next = "add"]]
    BY <1>1 DEF GenerateRelocatedCode, Typed
  <1>5. [job[t] EXCEPT !.size = n, !.len = RelocSize, !.next = "add"] \in JobRecord
    BY <1>2 DEF Typed, JobRecord, Purpose, ArenaCode
  <1> QED BY <1>2, <1>3, <1>4, <1>5 DEF Typed, JobRecord, Place, Arena

(* What AllocateNear does to the job.                                      *)
LEMMA AllocateNearIs ==
  ASSUME Typed, NEW t \in Thread, AllocateNear(t)
  PROVE  /\ pc' \in [Thread -> Place] /\ job' \in [Thread -> JobRecord]
         /\ pc'[t] = "pickNear" /\ job'[t].f = job[t].f /\ job'[t].next = "forward"
         /\ job'[t].len = ForwardSize
         /\ \A u \in Thread \ {t} : pc'[u] = pc[u] /\ job'[u] = job[u]
  <1>1. ForwardSize \in Nat
    BY Sizes
  <1>2. pc' = [pc EXCEPT ![t] = "pickNear"]
    BY DEF AllocateNear, Go
  <1>3. job' = [job EXCEPT ![t] = [job[t] EXCEPT !.len = ForwardSize, !.next = "forward"]]
    BY DEF AllocateNear, Typed
  <1>4. [job[t] EXCEPT !.len = ForwardSize, !.next = "forward"] \in JobRecord
    BY <1>1 DEF Typed, JobRecord, Purpose
  <1> QED BY <1>1, <1>2, <1>3, <1>4 DEF Typed, JobRecord, Place, NearArena

-----------------------------------------------------------------------------
(* What each step does, seen from the state before it.                     *)

(* Only t moves.                                                           *)
Keeps(t) == \A u \in Thread \ {t} : pc'[u] = pc[u] /\ job'[u] = job[u]

(* Types are kept if the job and the place are of theirs.                  *)
LEMMA TypedKept ==
  ASSUME Typed, UNCHANGED Memory, UNCHANGED Rest,
         pc' \in [Thread -> Place], job' \in [Thread -> JobRecord]
  PROVE  Typed'
  BY DEF Typed, Memory, Rest

(* The job of one thread changed, and its place.                           *)
LEMMA OneMoves ==
  ASSUME Typed, NEW t \in Thread, NEW l \in Place, NEW j \in JobRecord,
         pc' = [pc EXCEPT ![t] = l], job' = [job EXCEPT ![t] = j]
  PROVE  /\ pc' \in [Thread -> Place] /\ job' \in [Thread -> JobRecord]
         /\ pc'[t] = l /\ job'[t] = j /\ Keeps(t)
  BY DEF Typed, Keeps

(* A call of DobbyHook or DobbyInstrument is FATAL, or begins.             *)
Begins(t, f) ==
  /\ pc[t] = "idle" /\ f \notin entries /\ fault' = fault /\ Noting("overlap", Busy)
  /\ job'[t].f = f
  /\ \/ pc'[t] = "gen" /\ job'[t].next = "none"
     \/ /\ pc'[t] = "pick" /\ job'[t].next \in {"bridge", "closure"}
        /\ job'[t].len + 4 < PageSize

(* What a call of DobbyHook or DobbyInstrument does at its start.          *)
LEMMA HookIs ==
  ASSUME Typed, NEW t \in Thread, NEW f \in Fn, DobbyHook(t, f) \/ DobbyInstrument(t, f)
  PROVE  /\ Typed' /\ Keeps(t) /\ UNCHANGED Memory /\ UNCHANGED Rest /\ Alive
         /\ \/ fault' = "twice" /\ UNCHANGED <<pc, job, odd>>
            \/ Begins(t, f)
  <1> DEFINE Call(l, j) == /\ Typed' /\ Keeps(t) /\ UNCHANGED Memory /\ UNCHANGED Rest /\ Alive
                           /\ \/ fault' = "twice" /\ UNCHANGED <<pc, job, odd>>
                              \/ /\ pc[t] = "idle" /\ f \notin entries /\ fault' = fault
                                 /\ Noting("overlap", Busy) /\ pc'[t] = l /\ job'[t] = j
  <1>1. ASSUME NEW l \in Place, NEW j \in JobRecord, Begin(t, f, l, j)
        PROVE  Call(l, j)
    <2>1. UNCHANGED Memory /\ UNCHANGED Rest /\ Alive /\ pc[t] = "idle"
      BY <1>1 DEF Begin
    <2>2. CASE FindHookEntry(f)
      <3>1. fault' = "twice" /\ UNCHANGED <<pc, job, odd>>
        BY <1>1, <2>2 DEF Begin, Fault
      <3>2. Typed' /\ Keeps(t)
        BY <2>1, <3>1 DEF Typed, Keeps, Memory, Rest
      <3> QED BY <2>1, <3>1, <3>2
    <2>3. CASE ~FindHookEntry(f)
      <3>1. pc' = [pc EXCEPT ![t] = l] /\ job' = [job EXCEPT ![t] = j]
        BY <1>1, <2>3 DEF Begin, Go
      <3>2. Noting("overlap", Busy) /\ fault' = fault /\ f \notin entries
        BY <1>1, <2>3 DEF Begin, FindHookEntry
      <3>3. /\ pc' \in [Thread -> Place] /\ job' \in [Thread -> JobRecord]
            /\ pc'[t] = l /\ job'[t] = j /\ Keeps(t)
        BY <3>1, OneMoves
      <3>4. Typed'
        BY <3>3, <2>1, TypedKept
      <3> QED BY <2>1, <3>2, <3>3, <3>4
    <2> QED BY <2>2, <2>3
  <1>2. CASE DobbyHook(t, f)
    <2>1. PICK j : j = [NoJob EXCEPT !.f = f]
      OBVIOUS
    <2>2. j \in JobRecord /\ j.f = f /\ j.next = "none"
      BY <2>1 DEF NoJob, JobRecord
    <2>3. "gen" \in Place
      BY DEF Place
    <2>4. Begin(t, f, "gen", j)
      BY <1>2, <2>1 DEF DobbyHook
    <2>5. Call("gen", j)
      BY <1>1, <2>2, <2>3, <2>4
    <2> QED BY <2>2, <2>5 DEF Begins
  <1>3. CASE DobbyInstrument(t, f)
    <2>1. PICK n, m : n = (IF Bridge THEN ClosureSize ELSE BridgeSize)
                      /\ m = (IF Bridge THEN "closure" ELSE "bridge")
      OBVIOUS
    <2>2. PICK j : j = [NoJob EXCEPT !.f = f, !.len = n, !.next = m]
      OBVIOUS
    <2>3. n \in Nat /\ n + 4 < PageSize /\ m \in {"bridge", "closure"}
      BY <2>1, Sizes
    <2>4. j \in JobRecord /\ j.f = f /\ j.next = m /\ j.len = n
      BY <2>2, <2>3 DEF NoJob, JobRecord, Purpose, ArenaCode
    <2>5. "pick" \in Place
      BY DEF Place, Arena
    <2>6. Begin(t, f, "pick", j)
      BY <1>3, <2>1, <2>2 DEF DobbyInstrument
    <2>7. Call("pick", j)
      BY <1>1, <2>4, <2>5, <2>6
    <2> QED BY <2>3, <2>4, <2>7 DEF Begins
  <1> QED BY <1>2, <1>3

(* The plugin is switched; a thread that held it is left with a dangling   *)
(* pointer.                                                                *)
LEMMA EnableIs ==
  ASSUME Typed, Enable
  PROVE  /\ Typed' /\ UNCHANGED Memory /\ UNCHANGED <<arch, entries, pc, job, fault, odd>>
         /\ Alive
  BY DEF Enable, Typed, Memory

(* dobby_disable_near_branch_trampoline: whoever holds the plugin is left  *)
(* with a pointer to nothing.                                              *)
LEMMA DisableIs ==
  ASSUME Typed, Disable
  PROVE  /\ Typed' /\ UNCHANGED Memory /\ UNCHANGED <<arch, entries, job, fault>> /\ Alive
         /\ Noting("overlap", Busy)
         /\ \A u \in Thread : pc'[u] = IF pc[u] = "plugin" THEN "dangling" ELSE pc[u]
  <1>1. pc' = [u \in Thread |-> IF pc[u] = "plugin" THEN "dangling" ELSE pc[u]]
    BY DEF Disable
  <1>2. pc' \in [Thread -> Place]
    BY <1>1 DEF Typed, Place
  <1> QED BY <1>1, <1>2 DEF Disable, Typed, Memory

(* The trampoline is generated: through the plugin, by the architecture,   *)
(* or not at all because the plugin is gone.                               *)
LEMMA GenerateIs ==
  ASSUME Typed, NEW t \in Thread, GenerateTrampolineBuffer(t) \/ GenerateNearTrampolineBuffer(t)
  PROVE  /\ Typed' /\ Keeps(t) /\ UNCHANGED Memory /\ UNCHANGED Rest /\ odd' = odd /\ Alive
         /\ pc[t] \in {"gen", "plugin", "dangling"}
         /\ \/ fault' = fault /\ pc'[t] = "plugin" /\ job' = job /\ pc[t] = "gen"
            \/ fault' = fault /\ ~X86 /\ Relocates(t)
            \/ fault' = fault /\ AllocateNear(t)
            \/ fault' = "plugin" /\ UNCHANGED <<pc, job>> /\ pc[t] = "dangling"
  <1>1. /\ UNCHANGED Memory /\ UNCHANGED Rest /\ odd' = odd /\ Alive
        /\ pc[t] \in {"gen", "plugin", "dangling"}
    BY DEF GenerateTrampolineBuffer, GenerateNearTrampolineBuffer
  <1>2. \/ fault' = fault /\ Go(t, "plugin") /\ job' = job /\ pc[t] = "gen"
        \/ fault' = fault /\ ~X86 /\ Relocates(t)
        \/ fault' = fault /\ AllocateNear(t)
        \/ fault' = "plugin" /\ UNCHANGED <<pc, job>> /\ pc[t] = "dangling"
    <2>1. CASE GenerateTrampolineBuffer(t)
      BY <2>1, NormalGoes DEF GenerateTrampolineBuffer
    <2>2. CASE GenerateNearTrampolineBuffer(t)
      <3>1. CASE pc[t] = "dangling" /\ Fault("plugin") /\ UNCHANGED <<pc, job>>
        BY <3>1 DEF Fault
      <3>2. CASE /\ UNCHANGED fault
                 /\ IF arch # "arm64" THEN GenerateNormalTrampolineBuffer(t)
                    ELSE IF job[t].f \in Close THEN GenerateRelocatedCode(t, NearSize)
                    ELSE AllocateNear(t)
        <4>1. CASE arch # "arm64"
          BY <3>2, <4>1, NormalGoes
        <4>2. CASE arch = "arm64" /\ job[t].f \in Close
          <5>1. Relocates(t)
            BY <3>2, <4>2, Sizes DEF Relocates
          <5>2. ~X86
            BY <4>2 DEF X86
          <5> QED BY <3>2, <5>1, <5>2
        <4>3. CASE arch = "arm64" /\ job[t].f \notin Close
          BY <3>2, <4>3
        <4> QED BY <4>1, <4>2, <4>3
      <3> QED BY <2>2, <3>1, <3>2 DEF GenerateNearTrampolineBuffer
    <2> QED BY <2>1, <2>2
  <1>3. CASE fault' = fault /\ Go(t, "plugin") /\ job' = job /\ pc[t] = "gen"
    <2>1. /\ pc' \in [Thread -> Place] /\ job' \in [Thread -> JobRecord]
          /\ pc'[t] = "plugin" /\ Keeps(t)
      BY <1>3 DEF Typed, Keeps, Go, Place
    <2>2. Typed'
      BY <1>1, <2>1, TypedKept
    <2> QED BY <1>1, <1>3, <2>1, <2>2
  <1>4. CASE fault' = fault /\ ~X86 /\ Relocates(t)
    <2>1. pc' \in [Thread -> Place] /\ job' \in [Thread -> JobRecord] /\ Keeps(t)
      BY <1>4, RelocatesIs DEF Keeps
    <2>2. Typed'
      BY <1>1, <2>1, TypedKept
    <2> QED BY <1>1, <1>4, <2>1, <2>2
  <1>5. CASE fault' = fault /\ AllocateNear(t)
    <2>1. pc' \in [Thread -> Place] /\ job' \in [Thread -> JobRecord] /\ Keeps(t)
      BY <1>5, AllocateNearIs DEF Keeps
    <2>2. Typed'
      BY <1>1, <2>1, TypedKept
    <2> QED BY <1>1, <1>5, <2>1, <2>2
  <1>6. CASE fault' = "plugin" /\ UNCHANGED <<pc, job>> /\ pc[t] = "dangling"
    <2>1. Typed' /\ Keeps(t)
      BY <1>1, <1>6 DEF Typed, Keeps, Memory, Rest
    <2> QED BY <1>1, <1>6, <2>1
  <1> QED BY <1>2, <1>3, <1>4, <1>5, <1>6

(* A new page of an arena.                                                 *)
LEMMA NewPageIs ==
  ASSUME NEW p \in 0..Pages - 1
  PROVE  /\ NewPage(p) \in PageRecord /\ p * PageSize \in Nat
         /\ NewPage(p).base = p * PageSize /\ NewPage(p).cursor = p * PageSize
  <1>1. p \in Nat /\ PageSize \in Nat
    BY Sizes
  <1>2. p * PageSize \in Nat
    BY <1>1
  <1> QED BY <1>2 DEF NewPage, PageRecord

(* MemoryArena::AllocateChunk: a page with room, no memory, or a page      *)
(* that was free.                                                          *)
LEMMA AllocateChunkIs ==
  ASSUME Typed, NEW t \in Thread, AllocateChunk(t)
  PROVE  /\ Typed' /\ Keeps(t) /\ UNCHANGED <<nears, writes, odd>> /\ UNCHANGED Rest /\ Alive
         /\ pc[t] = "pick"
         /\ \/ \E i \in 1..Len(pages) :
                 /\ Roomy(pages[i], ChunkSize(job[t])) /\ job'[t] = [job[t] EXCEPT !.page = i]
                 /\ pc'[t] = "read" /\ UNCHANGED <<prot, pages, fault>>
            \/ fault' = "oom" /\ UNCHANGED <<prot, pages, job, pc>>
            \/ \E p \in 0..Pages - 1 :
                 /\ prot[p] = "none" /\ prot' = [prot EXCEPT ![p] = "rx"]
                 /\ pages' = Append(pages, NewPage(p))
                 /\ job'[t] = [job[t] EXCEPT !.page = Len(pages) + 1]
                 /\ pc'[t] = "read" /\ fault' = fault
  <1> DEFINE S == {k \in 1..Len(pages) : Roomy(pages[k], ChunkSize(job[t]))}
  <1>1. UNCHANGED <<nears, writes, odd>> /\ UNCHANGED Rest /\ Alive /\ pc[t] = "pick"
    BY DEF AllocateChunk
  <1>2. PICK i : i = Lowest(S)
    OBVIOUS
  <1>3. Len(pages) \in Nat
    BY DEF Typed
  <1>4. \/ /\ i # 0 /\ job' = [job EXCEPT ![t].page = i]
           /\ Go(t, "read") /\ UNCHANGED <<prot, pages, fault>>
        \/ i = 0 /\ Fault("oom") /\ UNCHANGED <<prot, pages, job, pc>>
        \/ /\ i = 0
           /\ \E p \in Free :
                /\ prot' = [prot EXCEPT ![p] = "rx"]
                /\ pages' = Append(pages, NewPage(p))
           /\ job' = [job EXCEPT ![t].page = Len(pages) + 1]
           /\ UNCHANGED fault /\ Go(t, "read")
    BY <1>2 DEF AllocateChunk
  <1>5. "read" \in Place
    BY DEF Place, Arena
  <1>6. ASSUME NEW n \in Nat, job' = [job EXCEPT ![t].page = n], Go(t, "read")
        PROVE  /\ pc' \in [Thread -> Place] /\ job' \in [Thread -> JobRecord]
               /\ pc'[t] = "read" /\ job'[t] = [job[t] EXCEPT !.page = n] /\ Keeps(t)
    <2>1. PICK j : j = [job[t] EXCEPT !.page = n]
      OBVIOUS
    <2>2. j \in JobRecord
      BY <2>1 DEF Typed, JobRecord
    <2>3. job' = [job EXCEPT ![t] = j]
      BY <1>6, <2>1 DEF Typed
    <2>4. pc' = [pc EXCEPT ![t] = "read"]
      BY <1>6 DEF Go
    <2> QED BY <2>1, <2>2, <2>3, <2>4, <1>5, OneMoves
  <1>7. CASE /\ i # 0 /\ job' = [job EXCEPT ![t].page = i]
             /\ Go(t, "read") /\ UNCHANGED <<prot, pages, fault>>
    <2>1. i \in S
      <3>1. S \in SUBSET (1..Len(pages))
        OBVIOUS
      <3> HIDE DEF S
      <3> QED BY <3>1, <1>2, <1>3, <1>7, LowestIs
    <2>2. i \in 1..Len(pages) /\ i \in Nat /\ Roomy(pages[i], ChunkSize(job[t]))
      BY <2>1, <1>3
    <2>3. /\ pc' \in [Thread -> Place] /\ job' \in [Thread -> JobRecord]
          /\ pc'[t] = "read" /\ job'[t] = [job[t] EXCEPT !.page = i] /\ Keeps(t)
      BY <2>2, <1>6, <1>7
    <2>4. Typed'
      BY <2>3, <1>1, <1>7 DEF Typed, Rest
    <2> QED BY <1>1, <1>7, <2>2, <2>3, <2>4
  <1>8. CASE i = 0 /\ Fault("oom") /\ UNCHANGED <<prot, pages, job, pc>>
    <2>1. Typed' /\ Keeps(t)
      BY <1>1, <1>8 DEF Typed, Keeps, Rest
    <2> QED BY <1>1, <1>8, <2>1 DEF Fault
  <1>9. CASE /\ i = 0
             /\ \E p \in Free :
                  /\ prot' = [prot EXCEPT ![p] = "rx"]
                  /\ pages' = Append(pages, NewPage(p))
             /\ job' = [job EXCEPT ![t].page = Len(pages) + 1]
             /\ UNCHANGED fault /\ Go(t, "read")
    <2>1. PICK p \in Free : prot' = [prot EXCEPT ![p] = "rx"] /\ pages' = Append(pages, NewPage(p))
      BY <1>9
    <2>2. p \in 0..Pages - 1 /\ prot[p] = "none"
      BY DEF Free
    <2>3. Len(pages) + 1 \in Nat
      BY <1>3
    <2>4. /\ pc' \in [Thread -> Place] /\ job' \in [Thread -> JobRecord]
          /\ pc'[t] = "read" /\ job'[t] = [job[t] EXCEPT !.page = Len(pages) + 1] /\ Keeps(t)
      BY <2>3, <1>6, <1>9
    <2>5. NewPage(p) \in PageRecord
      BY <2>2, NewPageIs
    <2>6. pages' \in Seq(PageRecord) /\ prot' \in [0..Pages - 1 -> {"none", "r", "rx", "rwx"}]
      <3>1. PICK q : q = NewPage(p)
        OBVIOUS
      <3>2. pages' \in Seq(PageRecord)
        BY <2>1, <2>5, <3>1, AppendProperties DEF Typed
      <3>3. prot' \in [0..Pages - 1 -> {"none", "r", "rx", "rwx"}]
        BY <2>1, <2>2 DEF Typed
      <3> QED BY <3>2, <3>3
    <2>7. Typed'
      BY <2>4, <2>6, <1>1 DEF Typed, Rest
    <2> QED BY <1>1, <1>9, <2>1, <2>2, <2>4, <2>7
  <1> QED BY <1>4, <1>7, <1>8, <1>9

(* chunk->address = page->page_cursor.                                     *)
LEMMA ReadCursorIs ==
  ASSUME Typed, NEW t \in Thread, Shape(t), ReadCursor(t)
  PROVE  /\ Typed' /\ Keeps(t) /\ UNCHANGED Memory /\ UNCHANGED Rest
         /\ UNCHANGED <<fault, odd>> /\ Alive
         /\ \/ /\ pc[t] = "read" /\ pc'[t] = "bump"
               /\ job'[t] = [job[t] EXCEPT !.at = pages[job[t].page].cursor]
            \/ /\ pc[t] = "readNear" /\ pc'[t] = "bumpNear"
               /\ job'[t] = [job[t] EXCEPT !.at = nears[job[t].page].cursor]
  <1>1. /\ UNCHANGED Memory /\ UNCHANGED Rest /\ UNCHANGED <<fault, odd>> /\ Alive
        /\ pc[t] \in {"read", "readNear"}
    BY DEF ReadCursor
  <1>2. PICK a : a = (IF pc[t] = "read" THEN pages ELSE nears)[job[t].page].cursor
    OBVIOUS
  <1>3. PICK l : l = IF pc[t] = "read" THEN "bump" ELSE "bumpNear"
    OBVIOUS
  <1>4. a \in Nat /\ (pc[t] = "read" => a = pages[job[t].page].cursor)
        /\ (pc[t] = "readNear" => a = nears[job[t].page].cursor)
    <2>1. CASE pc[t] = "read"
      <3>1. pages[job[t].page] \in PageRecord
        BY <2>1 DEF Shape, Typed
      <3> QED BY <2>1, <3>1, <1>2 DEF PageRecord
    <2>2. CASE pc[t] = "readNear"
      <3>1. nears[job[t].page] \in PageRecord
        BY <2>2 DEF Shape, Typed
      <3> QED BY <2>2, <3>1, <1>2 DEF PageRecord
    <2> QED BY <1>1, <2>1, <2>2
  <1>5. PICK j : j = [job[t] EXCEPT !.at = a]
    OBVIOUS
  <1>6. j \in JobRecord /\ l \in Place
    BY <1>3, <1>4, <1>5 DEF Typed, JobRecord, Place, Arena, NearArena
  <1>7. job' = [job EXCEPT ![t] = j]
    BY <1>2, <1>5 DEF ReadCursor, Typed
  <1>8. pc' = [pc EXCEPT ![t] = l]
    BY <1>3 DEF ReadCursor, Go
  <1>9. /\ pc' \in [Thread -> Place] /\ job' \in [Thread -> JobRecord]
        /\ pc'[t] = l /\ job'[t] = j /\ Keeps(t)
    BY <1>6, <1>7, <1>8, OneMoves
  <1>10. Typed'
    BY <1>1, <1>9, TypedKept
  <1> QED BY <1>1, <1>3, <1>4, <1>5, <1>9, <1>10

(* The cursor of one page of an arena moves on by n.                       *)
Bumped(old, new, i, n) ==
  /\ Len(new) = Len(old)
  /\ \A k \in 1..Len(old) : new[k].base = old[k].base
  /\ \A k \in 1..Len(old) : k # i => new[k].cursor = old[k].cursor
  /\ new[i].cursor = old[i].cursor + n

(* Adding to the cursor of one page is just that.                          *)
LEMMA BumpedIs ==
  ASSUME NEW qs \in Seq(PageRecord), NEW i \in 1..Len(qs), NEW n \in Nat,
         NEW rs, rs = [qs EXCEPT ![i].cursor = @ + n]
  PROVE  rs \in Seq(PageRecord) /\ Bumped(qs, rs, i, n)
  <1>1. PICK r : r = [qs[i] EXCEPT !.cursor = qs[i].cursor + n]
    OBVIOUS
  <1>2. qs[i] \in PageRecord
    OBVIOUS
  <1>3. r \in PageRecord /\ r.base = qs[i].base /\ r.cursor = qs[i].cursor + n
    <2>1. PICK q, c : q = qs[i] /\ c = q.cursor + n
      OBVIOUS
    <2>2. q \in PageRecord /\ r = [q EXCEPT !.cursor = c]
      BY <1>1, <1>2, <2>1
    <2>3. q.cursor \in Nat /\ q.base \in Nat
      BY <2>2 DEF PageRecord
    <2>4. c \in Nat
      BY <2>1, <2>3
    <2>5. r \in PageRecord /\ r.base = q.base /\ r.cursor = c
      BY <2>2, <2>4 DEF PageRecord
    <2> QED BY <2>1, <2>5
  <1>4. rs = [qs EXCEPT ![i] = r]
    BY <1>1
  <1>5. /\ rs \in Seq(PageRecord) /\ Len(rs) = Len(qs)
        /\ \A k \in 1..Len(qs) : rs[k] = IF k = i THEN r ELSE qs[k]
    BY <1>3, <1>4, ExceptSeq
  <1> QED BY <1>3, <1>5 DEF Bumped

(* page->page_cursor += inSize.                                            *)
LEMMA BumpCursorIs ==
  ASSUME Typed, NEW t \in Thread, Shape(t), BumpCursor(t)
  PROVE  /\ Typed' /\ Keeps(t) /\ UNCHANGED Rest /\ UNCHANGED <<job, fault, prot, writes, odd>>
         /\ Alive /\ pc'[t] = "unprotect" /\ ChunkSize(job[t]) \in Nat
         /\ \/ /\ pc[t] = "bump" /\ nears' = nears
               /\ Bumped(pages, pages', job[t].page, ChunkSize(job[t]))
            \/ /\ pc[t] = "bumpNear" /\ pages' = pages
               /\ Bumped(nears, nears', job[t].page, ChunkSize(job[t]))
  <1>1. /\ UNCHANGED Rest /\ UNCHANGED <<job, fault, prot, writes, odd>> /\ Alive
        /\ Go(t, "unprotect")
    BY DEF BumpCursor
  <1>2. PICK i, n : i = job[t].page /\ n = ChunkSize(job[t])
    OBVIOUS
  <1>3. n \in Nat
    BY <1>2 DEF ChunkSize, Typed, JobRecord
  <1>4. /\ pc' \in [Thread -> Place] /\ job' \in [Thread -> JobRecord]
        /\ pc'[t] = "unprotect" /\ Keeps(t)
    BY <1>1 DEF Go, Typed, Keeps, Place, Patching
  <1>5. \/ /\ pc[t] = "bump" /\ pages' = [pages EXCEPT ![i].cursor = @ + n] /\ nears' = nears
        \/ /\ pc[t] = "bumpNear" /\ nears' = [nears EXCEPT ![i].cursor = @ + n] /\ pages' = pages
    BY <1>2 DEF BumpCursor, After
  <1>6. CASE pc[t] = "bump" /\ pages' = [pages EXCEPT ![i].cursor = @ + n] /\ nears' = nears
    <2>1. i \in 1..Len(pages)
      BY <1>2, <1>6 DEF Shape
    <2>2. pages' \in Seq(PageRecord) /\ Bumped(pages, pages', i, n)
      BY <2>1, <1>3, <1>6, BumpedIs DEF Typed
    <2>3. Typed'
      BY <2>2, <1>1, <1>4, <1>6 DEF Typed, Rest
    <2> QED BY <1>1, <1>2, <1>3, <1>4, <1>6, <2>2, <2>3
  <1>7. CASE pc[t] = "bumpNear" /\ nears' = [nears EXCEPT ![i].cursor = @ + n] /\ pages' = pages
    <2>1. i \in 1..Len(nears)
      BY <1>2, <1>7 DEF Shape
    <2>2. nears' \in Seq(PageRecord) /\ Bumped(nears, nears', i, n)
      BY <2>1, <1>3, <1>7, BumpedIs DEF Typed
    <2>3. Typed'
      BY <2>2, <1>1, <1>4, <1>7 DEF Typed, Rest
    <2> QED BY <1>1, <1>2, <1>3, <1>4, <1>7, <2>2, <2>3
  <1> QED BY <1>5, <1>6, <1>7

(* The page of a hooked function is mapped.                                *)
LEMMA FnMapped ==
  ASSUME Typed, MappedText, NEW f \in Fn
  PROVE  /\ Start[f] \in Nat /\ Page(Start[f]) \in Text /\ Page(Start[f]) \in 0..Pages - 1
         /\ prot[Page(Start[f])] # "none"
  BY Sizes DEF MappedText

(* NearMemoryArena::AllocateChunk: a page of its own.                      *)
LEMMA NearFromPageIs ==
  ASSUME Typed, NEW t \in Thread, NearFromPage(t)
  PROVE  /\ Typed' /\ Keeps(t) /\ UNCHANGED Memory /\ UNCHANGED Rest
         /\ UNCHANGED <<fault, odd>> /\ Alive /\ pc[t] = "pickNear" /\ pc'[t] = "readNear"
         /\ \E i \in 1..Len(nears) :
              Roomy(nears[i], job[t].len) /\ job'[t] = [job[t] EXCEPT !.page = i]
  <1>1. /\ UNCHANGED Memory /\ UNCHANGED Rest /\ UNCHANGED <<fault, odd>> /\ Alive
        /\ pc[t] = "pickNear"
    BY DEF NearFromPage
  <1> DEFINE S == {k \in 1..Len(nears) :
                     Roomy(nears[k], job[t].len) /\ Reachable(Start[job[t].f], nears[k].cursor)}
  <1>2. PICK i : i = Lowest(S)
    OBVIOUS
  <1>3. i # 0 /\ job' = [job EXCEPT ![t].page = i] /\ Go(t, "readNear")
    BY <1>2 DEF NearFromPage, NearRoom
  <1>4. Len(nears) \in Nat
    BY DEF Typed
  <1>5. i \in S
    <2>1. S \in SUBSET (1..Len(nears))
      OBVIOUS
    <2> HIDE DEF S
    <2> QED BY <2>1, <1>2, <1>3, <1>4, LowestIs
  <1>6. i \in 1..Len(nears) /\ i \in Nat /\ Roomy(nears[i], job[t].len)
    BY <1>4, <1>5
  <1>7. PICK j : j = [job[t] EXCEPT !.page = i]
    OBVIOUS
  <1>8. j \in JobRecord /\ "readNear" \in Place
    BY <1>6, <1>7 DEF Typed, JobRecord, Place, NearArena
  <1>9. job' = [job EXCEPT ![t] = j] /\ pc' = [pc EXCEPT ![t] = "readNear"]
    BY <1>3, <1>7 DEF Typed, Go
  <1>10. /\ pc' \in [Thread -> Place] /\ job' \in [Thread -> JobRecord]
         /\ pc'[t] = "readNear" /\ job'[t] = j /\ Keeps(t)
    BY <1>8, <1>9, OneMoves
  <1>11. Typed'
    BY <1>1, <1>10, TypedKept
  <1> QED BY <1>1, <1>6, <1>7, <1>10, <1>11

(* ... a page that looks blank, mapped over whatever is there ...          *)
MapRecord(p) == [at |-> p * PageSize, len |-> PageSize, by |-> "none", what |-> "map"]
(* NearMemoryArena maps a page: never on x64 and ia32, whose range is      *)
(* negative.                                                               *)
LEMMA NearMapPageIs ==
  ASSUME Typed, MappedText, NEW t \in Thread, Shape(t), NearMapPage(t)
  PROVE  /\ Typed' /\ UNCHANGED <<pages, pc, job, fault>> /\ UNCHANGED Rest /\ Alive
         /\ ~X86
         /\ \E p \in 0..Pages - 1 :
              /\ Noting("blind", prot[p] # "none")
              /\ prot' = [prot EXCEPT ![p] = "rx"]
              /\ writes' = Append(writes, MapRecord(p)) /\ MapRecord(p) \in WriteRecord
              /\ nears' = Append(nears, NewPage(p))
  <1>1. UNCHANGED <<pages, pc, job, fault>> /\ UNCHANGED Rest /\ Alive /\ pc[t] = "pickNear"
    BY DEF NearMapPage
  <1>2. job[t].f \in Fn
    BY <1>1 DEF Shape
  <1>3. PICK pos \in Nat, p0 \in 0..Pages - 1 : pos = Start[job[t].f] /\ prot[p0] # "none"
    BY <1>2, FnMapped
  <1>4. PICK beyond \in {0, Pages} : \E p \in search_near_blank_page(pos, beyond) :
               /\ Noting("blind", prot[p] # "none")
               /\ prot' = [prot EXCEPT ![p] = "rx"]
               /\ writes' = Append(writes, MapRecord(p))
               /\ nears' = Append(nears, NewPage(p))
    BY <1>3 DEF NearMapPage, MapRecord
  <1>5. PICK p \in search_near_blank_page(pos, beyond) :
               /\ Noting("blind", prot[p] # "none")
               /\ prot' = [prot EXCEPT ![p] = "rx"]
               /\ writes' = Append(writes, MapRecord(p))
               /\ nears' = Append(nears, NewPage(p))
    BY <1>4
  <1>6. p \in 0..Pages - 1 /\ ~X86
    BY <1>3, BlankPage DEF Typed
  <1>7. MapRecord(p) \in WriteRecord
    <2>1. p * PageSize \in Nat /\ PageSize \in Nat
      BY <1>6, NewPageIs, Sizes
    <2> QED BY <2>1 DEF MapRecord, WriteRecord
  <1>8. NewPage(p) \in PageRecord
    BY <1>6, NewPageIs
  <1>9. writes' \in Seq(WriteRecord) /\ nears' \in Seq(PageRecord)
    BY <1>5, <1>7, <1>8, AppendProperties DEF Typed
  <1>10. prot' \in [0..Pages - 1 -> {"none", "r", "rx", "rwx"}]
    BY <1>5, <1>6 DEF Typed
  <1>11. Typed'
    BY <1>1, <1>9, <1>10 DEF Typed, Rest
  <1> QED BY <1>1, <1>5, <1>6, <1>7, <1>11

(* ... a run of zeros ...                                                  *)
LEMMA NearFromCaveIs ==
  ASSUME Typed, MappedText, NEW t \in Thread, Shape(t), NearFromCave(t)
  PROVE  /\ Typed' /\ Keeps(t) /\ UNCHANGED Memory /\ UNCHANGED Rest /\ fault' = fault /\ Alive
         /\ ~X86 /\ odd' = odd \cup {"cave"} /\ pc[t] = "pickNear" /\ pc'[t] = "unprotect"
         /\ \E a \in Nat : Page(a) \in 0..Pages - 1 /\ job'[t] = [job[t] EXCEPT !.at = a]
  <1>1. /\ UNCHANGED Memory /\ UNCHANGED Rest /\ fault' = fault /\ Alive /\ pc[t] = "pickNear"
        /\ odd' = odd \cup {"cave"}
    BY DEF NearFromCave, Noting
  <1>2. job[t].f \in Fn /\ job[t].len = ForwardSize
    BY <1>1 DEF Shape, NearArena
  <1>3. PICK pos \in Nat, p0 \in 0..Pages - 1 : pos = Start[job[t].f] /\ prot[p0] # "none"
    BY <1>2, FnMapped
  <1>4. PICK a \in search_near_blank_memory_chunk(pos, ForwardSize) : job' = [job EXCEPT ![t].at = a]
    BY <1>2, <1>3 DEF NearFromCave
  <1>5. a \in Nat /\ Page(a) \in 0..Pages - 1 /\ ~X86
    BY <1>3, Cave DEF Typed
  <1>6. PICK j : j = [job[t] EXCEPT !.at = a]
    OBVIOUS
  <1>7. j \in JobRecord /\ "unprotect" \in Place
    BY <1>5, <1>6 DEF Typed, JobRecord, Place, Patching
  <1>8. job' = [job EXCEPT ![t] = j]
    BY <1>4, <1>6 DEF Typed
  <1>9. pc' = [pc EXCEPT ![t] = "unprotect"]
    BY DEF NearFromCave, Go
  <1>10. /\ pc' \in [Thread -> Place] /\ job' \in [Thread -> JobRecord]
         /\ pc'[t] = "unprotect" /\ job'[t] = j /\ Keeps(t)
    BY <1>7, <1>8, <1>9, OneMoves
  <1>11. Typed'
    BY <1>1, <1>10, TypedKept
  <1> QED BY <1>1, <1>5, <1>6, <1>10, <1>11

(* ... or NULL.                                                            *)
LEMMA NearNotFoundIs ==
  ASSUME Typed, NEW t \in Thread, NearNotFound(t)
  PROVE  /\ Typed' /\ Keeps(t) /\ UNCHANGED Memory /\ UNCHANGED Rest /\ odd' = odd /\ Alive
         /\ pc[t] = "pickNear"
         /\ \/ ~X86 /\ Relocates(t) /\ fault' = fault
            \/ X86 /\ fault' = "stub" /\ UNCHANGED <<job, pc>>
  <1>1. UNCHANGED Memory /\ UNCHANGED Rest /\ odd' = odd /\ Alive /\ pc[t] = "pickNear"
    BY DEF NearNotFound
  <1>2. CASE arch = "arm64" /\ NormalArm64(t) /\ fault' = fault
    <2>1. GenerateNormalTrampolineBuffer(t) /\ ~X86
      BY <1>2 DEF GenerateNormalTrampolineBuffer, X86
    <2>2. Relocates(t)
      BY <2>1, NormalGoes
    <2>3. pc' \in [Thread -> Place] /\ job' \in [Thread -> JobRecord] /\ Keeps(t)
      BY <2>2, RelocatesIs DEF Keeps
    <2>4. Typed'
      BY <1>1, <2>3, TypedKept
    <2> QED BY <1>1, <1>2, <2>1, <2>2, <2>3, <2>4
  <1>3. CASE X86 /\ fault' = "stub" /\ UNCHANGED <<job, pc>>
    <2>1. Typed' /\ Keeps(t)
      BY <1>1, <1>3 DEF Typed, Keeps, Memory, Rest
    <2> QED BY <1>1, <1>3, <2>1
  <1> QED BY <1>2, <1>3 DEF NearNotFound, Fault

(* CodePatch makes the page of the chunk writable ...                      *)
LEMMA UnprotectIs ==
  ASSUME Typed, NEW t \in Thread, Unprotect(t)
  PROVE  /\ Typed' /\ Keeps(t) /\ UNCHANGED <<pages, nears, writes, odd, job, fault>>
         /\ UNCHANGED Rest /\ Alive /\ pc[t] = "unprotect" /\ pc'[t] = "copy"
         /\ prot' = [prot EXCEPT ![Page(job[t].at)] = "rwx"]
  <1>1. /\ UNCHANGED <<pages, nears, writes, odd, job, fault>> /\ UNCHANGED Rest /\ Alive
        /\ pc[t] = "unprotect" /\ prot' = [prot EXCEPT ![Page(job[t].at)] = "rwx"]
        /\ pc' = [pc EXCEPT ![t] = "copy"]
    BY DEF Unprotect, Go
  <1>2. pc' \in [Thread -> Place] /\ pc'[t] = "copy" /\ Keeps(t)
    BY <1>1 DEF Typed, Place, Patching, Keeps
  <1>3. PICK p : p = Page(job[t].at)
    OBVIOUS
  <1>4. prot' \in [0..Pages - 1 -> {"none", "r", "rx", "rwx"}]
    BY <1>1, <1>3 DEF Typed
  <1> QED BY <1>1, <1>2, <1>4 DEF Typed, Rest

(* ... copies, if every byte is writable ...                               *)
CodeRecord(j) == [at |-> j.at, len |-> j.len, by |-> j.f, what |-> j.next]
Writable(a, n) == \A b \in Span(a, n) : Page(b) < Pages /\ prot[Page(b)] = "rwx"
(* What Copy does: a record of the write, or the fault.                    *)
LEMMA CopyIs ==
  ASSUME Typed, NEW t \in Thread, Shape(t), Copy(t)
  PROVE  /\ Typed' /\ Keeps(t) /\ UNCHANGED <<prot, pages, nears, odd, job>>
         /\ UNCHANGED Rest /\ Alive /\ pc[t] = "copy"
         /\ \/ /\ Writable(job[t].at, job[t].len)
               /\ writes' = Append(writes, CodeRecord(job[t])) /\ CodeRecord(job[t]) \in WriteRecord
               /\ pc'[t] = "protect" /\ fault' = fault
            \/ /\ ~Writable(job[t].at, job[t].len)
               /\ fault' = IF Crosses(job[t].at, job[t].len) THEN "crosses" ELSE "patch"
               /\ UNCHANGED <<writes, pc>>
  <1>1. UNCHANGED <<prot, pages, nears, odd, job>> /\ UNCHANGED Rest /\ Alive /\ pc[t] = "copy"
    BY DEF Copy
  <1>2. CASE Writable(job[t].at, job[t].len)
    <2>1. /\ writes' = Append(writes, CodeRecord(job[t]))
          /\ pc' = [pc EXCEPT ![t] = "protect"] /\ fault' = fault
      BY <1>2 DEF Copy, Writable, CodeRecord, Go
    <2>2. CodeRecord(job[t]) \in WriteRecord
      BY <1>1 DEF CodeRecord, WriteRecord, Typed, JobRecord, Shape, Patching
    <2>3. writes' \in Seq(WriteRecord)
      BY <2>1, <2>2, AppendProperties DEF Typed
    <2>4. pc' \in [Thread -> Place] /\ pc'[t] = "protect" /\ Keeps(t)
      BY <1>1, <2>1 DEF Typed, Place, Patching, Keeps
    <2>5. Typed'
      BY <1>1, <2>3, <2>4 DEF Typed, Rest
    <2> QED BY <1>1, <1>2, <2>1, <2>2, <2>4, <2>5
  <1>3. CASE ~Writable(job[t].at, job[t].len)
    <2>1. /\ fault' = IF Crosses(job[t].at, job[t].len) THEN "crosses" ELSE "patch"
          /\ UNCHANGED <<writes, pc>>
      BY <1>3 DEF Copy, Writable, Fault
    <2>2. Typed' /\ Keeps(t)
      BY <1>1, <2>1 DEF Typed, Rest, Keeps
    <2> QED BY <1>1, <1>3, <2>1, <2>2
  <1> QED BY <1>2, <1>3

(* ... and makes it executable again.                                      *)
LEMMA ProtectIs ==
  ASSUME Typed, NEW t \in Thread, Protect(t)
  PROVE  /\ Typed' /\ Keeps(t) /\ UNCHANGED <<pages, nears, writes, odd, fault>>
         /\ UNCHANGED Rest /\ Alive /\ pc[t] = "protect"
         /\ prot' = [prot EXCEPT ![Page(job[t].at)] = "rx"]
         /\ \/ /\ job[t].next = "bridge" /\ pc'[t] = "pick" /\ job'[t].f = job[t].f
               /\ job'[t].len = ClosureSize /\ job'[t].next = "closure"
            \/ job[t].next = "closure" /\ pc'[t] = "gen" /\ job'[t] = job[t]
            \/ job[t].next = "forward" /\ Relocates(t)
            \/ job[t].next = "add" /\ pc'[t] = "add" /\ job'[t] = job[t]
            \/ job[t].next = "done" /\ pc'[t] = "idle" /\ job'[t] = NoJob
  <1> DEFINE Kept == pc' \in [Thread -> Place] /\ job' \in [Thread -> JobRecord] /\ Keeps(t)
  <1>1. /\ UNCHANGED <<pages, nears, writes, odd, fault>> /\ UNCHANGED Rest /\ Alive
        /\ pc[t] = "protect" /\ prot' = [prot EXCEPT ![Page(job[t].at)] = "rx"]
        /\ AfterProtect(t)
    BY DEF Protect
  <1>2. PICK p : p = Page(job[t].at)
    OBVIOUS
  <1>3. prot' \in [0..Pages - 1 -> {"none", "r", "rx", "rwx"}]
    BY <1>1, <1>2 DEF Typed
  <1>4. ASSUME Kept PROVE Typed'
    BY <1>1, <1>3, <1>4 DEF Typed, Rest
  <1>5. CASE /\ job[t].next = "bridge" /\ Go(t, "pick")
             /\ job' = [job EXCEPT ![t].len = ClosureSize, ![t].next = "closure"]
    <2>1. PICK j : j = [job[t] EXCEPT !.len = ClosureSize, !.next = "closure"]
      OBVIOUS
    <2>2. j \in JobRecord /\ j.f = job[t].f /\ j.len = ClosureSize /\ j.next = "closure"
          /\ "pick" \in Place
      BY <2>1, Sizes DEF Typed, JobRecord, Purpose, ArenaCode, Place, Arena
    <2>3. job' = [job EXCEPT ![t] = j] /\ pc' = [pc EXCEPT ![t] = "pick"]
      BY <1>5, <2>1 DEF Typed, Go
    <2>4. Kept /\ pc'[t] = "pick" /\ job'[t] = j
      BY <2>2, <2>3, OneMoves
    <2> QED BY <1>1, <1>4, <1>5, <2>2, <2>4
  <1>6. CASE job[t].next = "closure" /\ Go(t, "gen") /\ UNCHANGED job
    <2>1. Kept /\ pc'[t] = "gen"
      BY <1>6 DEF Typed, Keeps, Go, Place
    <2> QED BY <1>1, <1>4, <1>6, <2>1
  <1>7. CASE job[t].next = "forward" /\ GenerateRelocatedCode(t, NearSize)
    <2>1. Relocates(t)
      BY <1>7, Sizes DEF Relocates
    <2>2. Kept
      BY <2>1, RelocatesIs DEF Keeps
    <2> QED BY <1>1, <1>4, <1>7, <2>1, <2>2
  <1>8. CASE job[t].next = "add" /\ Go(t, "add") /\ UNCHANGED job
    <2>1. Kept /\ pc'[t] = "add"
      BY <1>8 DEF Typed, Keeps, Go, Place
    <2> QED BY <1>1, <1>4, <1>8, <2>1
  <1>9. CASE job[t].next = "done" /\ Go(t, "idle") /\ job' = [job EXCEPT ![t] = NoJob]
    <2>1. NoJob \in JobRecord /\ "idle" \in Place
      BY DEF NoJob, JobRecord, Place
    <2>2. Kept /\ pc'[t] = "idle" /\ job'[t] = NoJob
      BY <1>9, <2>1, OneMoves DEF Go
    <2> QED BY <1>1, <1>4, <1>9, <2>2
  <1> QED BY <1>1, <1>5, <1>6, <1>7, <1>8, <1>9 DEF AfterProtect

(* AddHookEntry: the entry, and then the patch of the function.            *)
LEMMA AddHookEntryIs ==
  ASSUME Typed, NEW t \in Thread, Shape(t), AddHookEntry(t)
  PROVE  /\ Typed' /\ Keeps(t) /\ UNCHANGED Memory /\ UNCHANGED <<arch, odd, fault>> /\ Alive
         /\ pc[t] = "add" /\ pc'[t] = "unprotect" /\ entries' = entries \cup {job[t].f}
         /\ job'[t].f = job[t].f /\ job'[t].size = job[t].size /\ job'[t].next = "done"
         /\ job'[t].at = Start[job[t].f] /\ job'[t].len = job[t].size
  <1>1. /\ UNCHANGED Memory /\ UNCHANGED <<arch, odd, fault>> /\ Alive
        /\ pc[t] = "add" /\ entries' = entries \cup {job[t].f}
    BY DEF AddHookEntry
  <1>2. job[t].f \in Fn
    BY <1>1 DEF Shape
  <1>3. PICK a \in Nat : a = Start[job[t].f]
    BY <1>2, Sizes
  <1>4. PICK j : j = [job[t] EXCEPT !.at = a, !.len = job[t].size, !.next = "done"]
    OBVIOUS
  <1>5. /\ j \in JobRecord /\ j.f = job[t].f /\ j.at = a /\ j.len = job[t].size
        /\ j.size = job[t].size /\ j.next = "done" /\ "unprotect" \in Place
    BY <1>4 DEF Typed, JobRecord, Purpose, Place, Patching
  <1>6. job' = [job EXCEPT ![t] = j] /\ pc' = [pc EXCEPT ![t] = "unprotect"]
    BY <1>3, <1>4 DEF AddHookEntry, Go, Typed
  <1>7. /\ pc' \in [Thread -> Place] /\ job' \in [Thread -> JobRecord]
        /\ pc'[t] = "unprotect" /\ job'[t] = j /\ Keeps(t)
    BY <1>5, <1>6, OneMoves
  <1>8. Typed'
    BY <1>1, <1>2, <1>7 DEF Typed, Memory
  <1> QED BY <1>1, <1>3, <1>5, <1>7, <1>8

-----------------------------------------------------------------------------
(* What a thread holds.                                                    *)

(* Another thread's job is what it was, with as many pages or more.        *)
LEMMA ShapeKept ==
  ASSUME Typed, NEW u \in Thread, Shape(u), pc'[u] = pc[u], job'[u] = job[u],
         Len(pages) <= Len(pages'), Len(nears) <= Len(nears'),
         Len(pages') \in Nat, Len(nears') \in Nat, entries \subseteq entries'
  PROVE  Shape(u)'
  <1>1. Len(pages) \in Nat /\ Len(nears) \in Nat
    BY DEF Typed
  <1> QED BY <1>1 DEF Shape

(* The other threads keep their shape, so it is enough to look at the one  *)
(* that moves.                                                             *)
LEMMA ShapedKept ==
  ASSUME Typed, Typed', Shaped, NEW t \in Thread, Keeps(t), Shape(t)',
         Len(pages) <= Len(pages'), Len(nears) <= Len(nears'), entries \subseteq entries'
  PROVE  Shaped'
  <1>1. Len(pages') \in Nat /\ Len(nears') \in Nat
    BY DEF Typed
  <1>2. ASSUME NEW u \in Thread PROVE Shape(u)'
    <2>1. CASE u = t
      BY <2>1
    <2>2. CASE u # t
      BY <2>2, <1>1, ShapeKept DEF Shaped, Keeps
    <2> QED BY <2>1, <2>2
  <1> QED BY <1>2 DEF Shaped

(* A relocated job has its shape, and so has one that waits for a chunk    *)
(* near the function.                                                      *)
LEMMA RelocatesShape ==
  ASSUME Typed, NEW t \in Thread, Shape(t), Relocates(t), pc[t] # "idle"
  PROVE  Shape(t)'
  <1>1. /\ pc'[t] = "pick" /\ job'[t].f \in Fn /\ job'[t].next = "add"
        /\ job'[t].len = RelocSize /\ job'[t].size <= NormalSize + 1
    BY RelocatesIs DEF Shape
  <1>2. RelocSize + 4 < PageSize
    BY Sizes
  <1> QED BY <1>1, <1>2 DEF Shape, Arena, NearArena, Patching, ArenaCode

(* AllocateNear leaves a thread with a job for the near arena.             *)
LEMMA AllocateNearShape ==
  ASSUME Typed, NEW t \in Thread, Shape(t), AllocateNear(t), pc[t] # "idle"
  PROVE  Shape(t)'
  <1>1. /\ pc'[t] = "pickNear" /\ job'[t].f \in Fn /\ job'[t].next = "forward"
        /\ job'[t].len = ForwardSize
    BY AllocateNearIs DEF Shape
  <1> QED BY <1>1 DEF Shape, Arena, NearArena, Patching, ArenaCode

(* Mapped pages stay mapped.                                               *)
Stays == \A p \in 0..Pages - 1 : prot[p] # "none" => prot'[p] # "none"

(* Setting a page to something mapped takes no page away.                  *)
LEMMA StaysSet ==
  ASSUME Typed, NEW q, NEW v \in {"rx", "rwx"}, prot' = [prot EXCEPT ![q] = v]
  PROVE  Stays /\ (q \in 0..Pages - 1 => prot'[q] = v)
  BY DEF Stays, Typed

(* An arena keeps its pages as long as none is taken away.                 *)
LEMMA OwnedKept ==
  ASSUME NEW qs, NEW pr, NEW pr2, Owned(qs, pr),
         \A p \in 0..Pages - 1 : pr[p] # "none" => pr2[p] # "none"
  PROVE  Owned(qs, pr2)
  BY DEF Owned

(* A page newly mapped may be added to an arena.                           *)
LEMMA OwnedAppend ==
  ASSUME NEW qs \in Seq(PageRecord), NEW rs, NEW pr, NEW pr2, Owned(qs, pr),
         NEW q \in 0..Pages - 1, rs = Append(qs, NewPage(q)), pr2[q] # "none",
         \A p \in 0..Pages - 1 : pr[p] # "none" => pr2[p] # "none"
  PROVE  Owned(rs, pr2)
  <1>1. /\ NewPage(q) \in PageRecord /\ q * PageSize \in Nat
        /\ NewPage(q).base = q * PageSize /\ NewPage(q).cursor = q * PageSize
    BY NewPageIs
  <1>2. /\ Len(rs) = Len(qs) + 1 /\ Len(qs) \in Nat
        /\ \A i \in 1..Len(qs) : rs[i] = qs[i]
        /\ rs[Len(qs) + 1] = NewPage(q)
    BY <1>1, AppendProperties
  <1>3. ASSUME NEW i \in 1..Len(rs)
        PROVE  /\ rs[i].base <= rs[i].cursor
               /\ \E p \in 0..Pages - 1 : rs[i].base = p * PageSize /\ pr2[p] # "none"
    <2>1. CASE i \in 1..Len(qs)
      BY <2>1, <1>2 DEF Owned
    <2>2. CASE i = Len(qs) + 1
      <3>1. rs[i].base = q * PageSize /\ rs[i].cursor = q * PageSize
        BY <2>2, <1>1, <1>2
      <3>2. rs[i].base <= rs[i].cursor
        BY <3>1, <1>1
      <3>3. \E p \in 0..Pages - 1 : rs[i].base = p * PageSize /\ pr2[p] # "none"
        BY <3>1
      <3> QED BY <3>2, <3>3
    <2> QED BY <1>2, <2>1, <2>2
  <1> QED BY <1>3 DEF Owned

(* Moving a cursor on keeps it past the base of its page.                  *)
LEMMA OwnedBumped ==
  ASSUME NEW qs \in Seq(PageRecord), NEW rs, NEW pr, Owned(qs, pr), NEW i \in 1..Len(qs),
         NEW n \in Nat, Bumped(qs, rs, i, n)
  PROVE  Owned(rs, pr)
  <1>1. ASSUME NEW k \in 1..Len(rs)
        PROVE  /\ rs[k].base <= rs[k].cursor
               /\ \E p \in 0..Pages - 1 : rs[k].base = p * PageSize /\ pr[p] # "none"
    <2>1. k \in 1..Len(qs) /\ rs[k].base = qs[k].base
      BY DEF Bumped
    <2>2. qs[k].base \in Nat /\ qs[k].cursor \in Nat
      <3>1. PICK q : q = qs[k]
        OBVIOUS
      <3>2. q \in PageRecord
        BY <2>1, <3>1
      <3> QED BY <3>1, <3>2 DEF PageRecord
    <2>3. rs[k].cursor = qs[k].cursor \/ rs[k].cursor = qs[k].cursor + n
      BY <2>1 DEF Bumped
    <2>4. qs[k].base <= qs[k].cursor
      BY <2>1 DEF Owned
    <2>5. rs[k].base <= rs[k].cursor
      BY <2>1, <2>2, <2>3, <2>4
    <2> QED BY <2>1, <2>5 DEF Owned
  <1> QED BY <1>1 DEF Owned

(* Arenas only grow.                                                       *)
More(qs, rs) ==
  /\ Len(qs) <= Len(rs)
  /\ \A i \in 1..Len(qs) : rs[i].base = qs[i].base /\ qs[i].cursor <= rs[i].cursor

(* An arena left alone has what it had.                                    *)
LEMMA MoreSame ==
  ASSUME NEW qs \in Seq(PageRecord)
  PROVE  More(qs, qs)
  <1>1. ASSUME NEW i \in 1..Len(qs) PROVE qs[i].cursor <= qs[i].cursor
    <2>1. PICK q : q = qs[i]
      OBVIOUS
    <2>2. q \in PageRecord
      BY <2>1
    <2>3. q.cursor \in Nat
      BY <2>2 DEF PageRecord
    <2> QED BY <2>1, <2>3
  <1>2. Len(qs) \in Nat
    OBVIOUS
  <1> QED BY <1>1, <1>2 DEF More

(* So has one with a page more.                                            *)
LEMMA MoreAppend ==
  ASSUME NEW qs \in Seq(PageRecord), NEW q \in PageRecord, NEW rs, rs = Append(qs, q)
  PROVE  More(qs, rs)
  <1>1. Len(rs) = Len(qs) + 1 /\ Len(qs) \in Nat /\ \A i \in 1..Len(qs) : rs[i] = qs[i]
    BY AppendProperties
  <1>2. \A i \in 1..Len(qs) : qs[i].cursor <= qs[i].cursor
    BY MoreSame DEF More
  <1> QED BY <1>1, <1>2 DEF More

(* So has one whose cursor moved on.                                       *)
LEMMA MoreBumped ==
  ASSUME NEW qs \in Seq(PageRecord), NEW rs, NEW i \in 1..Len(qs),
         NEW n \in Nat, Bumped(qs, rs, i, n)
  PROVE  More(qs, rs)
  <1>1. ASSUME NEW k \in 1..Len(qs) PROVE qs[k].cursor <= rs[k].cursor
    <2>1. PICK q : q = qs[k]
      OBVIOUS
    <2>2. q \in PageRecord
      BY <2>1
    <2>3. q.cursor \in Nat
      BY <2>2 DEF PageRecord
    <2>4. rs[k].cursor = qs[k].cursor \/ rs[k].cursor = qs[k].cursor + n
      BY DEF Bumped
    <2> QED BY <2>1, <2>3, <2>4
  <1>2. Len(qs) \in Nat
    OBVIOUS
  <1> QED BY <1>1, <1>2 DEF More, Bumped

Held == Typed /\ Shaped /\ Owned(pages, prot) /\ Owned(nears, prot) /\ MappedText
Onward == Stays /\ More(pages, pages') /\ More(nears, nears')

(* Memory left alone goes on.                                              *)
LEMMA OnwardSame ==
  ASSUME Typed, UNCHANGED Memory
  PROVE  Onward
  BY MoreSame DEF Typed, Onward, Stays, Memory

(* A step that leaves the memory alone keeps all that is said of it.       *)
LEMMA HeldQuiet ==
  ASSUME Held, UNCHANGED Memory, NEW t \in Thread, Typed', Keeps(t), Shape(t)',
         entries \subseteq entries'
  PROVE  Held' /\ Onward
  <1>1. Onward
    BY OnwardSame DEF Held
  <1>2. Shaped'
    <2>1. Len(pages) <= Len(pages') /\ Len(nears) <= Len(nears')
      BY <1>1 DEF Onward, More
    <2> QED BY <2>1, ShapedKept DEF Held
  <1>3. Owned(pages, prot)' /\ Owned(nears, prot)' /\ MappedText'
    BY DEF Memory, Held, MappedText, Owned
  <1> QED BY <1>1, <1>2, <1>3 DEF Held

(* The library stays mapped.                                               *)
LEMMA MappedTextKept ==
  ASSUME MappedText, Stays
  PROVE  MappedText'
  BY Sizes DEF MappedText, Stays

(* So does one that only sets a page to something mapped.                  *)
LEMMA HeldSet ==
  ASSUME Held, NEW q, NEW v \in {"rx", "rwx"}, prot' = [prot EXCEPT ![q] = v],
         UNCHANGED <<pages, nears>>, NEW t \in Thread, Typed', Keeps(t), Shape(t)',
         entries \subseteq entries'
  PROVE  Held' /\ Onward
  <1>1. Stays
    BY StaysSet DEF Held
  <1>2. Onward
    BY <1>1, MoreSame DEF Held, Typed, Onward
  <1>3. Shaped'
    <2>1. Len(pages) <= Len(pages') /\ Len(nears) <= Len(nears')
      BY <1>2 DEF Onward, More
    <2> QED BY <2>1, ShapedKept DEF Held
  <1>4. Owned(pages', prot') /\ Owned(nears', prot')
    <2>1. Owned(pages, prot') /\ Owned(nears, prot')
      BY <1>1, OwnedKept DEF Held, Stays
    <2> QED BY <2>1
  <1> QED BY <1>1, <1>2, <1>3, <1>4, MappedTextKept DEF Held

(* Dobby starts with nothing in hand.                                      *)
LEMMA HeldInit ==
  ASSUME Init
  PROVE  Held
  <1>1. Typed
    <2>1. PICK low \in Lows :
            prot = [p \in 0..Pages - 1 |->
                      IF p \in low \cap Data THEN "r" ELSE IF p \in Text \cup low THEN "rx" ELSE "none"]
      BY DEF Init
    <2>2. NoJob \in JobRecord /\ "idle" \in Place
      BY DEF NoJob, JobRecord, Place
    <2> QED BY <2>1, <2>2 DEF Init, Typed
  <1>2. Shaped
    BY DEF Init, Shaped, Shape, NoJob, Arena, NearArena, Patching
  <1>3. Owned(pages, prot) /\ Owned(nears, prot)
    BY DEF Init, Owned
  <1>4. MappedText
    BY Sizes DEF Init, MappedText
  <1> QED BY <1>1, <1>2, <1>3, <1>4 DEF Held

(* Every step keeps it, and memory is not given back.                      *)
LEMMA HeldStep ==
  ASSUME Held, [Next]_vars
  PROVE  Held' /\ Onward
  <1> USE DEF Held
  <1>1. CASE Enable
    <2>1. /\ Typed' /\ UNCHANGED Memory /\ UNCHANGED <<arch, entries, pc, job, fault, odd>>
      BY <1>1, EnableIs
    <2>2. Shaped'
      BY <2>1 DEF Shaped, Shape, Memory
    <2>3. Owned(pages, prot)' /\ Owned(nears, prot)' /\ MappedText'
      BY <2>1 DEF Memory, MappedText, Owned
    <2> QED BY <2>1, <2>2, <2>3, OnwardSame
  <1>2. CASE Disable
    <2>1. /\ Typed' /\ UNCHANGED Memory /\ UNCHANGED <<arch, entries, job, fault>>
          /\ \A u \in Thread : pc'[u] = IF pc[u] = "plugin" THEN "dangling" ELSE pc[u]
      BY <1>2, DisableIs
    <2>2. ASSUME NEW u \in Thread PROVE Shape(u)'
      <3>1. Shape(u) /\ pages' = pages /\ nears' = nears /\ job' = job /\ entries' = entries
        BY <2>1 DEF Shaped, Memory
      <3>2. CASE pc[u] = "plugin"
        <4>1. pc'[u] = "dangling"
          BY <2>1, <3>2
        <4> QED BY <3>1, <3>2, <4>1 DEF Shape, Arena, NearArena, Patching
      <3>3. CASE pc[u] # "plugin"
        <4>1. pc'[u] = pc[u]
          BY <2>1, <3>3
        <4> QED BY <3>1, <4>1 DEF Shape
      <3> QED BY <3>2, <3>3
    <2>3. Owned(pages, prot)' /\ Owned(nears, prot)' /\ MappedText'
      BY <2>1 DEF Memory, MappedText, Owned
    <2> QED BY <2>1, <2>2, <2>3, OnwardSame DEF Shaped
  <1>3. ASSUME NEW t \in Thread, NEW f \in Fn, DobbyHook(t, f) \/ DobbyInstrument(t, f)
        PROVE  Held' /\ Onward
    <2>1. /\ Typed' /\ Keeps(t) /\ UNCHANGED Memory /\ UNCHANGED Rest
          /\ \/ fault' = "twice" /\ UNCHANGED <<pc, job, odd>>
             \/ Begins(t, f)
      BY <1>3, HookIs
    <2>2. Shape(t)'
      <3>1. CASE UNCHANGED <<pc, job>>
        BY <2>1, <3>1 DEF Shaped, Shape, Memory, Rest
      <3>2. CASE Begins(t, f)
        BY <3>2 DEF Begins, Shape, Arena, NearArena, Patching, ArenaCode
      <3> QED BY <2>1, <3>1, <3>2
    <2> QED BY <2>1, <2>2, HeldQuiet DEF Rest
  <1>4. ASSUME NEW t \in Thread, GenerateTrampolineBuffer(t) \/ GenerateNearTrampolineBuffer(t)
        PROVE  Held' /\ Onward
    <2>1. /\ Typed' /\ Keeps(t) /\ UNCHANGED Memory /\ UNCHANGED Rest
          /\ pc[t] \in {"gen", "plugin", "dangling"}
          /\ \/ pc'[t] = "plugin" /\ job' = job /\ pc[t] = "gen"
             \/ Relocates(t)
             \/ AllocateNear(t)
             \/ UNCHANGED <<pc, job>>
      BY <1>4, GenerateIs
    <2>2. Shape(t)
      BY DEF Shaped
    <2>3. Shape(t)'
      <3>1. CASE pc'[t] = "plugin" /\ job' = job /\ pc[t] = "gen"
        BY <2>1, <2>2, <3>1 DEF Shape, Arena, NearArena, Patching, Rest
      <3>2. CASE UNCHANGED <<pc, job>>
        BY <2>1, <2>2, <3>2 DEF Shape, Memory, Rest
      <3> QED BY <2>1, <2>2, <3>1, <3>2, RelocatesShape, AllocateNearShape
    <2> QED BY <2>1, <2>3, HeldQuiet DEF Rest
  <1>5. ASSUME NEW t \in Thread, AllocateChunk(t)
        PROVE  Held' /\ Onward
    <2>1. /\ Typed' /\ Keeps(t) /\ UNCHANGED <<nears, writes, odd>> /\ UNCHANGED Rest
          /\ pc[t] = "pick"
          /\ \/ \E i \in 1..Len(pages) :
                  /\ job'[t] = [job[t] EXCEPT !.page = i]
                  /\ pc'[t] = "read" /\ UNCHANGED <<prot, pages, fault>>
             \/ UNCHANGED <<prot, pages, job, pc>>
             \/ \E p \in 0..Pages - 1 :
                  /\ prot' = [prot EXCEPT ![p] = "rx"]
                  /\ pages' = Append(pages, NewPage(p))
                  /\ job'[t] = [job[t] EXCEPT !.page = Len(pages) + 1]
                  /\ pc'[t] = "read"
      BY <1>5, AllocateChunkIs
    <2>2. Shape(t) /\ job[t] \in JobRecord
      BY DEF Shaped, Typed
    <2>3. ASSUME NEW i \in 1..Len(pages'), job'[t] = [job[t] EXCEPT !.page = i], pc'[t] = "read"
          PROVE  Shape(t)'
      <3>1. /\ job'[t].f = job[t].f /\ job'[t].len = job[t].len /\ job'[t].size = job[t].size
            /\ job'[t].next = job[t].next /\ job'[t].page = i
        BY <2>2, <2>3 DEF JobRecord
      <3> QED BY <2>1, <2>2, <2>3, <3>1 DEF Shape, Arena, NearArena, Patching, ArenaCode
    <2>4. CASE \E i \in 1..Len(pages) :
                  /\ job'[t] = [job[t] EXCEPT !.page = i]
                  /\ pc'[t] = "read" /\ UNCHANGED <<prot, pages, fault>>
      <3>1. Shape(t)' /\ UNCHANGED Memory
        BY <2>1, <2>3, <2>4 DEF Memory
      <3> QED BY <2>1, <3>1, HeldQuiet DEF Rest
    <2>5. CASE UNCHANGED <<prot, pages, job, pc>>
      <3>1. Shape(t)' /\ UNCHANGED Memory
        BY <2>1, <2>2, <2>5 DEF Memory, Shape, Rest
      <3> QED BY <2>1, <3>1, HeldQuiet DEF Rest
    <2>6. CASE \E p \in 0..Pages - 1 :
                  /\ prot' = [prot EXCEPT ![p] = "rx"]
                  /\ pages' = Append(pages, NewPage(p))
                  /\ job'[t] = [job[t] EXCEPT !.page = Len(pages) + 1]
                  /\ pc'[t] = "read"
      <3>1. PICK p \in 0..Pages - 1 :
                  /\ prot' = [prot EXCEPT ![p] = "rx"]
                  /\ pages' = Append(pages, NewPage(p))
                  /\ job'[t] = [job[t] EXCEPT !.page = Len(pages) + 1]
                  /\ pc'[t] = "read"
        BY <2>6
      <3>2. NewPage(p) \in PageRecord
        BY NewPageIs
      <3>3. Len(pages') = Len(pages) + 1 /\ Len(pages) \in Nat
        BY <3>1, <3>2, AppendProperties DEF Typed
      <3>4. Len(pages) + 1 \in 1..Len(pages')
        BY <3>3
      <3>5. Shape(t)'
        BY <2>3, <3>1, <3>4
      <3>6. Stays /\ prot'[p] = "rx"
        BY <3>1, StaysSet
      <3>7. More(pages, pages') /\ More(nears, nears')
        BY <2>1, <3>1, <3>2, MoreAppend, MoreSame DEF Typed
      <3>8. Owned(pages', prot')
        <4>1. pages \in Seq(PageRecord) /\ Owned(pages, prot) /\ prot'[p] # "none"
          BY <3>6 DEF Typed
        <4>2. \A q \in 0..Pages - 1 : prot[q] # "none" => prot'[q] # "none"
          BY <3>6 DEF Stays
        <4>3. pages' = Append(pages, NewPage(p))
          BY <3>1
        <4> HIDE DEF Held
        <4> QED BY <4>1, <4>2, <4>3, OwnedAppend
      <3>9. Owned(nears', prot')
        BY <2>1, <3>6, OwnedKept DEF Stays
      <3>10. Shaped'
        BY <2>1, <3>5, <3>7, ShapedKept DEF More, Rest
      <3> QED BY <2>1, <3>6, <3>7, <3>8, <3>9, <3>10, MappedTextKept DEF Onward
    <2> QED BY <2>1, <2>4, <2>5, <2>6
  <1>6. ASSUME NEW t \in Thread, ReadCursor(t)
        PROVE  Held' /\ Onward
    <2>1. Shape(t) /\ job[t] \in JobRecord
      BY DEF Shaped, Typed
    <2>2. /\ Typed' /\ Keeps(t) /\ UNCHANGED Memory /\ UNCHANGED Rest
          /\ \/ /\ pc[t] = "read" /\ pc'[t] = "bump"
                /\ job'[t] = [job[t] EXCEPT !.at = pages[job[t].page].cursor]
             \/ /\ pc[t] = "readNear" /\ pc'[t] = "bumpNear"
                /\ job'[t] = [job[t] EXCEPT !.at = nears[job[t].page].cursor]
      BY <1>6, <2>1, ReadCursorIs
    <2>3. /\ job'[t].f = job[t].f /\ job'[t].len = job[t].len /\ job'[t].size = job[t].size
          /\ job'[t].next = job[t].next /\ job'[t].page = job[t].page
      BY <2>1, <2>2 DEF JobRecord
    <2>4. Shape(t)'
      BY <2>1, <2>2, <2>3 DEF Shape, Arena, NearArena, Patching, ArenaCode, Memory
    <2> QED BY <2>2, <2>4, HeldQuiet DEF Rest
  <1>7. ASSUME NEW t \in Thread, BumpCursor(t)
        PROVE  Held' /\ Onward
    <2>1. Shape(t)
      BY DEF Shaped
    <2>2. /\ Typed' /\ Keeps(t) /\ UNCHANGED Rest /\ UNCHANGED <<job, fault, prot, writes, odd>>
          /\ pc'[t] = "unprotect" /\ ChunkSize(job[t]) \in Nat
          /\ \/ /\ pc[t] = "bump" /\ nears' = nears
                /\ Bumped(pages, pages', job[t].page, ChunkSize(job[t]))
             \/ /\ pc[t] = "bumpNear" /\ pages' = pages
                /\ Bumped(nears, nears', job[t].page, ChunkSize(job[t]))
      BY <1>7, <2>1, BumpCursorIs
    <2>3. Shape(t)'
      BY <2>1, <2>2 DEF Shape, Arena, NearArena, Patching, ArenaCode, Purpose
    <2>4. /\ More(pages, pages') /\ More(nears, nears')
          /\ Owned(pages', prot) /\ Owned(nears', prot)
      <3>1. CASE pc[t] = "bump"
        <4>1. job[t].page \in 1..Len(pages)
          BY <2>1, <3>1 DEF Shape
        <4> QED BY <2>2, <3>1, <4>1, MoreBumped, MoreSame, OwnedBumped DEF Typed
      <3>2. CASE pc[t] = "bumpNear"
        <4>1. job[t].page \in 1..Len(nears)
          BY <2>1, <3>2 DEF Shape
        <4> QED BY <2>2, <3>2, <4>1, MoreBumped, MoreSame, OwnedBumped DEF Typed
      <3> QED BY <2>2, <3>1, <3>2
    <2>5. Stays /\ MappedText'
      BY <2>2 DEF Stays, MappedText
    <2>6. Shaped'
      BY <2>2, <2>3, <2>4, ShapedKept DEF More, Rest
    <2> QED BY <2>2, <2>4, <2>5, <2>6 DEF Onward
  <1>8. ASSUME NEW t \in Thread, NearFromPage(t)
        PROVE  Held' /\ Onward
    <2>1. Shape(t) /\ job[t] \in JobRecord
      BY DEF Shaped, Typed
    <2>2. /\ Typed' /\ Keeps(t) /\ UNCHANGED Memory /\ UNCHANGED Rest
          /\ pc[t] = "pickNear" /\ pc'[t] = "readNear"
          /\ \E i \in 1..Len(nears) : job'[t] = [job[t] EXCEPT !.page = i]
      BY <1>8, NearFromPageIs
    <2>3. /\ job'[t].f = job[t].f /\ job'[t].len = job[t].len /\ job'[t].size = job[t].size
          /\ job'[t].next = job[t].next /\ job'[t].page \in 1..Len(nears)
      BY <2>1, <2>2 DEF JobRecord
    <2>4. Shape(t)'
      BY <2>1, <2>2, <2>3 DEF Shape, Arena, NearArena, Patching, ArenaCode, Memory
    <2> QED BY <2>2, <2>4, HeldQuiet DEF Rest
  <1>9. ASSUME NEW t \in Thread, NearMapPage(t)
        PROVE  Held' /\ Onward
    <2>1. Shape(t)
      BY DEF Shaped
    <2>2. /\ Typed' /\ UNCHANGED <<pages, pc, job, fault>> /\ UNCHANGED Rest
          /\ \E p \in 0..Pages - 1 :
               prot' = [prot EXCEPT ![p] = "rx"] /\ nears' = Append(nears, NewPage(p))
      BY <1>9, <2>1, NearMapPageIs
    <2>3. PICK p \in 0..Pages - 1 :
               prot' = [prot EXCEPT ![p] = "rx"] /\ nears' = Append(nears, NewPage(p))
      BY <2>2
    <2>4. NewPage(p) \in PageRecord
      BY NewPageIs
    <2>5. Stays /\ prot'[p] = "rx"
      BY <2>3, StaysSet
    <2>6. More(pages, pages') /\ More(nears, nears')
      BY <2>2, <2>3, <2>4, MoreAppend, MoreSame DEF Typed
    <2>7. Owned(nears', prot')
      BY <2>3, <2>5, OwnedAppend DEF Typed, Stays
    <2>8. Owned(pages', prot')
      BY <2>2, <2>5, OwnedKept DEF Stays
    <2>9. Shaped'
      <3>1. Keeps(t) /\ pc'[t] = pc[t] /\ job'[t] = job[t] /\ entries \subseteq entries'
        BY <2>2 DEF Keeps, Rest
      <3>2. Len(pages') \in Nat /\ Len(nears') \in Nat
        BY <2>2 DEF Typed
      <3>3. Shape(t)'
        BY <2>1, <2>6, <3>1, <3>2, ShapeKept DEF More
      <3> QED BY <2>2, <2>6, <3>1, <3>3, ShapedKept DEF More
    <2> QED BY <2>2, <2>5, <2>6, <2>7, <2>8, <2>9, MappedTextKept DEF Onward
  <1>10. ASSUME NEW t \in Thread, NearFromCave(t)
         PROVE  Held' /\ Onward
    <2>1. Shape(t) /\ job[t] \in JobRecord
      BY DEF Shaped, Typed
    <2>2. /\ Typed' /\ Keeps(t) /\ UNCHANGED Memory /\ UNCHANGED Rest
          /\ pc[t] = "pickNear" /\ pc'[t] = "unprotect"
          /\ \E a \in Nat : job'[t] = [job[t] EXCEPT !.at = a]
      BY <1>10, <2>1, NearFromCaveIs
    <2>3. /\ job'[t].f = job[t].f /\ job'[t].size = job[t].size /\ job'[t].next = job[t].next
      BY <2>1, <2>2 DEF JobRecord
    <2>4. Shape(t)'
      BY <2>1, <2>2, <2>3 DEF Shape, Arena, NearArena, Patching, ArenaCode, Purpose, Memory
    <2> QED BY <2>2, <2>4, HeldQuiet DEF Rest
  <1>11. ASSUME NEW t \in Thread, NearNotFound(t)
         PROVE  Held' /\ Onward
    <2>1. Shape(t)
      BY DEF Shaped
    <2>2. /\ Typed' /\ Keeps(t) /\ UNCHANGED Memory /\ UNCHANGED Rest /\ pc[t] = "pickNear"
          /\ Relocates(t) \/ UNCHANGED <<job, pc>>
      BY <1>11, NearNotFoundIs
    <2>3. Shape(t)'
      <3>1. CASE Relocates(t)
        BY <2>1, <2>2, <3>1, RelocatesShape
      <3>2. CASE UNCHANGED <<job, pc>>
        BY <2>1, <2>2, <3>2 DEF Shape, Memory, Rest
      <3> QED BY <2>2, <3>1, <3>2
    <2> QED BY <2>2, <2>3, HeldQuiet DEF Rest
  <1>12. ASSUME NEW t \in Thread, Unprotect(t)
         PROVE  Held' /\ Onward
    <2>1. Shape(t)
      BY DEF Shaped
    <2>2. /\ Typed' /\ Keeps(t) /\ UNCHANGED <<pages, nears, writes, odd, job, fault>>
          /\ UNCHANGED Rest /\ pc[t] = "unprotect" /\ pc'[t] = "copy"
          /\ prot' = [prot EXCEPT ![Page(job[t].at)] = "rwx"]
      BY <1>12, UnprotectIs
    <2>3. Shape(t)'
      BY <2>1, <2>2 DEF Shape, Arena, NearArena, Patching, Rest
    <2> QED BY <2>2, <2>3, HeldSet DEF Rest
  <1>13. ASSUME NEW t \in Thread, Copy(t)
         PROVE  Held' /\ Onward
    <2>1. Shape(t)
      BY DEF Shaped
    <2>2. /\ Typed' /\ Keeps(t) /\ UNCHANGED <<prot, pages, nears, odd, job>>
          /\ UNCHANGED Rest /\ pc[t] = "copy"
          /\ pc'[t] = "protect" \/ pc'[t] = pc[t]
      BY <1>13, <2>1, CopyIs
    <2>3. Shape(t)'
      BY <2>1, <2>2 DEF Shape, Arena, NearArena, Patching, Rest
    <2>4. Onward
      BY <2>2, MoreSame DEF Typed, Onward, Stays
    <2>5. Shaped'
      BY <2>2, <2>3, <2>4, ShapedKept DEF Onward, More, Rest
    <2>6. Owned(pages, prot)' /\ Owned(nears, prot)' /\ MappedText'
      BY <2>2 DEF MappedText, Owned
    <2> QED BY <2>2, <2>4, <2>5, <2>6
  <1>14. ASSUME NEW t \in Thread, Protect(t)
         PROVE  Held' /\ Onward
    <2>1. Shape(t)
      BY DEF Shaped
    <2>2. /\ Typed' /\ Keeps(t) /\ UNCHANGED <<pages, nears, writes, odd, fault>>
          /\ UNCHANGED Rest /\ pc[t] = "protect"
          /\ prot' = [prot EXCEPT ![Page(job[t].at)] = "rx"]
          /\ \/ /\ job[t].next = "bridge" /\ pc'[t] = "pick" /\ job'[t].f = job[t].f
                /\ job'[t].len = ClosureSize /\ job'[t].next = "closure"
             \/ job[t].next = "closure" /\ pc'[t] = "gen" /\ job'[t] = job[t]
             \/ job[t].next = "forward" /\ Relocates(t)
             \/ job[t].next = "add" /\ pc'[t] = "add" /\ job'[t] = job[t]
             \/ job[t].next = "done" /\ pc'[t] = "idle" /\ job'[t] = NoJob
      BY <1>14, ProtectIs
    <2>3. Shape(t)'
      <3>1. CASE /\ job[t].next = "bridge" /\ pc'[t] = "pick" /\ job'[t].f = job[t].f
                 /\ job'[t].len = ClosureSize /\ job'[t].next = "closure"
        BY <2>1, <2>2, <3>1, Sizes DEF Shape, Arena, NearArena, Patching, ArenaCode
      <3>2. CASE job[t].next = "closure" /\ pc'[t] = "gen" /\ job'[t] = job[t]
        BY <2>1, <2>2, <3>2 DEF Shape, Arena, NearArena, Patching
      <3>3. CASE job[t].next = "forward" /\ Relocates(t)
        BY <2>1, <2>2, <3>3, RelocatesShape
      <3>4. CASE job[t].next = "add" /\ pc'[t] = "add" /\ job'[t] = job[t]
        BY <2>1, <2>2, <3>4 DEF Shape, Arena, NearArena, Patching
      <3>5. CASE job[t].next = "done" /\ pc'[t] = "idle" /\ job'[t] = NoJob
        BY <3>5 DEF Shape, Arena, NearArena, Patching, NoJob
      <3> QED BY <2>2, <3>1, <3>2, <3>3, <3>4, <3>5
    <2> QED BY <2>2, <2>3, HeldSet DEF Rest
  <1>15. ASSUME NEW t \in Thread, AddHookEntry(t)
         PROVE  Held' /\ Onward
    <2>1. Shape(t)
      BY DEF Shaped
    <2>2. /\ Typed' /\ Keeps(t) /\ UNCHANGED Memory
          /\ pc[t] = "add" /\ pc'[t] = "unprotect" /\ entries' = entries \cup {job[t].f}
          /\ job'[t].f = job[t].f /\ job'[t].size = job[t].size /\ job'[t].next = "done"
          /\ job'[t].at = Start[job[t].f] /\ job'[t].len = job[t].size
      BY <1>15, <2>1, AddHookEntryIs
    <2>3. Shape(t)'
      BY <2>1, <2>2 DEF Shape, Arena, NearArena, Patching, Purpose
    <2> QED BY <2>2, <2>3, HeldQuiet
  <1>16. CASE UNCHANGED vars
    <2>1. UNCHANGED Memory /\ UNCHANGED <<arch, entries, pc, job>>
      BY <1>16 DEF vars, Memory
    <2>2. Held'
      BY <2>1 DEF Memory, Typed, Shaped, Shape, Owned, MappedText
    <2> QED BY <2>1, <2>2, OnwardSame
  <1> QED BY <1>1, <1>2, <1>3, <1>4, <1>5, <1>6, <1>7, <1>8, <1>9, <1>10, <1>11, <1>12,
             <1>13, <1>14, <1>15, <1>16 DEF Next

-----------------------------------------------------------------------------
(* One call at a time, as long as none has overlapped another.             *)

Alone == "overlap" \notin odd => \A t, u \in Thread : pc[t] # "idle" /\ pc[u] # "idle" => t = u

(* n bytes at a lie in a page of an arena, below its cursor and short of   *)
(* its last byte.                                                          *)
InPages(qs, a, n) ==
  \E i \in 1..Len(qs) :
    qs[i].base <= a /\ a + n < qs[i].base + PageSize /\ a + n <= qs[i].cursor
InArena(a, n) == InPages(pages, a, n) \/ InPages(nears, a, n)

(* What the thread that is alone has in hand is still what it found.       *)
Ready(t) ==
  /\ pc[t] \in {"read", "bump"} => Roomy(pages[job[t].page], ChunkSize(job[t]))
  /\ pc[t] \in {"readNear", "bumpNear"} => Roomy(nears[job[t].page], ChunkSize(job[t]))
  /\ pc[t] = "bump" => job[t].at = pages[job[t].page].cursor
  /\ pc[t] = "bumpNear" => job[t].at = nears[job[t].page].cursor
  /\ pc[t] \in Patching =>
       /\ Page(job[t].at) \in 0..Pages - 1
       /\ job[t].next # "done" => InArena(job[t].at, job[t].len) \/ "cave" \in odd
  /\ pc[t] = "copy" => prot[Page(job[t].at)] = "rwx"
  /\ pc[t] # "dangling"
AllReady == "overlap" \notin odd => \A t \in Thread : Ready(t)

(* The oddities stay.                                                      *)
LEMMA OddGrows ==
  ASSUME Held, [Next]_vars
  PROVE  odd \subseteq odd'
  <1>1. \A what, if : Noting(what, if) => odd \subseteq odd'
    BY DEF Noting
  <1>2. CASE UNCHANGED vars
    BY <1>2 DEF vars
  <1>3. CASE Enable \/ Disable
    BY <1>1, <1>3 DEF Enable, Disable
  <1>4. ASSUME NEW t \in Thread, NEW f \in Fn, DobbyHook(t, f) \/ DobbyInstrument(t, f)
        PROVE  odd \subseteq odd'
    BY <1>1, <1>4, HookIs DEF Begins, Held
  <1>5. ASSUME NEW t \in Thread,
               \/ GenerateTrampolineBuffer(t) \/ GenerateNearTrampolineBuffer(t)
               \/ AllocateChunk(t) \/ ReadCursor(t) \/ BumpCursor(t)
               \/ NearFromPage(t) \/ NearMapPage(t) \/ NearFromCave(t) \/ NearNotFound(t)
               \/ Unprotect(t) \/ Copy(t) \/ Protect(t) \/ AddHookEntry(t)
        PROVE  odd \subseteq odd'
    BY <1>1, <1>5 DEF GenerateTrampolineBuffer, GenerateNearTrampolineBuffer, AllocateChunk,
         ReadCursor, BumpCursor, NearFromPage, NearMapPage, NearFromCave, NearNotFound,
         Unprotect, Copy, Protect, AddHookEntry
  <1> QED BY <1>2, <1>3, <1>4, <1>5 DEF Next

(* While t is busy and nothing has overlapped, every other thread is idle, *)
(* and stays so when t moves.                                              *)
LEMMA OthersIdle ==
  ASSUME Alone, "overlap" \notin odd, NEW t \in Thread, pc[t] # "idle"
  PROVE  \A u \in Thread \ {t} : pc[u] = "idle"
  BY DEF Alone

(* A step of the thread that is busy lets no other begin.                  *)
LEMMA AloneKept ==
  ASSUME Alone, NEW t \in Thread, pc[t] # "idle", Keeps(t), odd \subseteq odd'
  PROVE  Alone'
  <1> SUFFICES ASSUME "overlap" \notin odd', NEW u \in Thread, NEW v \in Thread,
                      pc'[u] # "idle", pc'[v] # "idle"
               PROVE  u = v
    BY DEF Alone
  <1>1. "overlap" \notin odd
    OBVIOUS
  <1>2. \A w \in Thread \ {t} : pc[w] = "idle" /\ pc'[w] = pc[w]
    BY <1>1, OthersIdle DEF Keeps
  <1> QED BY <1>2

(* An idle thread is ready for anything.                                   *)
LEMMA IdleReady ==
  ASSUME NEW u \in Thread, pc'[u] \in {"idle", "gen", "plugin", "pick", "pickNear", "add"}
  PROVE  Ready(u)'
  BY DEF Ready, Patching

(* So it is enough to show that the thread that moves is ready.            *)
LEMMA ReadyKept ==
  ASSUME Alone, NEW t \in Thread, pc[t] # "idle", Keeps(t), odd \subseteq odd',
         "overlap" \notin odd => Ready(t)'
  PROVE  AllReady'
  <1> SUFFICES ASSUME "overlap" \notin odd', NEW u \in Thread
               PROVE  Ready(u)'
    BY DEF AllReady
  <1>1. "overlap" \notin odd
    OBVIOUS
  <1>2. CASE u = t
    BY <1>1, <1>2
  <1>3. CASE u # t
    <2>1. pc[u] = "idle" /\ pc'[u] = pc[u]
      BY <1>1, <1>3, OthersIdle DEF Keeps
    <2>2. pc'[u] = "idle"
      BY <2>1
    <2> QED BY <2>2, IdleReady
  <1> QED BY <1>2, <1>3

(* What lies in an arena stays in it.                                      *)
LEMMA InPagesKept ==
  ASSUME NEW qs \in Seq(PageRecord), NEW rs \in Seq(PageRecord), More(qs, rs),
         NEW a \in Nat, NEW n \in Nat, InPages(qs, a, n)
  PROVE  InPages(rs, a, n)
  <1>1. PICK i \in 1..Len(qs) :
          qs[i].base <= a /\ a + n < qs[i].base + PageSize /\ a + n <= qs[i].cursor
    BY DEF InPages
  <1>2. i \in 1..Len(rs)
    <2>1. Len(qs) \in Nat /\ Len(rs) \in Nat
      OBVIOUS
    <2> QED BY <2>1 DEF More
  <1>3. rs[i].base = qs[i].base /\ qs[i].cursor <= rs[i].cursor
    BY DEF More
  <1>4. PICK q, r : q = qs[i] /\ r = rs[i]
    OBVIOUS
  <1>5. q \in PageRecord /\ r \in PageRecord
    BY <1>2, <1>4
  <1>6. q.cursor \in Nat /\ r.cursor \in Nat
    BY <1>5 DEF PageRecord
  <1>7. a + n <= r.cursor
    BY <1>1, <1>3, <1>4, <1>6
  <1> QED BY <1>1, <1>2, <1>3, <1>4, <1>7 DEF InPages

(* The same for both arenas.                                               *)
LEMMA InArenaKept ==
  ASSUME Typed, Typed', Onward, NEW a \in Nat, NEW n \in Nat, InArena(a, n)
  PROVE  InPages(pages', a, n) \/ InPages(nears', a, n)
  BY InPagesKept DEF InArena, Onward, Typed

(* A chunk of an arena is on a page of the process, and all of its bytes   *)
(* are.                                                                    *)
LEMMA OnPage ==
  ASSUME NEW qs \in Seq(PageRecord), NEW pr, Owned(qs, pr), NEW a \in Nat, NEW n \in Nat,
         InPages(qs, a, n)
  PROVE  /\ Page(a) \in 0..Pages - 1 /\ pr[Page(a)] # "none"
         /\ \A b \in Span(a, n) : Page(b) = Page(a)
  <1>1. PICK i \in 1..Len(qs) :
          qs[i].base <= a /\ a + n < qs[i].base + PageSize /\ a + n <= qs[i].cursor
    BY DEF InPages
  <1>2. PICK p \in 0..Pages - 1 : qs[i].base = p * PageSize /\ pr[p] # "none"
    BY DEF Owned
  <1>3. PageSize \in Nat /\ p \in Nat
    BY Sizes
  <1>4. PICK base \in Nat : base = p * PageSize
    BY <1>3
  <1>5. base <= a /\ a + n < base + PageSize
    BY <1>1, <1>2, <1>4
  <1>6. ASSUME NEW b \in Nat, a <= b, b <= a + n PROVE Page(b) = p
    <2>1. base <= b /\ b < base + PageSize
      BY <1>3, <1>5, <1>6
    <2> QED BY <2>1, <1>3, <1>4, PageIs
  <1>7. Page(a) = p
    BY <1>6
  <1>8. ASSUME NEW b \in Span(a, n) PROVE Page(b) = p
    <2>1. b \in Nat /\ a <= b /\ b <= a + n
      BY DEF Span
    <2> QED BY <2>1, <1>6
  <1> QED BY <1>2, <1>7, <1>8

(* The chunk that a cursor is moved past.                                  *)
LEMMA Cut ==
  ASSUME NEW qs \in Seq(PageRecord), NEW pr, Owned(qs, pr), NEW i \in 1..Len(qs), NEW n \in Nat,
         Roomy(qs[i], n), NEW rs, Bumped(qs, rs, i, n), NEW len \in Nat, len <= n
  PROVE  InPages(rs, qs[i].cursor, len) /\ InPages(rs, qs[i].cursor, n)
  <1>1. PICK q, base, cursor : q = qs[i] /\ base = q.base /\ cursor = q.cursor
    OBVIOUS
  <1>2. q \in PageRecord
    BY <1>1
  <1>3. base \in Nat /\ cursor \in Nat /\ PageSize \in Nat
    BY <1>1, <1>2, Sizes DEF PageRecord
  <1>4. base <= cursor /\ cursor + n < base + PageSize
    BY <1>1 DEF Owned, Roomy
  <1>5. i \in 1..Len(rs) /\ rs[i].base = base /\ rs[i].cursor = cursor + n
    BY <1>1 DEF Bumped
  <1>6. cursor + len < base + PageSize /\ cursor + len <= cursor + n /\ cursor + n <= cursor + n
    BY <1>3, <1>4
  <1>7. /\ rs[i].base <= cursor /\ cursor + len < rs[i].base + PageSize
        /\ cursor + len <= rs[i].cursor
        /\ cursor + n < rs[i].base + PageSize /\ cursor + n <= rs[i].cursor
    BY <1>4, <1>5, <1>6
  <1> QED BY <1>1, <1>5, <1>7 DEF InPages

(* A step after which t waits for nothing it has found.                    *)
LEMMA ReadyQuiet ==
  ASSUME Alone, NEW t \in Thread, pc[t] # "idle", Keeps(t), odd \subseteq odd',
         pc'[t] \in {"idle", "gen", "plugin", "pick", "pickNear", "add"}
  PROVE  Alone' /\ AllReady'
  BY AloneKept, ReadyKept, IdleReady

(* Every step keeps the one call under way alone and ready.                *)
LEMMA ReadyStep ==
  ASSUME Held, Alone, AllReady, [Next]_vars
  PROVE  Alone' /\ AllReady'
  <1>1. Held' /\ Onward /\ odd \subseteq odd'
    BY HeldStep, OddGrows
  <1>2. Typed /\ Typed'
    BY <1>1 DEF Held
  <1>3. CASE UNCHANGED vars
    <2>1. UNCHANGED <<arch, prot, pages, nears, pc, job, odd>>
      BY <1>3 DEF vars
    <2>2. Alone'
      BY <2>1 DEF Alone
    <2>3. AllReady'
      BY <2>1 DEF AllReady, Ready, InArena, InPages, Roomy, ChunkSize, X86
    <2> QED BY <2>2, <2>3
  <1>4. CASE Enable
    <2>1. UNCHANGED <<arch, prot, pages, nears, pc, job, odd>>
      BY <1>2, <1>4, EnableIs DEF Memory
    <2>2. Alone'
      BY <2>1 DEF Alone
    <2>3. AllReady'
      BY <2>1 DEF AllReady, Ready, InArena, InPages, Roomy, ChunkSize, X86
    <2> QED BY <2>2, <2>3
  <1>5. CASE Disable
    <2>1. /\ Noting("overlap", Busy)
          /\ \A u \in Thread : pc'[u] = IF pc[u] = "plugin" THEN "dangling" ELSE pc[u]
      BY <1>2, <1>5, DisableIs
    <2>2. "overlap" \notin odd' => \A u \in Thread : pc'[u] = "idle"
      BY <2>1 DEF Noting, Busy
    <2> QED BY <2>2, IdleReady DEF Alone, AllReady
  <1>6. ASSUME NEW t \in Thread, NEW f \in Fn, DobbyHook(t, f) \/ DobbyInstrument(t, f)
        PROVE  Alone' /\ AllReady'
    <2>1. /\ Keeps(t) /\ UNCHANGED Memory /\ UNCHANGED Rest
          /\ UNCHANGED <<pc, job, odd>> \/ Begins(t, f)
      BY <1>2, <1>6, HookIs
    <2>2. CASE UNCHANGED <<pc, job, odd>>
      <3>1. UNCHANGED <<arch, prot, pages, nears, pc, job, odd>>
        BY <2>1, <2>2 DEF Memory, Rest
      <3>2. Alone'
        BY <3>1 DEF Alone
      <3>3. AllReady'
        BY <3>1 DEF AllReady, Ready, InArena, InPages, Roomy, ChunkSize, X86
      <3> QED BY <3>2, <3>3
    <2>3. CASE Begins(t, f)
      <3>1. pc'[t] \in {"gen", "pick"} /\ Noting("overlap", Busy)
        BY <2>3 DEF Begins
      <3>2. "overlap" \notin odd' => \A u \in Thread \ {t} : pc'[u] = "idle"
        BY <2>1, <3>1 DEF Noting, Busy, Keeps
      <3> QED BY <3>1, <3>2, IdleReady DEF Alone, AllReady
    <2> QED BY <2>1, <2>2, <2>3
  <1>7. ASSUME NEW t \in Thread, GenerateTrampolineBuffer(t) \/ GenerateNearTrampolineBuffer(t)
        PROVE  Alone' /\ AllReady'
    <2>1. /\ Keeps(t) /\ pc[t] \in {"gen", "plugin", "dangling"} /\ odd' = odd
          /\ \/ pc'[t] = "plugin"
             \/ Relocates(t)
             \/ AllocateNear(t)
             \/ UNCHANGED <<pc, job>> /\ pc[t] = "dangling"
      BY <1>2, <1>7, GenerateIs
    <2>2. pc'[t] \in {"plugin", "pick", "pickNear"} \/ (pc'[t] = "dangling" /\ pc[t] = "dangling")
      BY <1>2, <2>1, RelocatesIs, AllocateNearIs
    <2>3. CASE pc'[t] \in {"plugin", "pick", "pickNear"}
      BY <1>1, <2>1, <2>3, ReadyQuiet
    <2>4. CASE pc'[t] = "dangling" /\ pc[t] = "dangling"
      <3>1. "overlap" \in odd
        BY <2>4 DEF AllReady, Ready
      <3> QED BY <1>1, <3>1 DEF Alone, AllReady
    <2> QED BY <2>2, <2>3, <2>4
  <1>8. ASSUME NEW t \in Thread, AllocateChunk(t)
        PROVE  Alone' /\ AllReady'
    <2>1. Keeps(t) /\ pc[t] = "pick" /\ UNCHANGED Rest /\ Shape(t) /\ job[t] \in JobRecord
      BY <1>2, <1>8, AllocateChunkIs DEF Held, Shaped, Typed
    <2>2. ASSUME NEW i, job'[t] = [job[t] EXCEPT !.page = i], pc'[t] = "read",
                 Roomy(pages'[i], ChunkSize(job[t]))
          PROVE  Ready(t)'
      <3>1. job'[t].page = i /\ job'[t].len = job[t].len /\ job'[t].next = job[t].next
        BY <2>1, <2>2 DEF JobRecord
      <3>2. Roomy(pages'[job'[t].page], ChunkSize(job[t])')
        BY <2>1, <2>2, <3>1 DEF ChunkSize, X86, Rest
      <3> QED BY <2>2, <3>2 DEF Ready, Patching, Roomy
    <2>3. Ready(t)'
      <3>1. CASE \E i \in 1..Len(pages) :
                 /\ Roomy(pages[i], ChunkSize(job[t])) /\ job'[t] = [job[t] EXCEPT !.page = i]
                 /\ pc'[t] = "read" /\ UNCHANGED <<prot, pages, fault>>
        BY <2>2, <3>1
      <3>2. CASE UNCHANGED <<prot, pages, job, pc>>
        BY <2>1, <3>2, IdleReady
      <3>3. CASE \E p \in 0..Pages - 1 :
                 /\ prot[p] = "none" /\ prot' = [prot EXCEPT ![p] = "rx"]
                 /\ pages' = Append(pages, NewPage(p))
                 /\ job'[t] = [job[t] EXCEPT !.page = Len(pages) + 1]
                 /\ pc'[t] = "read" /\ fault' = fault
        <4>1. PICK p \in 0..Pages - 1 :
                 /\ pages' = Append(pages, NewPage(p))
                 /\ job'[t] = [job[t] EXCEPT !.page = Len(pages) + 1]
                 /\ pc'[t] = "read"
          BY <3>3
        <4>2. /\ NewPage(p) \in PageRecord /\ p * PageSize \in Nat
              /\ NewPage(p).base = p * PageSize /\ NewPage(p).cursor = p * PageSize
          BY NewPageIs
        <4>3. pages'[Len(pages) + 1] = NewPage(p)
          BY <4>1, <4>2, <1>2, AppendProperties DEF Typed
        <4>4. PICK n, base \in Nat : n = ChunkSize(job[t]) /\ base = p * PageSize
          BY <4>2, <2>1 DEF ChunkSize, JobRecord
        <4>5. n < PageSize
          BY <4>4, <2>1, Sizes DEF ChunkSize, Shape, Arena, JobRecord
        <4>6. base + n < base + PageSize
          BY <4>5, Sizes
        <4>7. Roomy(NewPage(p), ChunkSize(job[t]))
          BY <4>2, <4>4, <4>6 DEF Roomy
        <4> QED BY <2>2, <4>1, <4>3, <4>7
      <3> QED BY <1>2, <1>8, <3>1, <3>2, <3>3, AllocateChunkIs
    <2> QED BY <1>1, <2>1, <2>3, AloneKept, ReadyKept
  <1>9. ASSUME NEW t \in Thread, ReadCursor(t)
        PROVE  Alone' /\ AllReady'
    <2>1. Shape(t) /\ job[t] \in JobRecord
      BY <1>2 DEF Held, Shaped, Typed
    <2>2. /\ Keeps(t) /\ UNCHANGED Memory /\ UNCHANGED Rest
          /\ \/ /\ pc[t] = "read" /\ pc'[t] = "bump"
                /\ job'[t] = [job[t] EXCEPT !.at = pages[job[t].page].cursor]
             \/ /\ pc[t] = "readNear" /\ pc'[t] = "bumpNear"
                /\ job'[t] = [job[t] EXCEPT !.at = nears[job[t].page].cursor]
      BY <1>2, <1>9, <2>1, ReadCursorIs
    <2>3. /\ job'[t].len = job[t].len /\ job'[t].next = job[t].next /\ job'[t].page = job[t].page
          /\ pc[t] = "read" => job'[t].at = pages[job[t].page].cursor
          /\ pc[t] = "readNear" => job'[t].at = nears[job[t].page].cursor
      BY <2>1, <2>2 DEF JobRecord
    <2>4. ChunkSize(job[t])' = ChunkSize(job[t])
      BY <2>2, <2>3 DEF ChunkSize, X86, Rest
    <2>5. "overlap" \notin odd => Ready(t)'
      <3> SUFFICES ASSUME "overlap" \notin odd PROVE Ready(t)'
        OBVIOUS
      <3>1. Ready(t)
        BY DEF AllReady
      <3>2. pages' = pages /\ nears' = nears
        BY <2>2 DEF Memory
      <3>3. CASE pc[t] = "read"
        <4>1. Roomy(pages[job[t].page], ChunkSize(job[t]))
          BY <3>1, <3>3 DEF Ready
        <4>2. Roomy(pages'[job'[t].page], ChunkSize(job[t])')
          BY <4>1, <3>2, <2>3, <2>4
        <4>3. pc'[t] = "bump" /\ job'[t].at = pages'[job'[t].page].cursor
          BY <2>2, <2>3, <3>2, <3>3
        <4> QED BY <4>2, <4>3 DEF Ready, Patching, Roomy
      <3>4. CASE pc[t] = "readNear"
        <4>1. Roomy(nears[job[t].page], ChunkSize(job[t]))
          BY <3>1, <3>4 DEF Ready
        <4>2. Roomy(nears'[job'[t].page], ChunkSize(job[t])')
          BY <4>1, <3>2, <2>3, <2>4
        <4>3. pc'[t] = "bumpNear" /\ job'[t].at = nears'[job'[t].page].cursor
          BY <2>2, <2>3, <3>2, <3>4
        <4> QED BY <4>2, <4>3 DEF Ready, Patching, Roomy
      <3> QED BY <2>2, <3>3, <3>4
    <2> QED BY <1>1, <2>2, <2>5, AloneKept, ReadyKept
  <1>10. ASSUME NEW t \in Thread, BumpCursor(t)
         PROVE  Alone' /\ AllReady'
    <2>1. Shape(t) /\ job[t] \in JobRecord
      BY <1>2 DEF Held, Shaped, Typed
    <2>2. /\ Keeps(t) /\ UNCHANGED Rest /\ UNCHANGED <<job, fault, prot, writes, odd>>
          /\ pc'[t] = "unprotect" /\ ChunkSize(job[t]) \in Nat
          /\ \/ /\ pc[t] = "bump" /\ nears' = nears
                /\ Bumped(pages, pages', job[t].page, ChunkSize(job[t]))
             \/ /\ pc[t] = "bumpNear" /\ pages' = pages
                /\ Bumped(nears, nears', job[t].page, ChunkSize(job[t]))
      BY <1>2, <1>10, <2>1, BumpCursorIs
    <2>3. PICK n \in Nat, len \in Nat, a \in Nat :
            n = ChunkSize(job[t]) /\ len = job[t].len /\ a = job[t].at
      BY <2>1, <2>2 DEF JobRecord
    <2>4. len <= n
      BY <2>3 DEF ChunkSize
    <2>5. "overlap" \notin odd => Ready(t)'
      <3> SUFFICES ASSUME "overlap" \notin odd PROVE Ready(t)'
        OBVIOUS
      <3>1. Ready(t)
        BY DEF AllReady
      <3>2. Page(a) \in 0..Pages - 1 /\ (InPages(pages', a, len) \/ InPages(nears', a, len))
        <4>1. CASE pc[t] = "bump"
          <5>1. /\ job[t].page \in 1..Len(pages) /\ Roomy(pages[job[t].page], n)
                /\ a = pages[job[t].page].cursor
            BY <2>1, <2>3, <3>1, <4>1 DEF Shape, Ready
          <5>2. InPages(pages', a, len)
            <6>1. Bumped(pages, pages', job[t].page, n)
              BY <2>2, <2>3, <4>1
            <6>2. Owned(pages, prot) /\ pages \in Seq(PageRecord)
              BY <1>2 DEF Held, Typed
            <6> QED BY <5>1, <6>1, <6>2, <2>4, Cut
          <5>3. Owned(pages', prot') /\ pages' \in Seq(PageRecord)
            BY <1>1 DEF Held, Typed
          <5> QED BY <5>2, <5>3, OnPage
        <4>2. CASE pc[t] = "bumpNear"
          <5>1. /\ job[t].page \in 1..Len(nears) /\ Roomy(nears[job[t].page], n)
                /\ a = nears[job[t].page].cursor
            BY <2>1, <2>3, <3>1, <4>2 DEF Shape, Ready
          <5>2. InPages(nears', a, len)
            <6>1. Bumped(nears, nears', job[t].page, n)
              BY <2>2, <2>3, <4>2
            <6>2. Owned(nears, prot) /\ nears \in Seq(PageRecord)
              BY <1>2 DEF Held, Typed
            <6> QED BY <5>1, <6>1, <6>2, <2>4, Cut
          <5>3. Owned(nears', prot') /\ nears' \in Seq(PageRecord)
            BY <1>1 DEF Held, Typed
          <5> QED BY <5>2, <5>3, OnPage
        <4> QED BY <2>2, <4>1, <4>2
      <3>3. pc'[t] = "unprotect" /\ job'[t].at = a /\ job'[t].len = len
        BY <2>2, <2>3
      <3> QED BY <3>2, <3>3 DEF Ready, InArena
    <2> QED BY <1>1, <2>2, <2>5, AloneKept, ReadyKept
  <1>11. ASSUME NEW t \in Thread, NearFromPage(t)
         PROVE  Alone' /\ AllReady'
    <2>1. Shape(t) /\ job[t] \in JobRecord
      BY <1>2 DEF Held, Shaped, Typed
    <2>2. /\ Keeps(t) /\ UNCHANGED Memory /\ UNCHANGED Rest
          /\ pc[t] = "pickNear" /\ pc'[t] = "readNear"
          /\ \E i \in 1..Len(nears) :
               Roomy(nears[i], job[t].len) /\ job'[t] = [job[t] EXCEPT !.page = i]
      BY <1>2, <1>11, NearFromPageIs
    <2>3. PICK i : Roomy(nears[i], job[t].len) /\ job'[t] = [job[t] EXCEPT !.page = i]
      BY <2>2
    <2>4. /\ job'[t].page = i /\ job'[t].len = job[t].len /\ job'[t].next = "forward"
          /\ nears' = nears
      BY <2>1, <2>2, <2>3 DEF JobRecord, Shape, NearArena, Memory
    <2>5. ChunkSize(job[t])' = job[t].len
      BY <2>4 DEF ChunkSize
    <2>6. Roomy(nears'[job'[t].page], ChunkSize(job[t])')
      BY <2>3, <2>4, <2>5
    <2>7. Ready(t)'
      BY <2>2, <2>6 DEF Ready, Patching, Roomy
    <2> QED BY <1>1, <2>2, <2>7, AloneKept, ReadyKept
  <1>12. ASSUME NEW t \in Thread, NearMapPage(t)
         PROVE  Alone' /\ AllReady'
    <2>1. Shape(t) /\ MappedText
      BY DEF Held, Shaped
    <2>2. UNCHANGED <<pages, pc, job, fault>> /\ pc[t] = "pickNear"
      BY <1>12 DEF NearMapPage
    <2>3. Keeps(t)
      BY <2>2 DEF Keeps
    <2> QED BY <1>1, <2>2, <2>3, ReadyQuiet
  <1>13. ASSUME NEW t \in Thread, NearFromCave(t)
         PROVE  Alone' /\ AllReady'
    <2>1. Shape(t) /\ MappedText /\ job[t] \in JobRecord
      BY <1>2 DEF Held, Shaped, Typed
    <2>2. /\ Keeps(t) /\ odd' = odd \cup {"cave"} /\ pc[t] = "pickNear" /\ pc'[t] = "unprotect"
          /\ \E a \in Nat : Page(a) \in 0..Pages - 1 /\ job'[t] = [job[t] EXCEPT !.at = a]
      BY <1>2, <1>13, <2>1, NearFromCaveIs
    <2>3. Page(job'[t].at) \in 0..Pages - 1
      BY <2>1, <2>2 DEF JobRecord
    <2>4. Ready(t)'
      BY <2>2, <2>3 DEF Ready, Page
    <2> QED BY <1>1, <2>2, <2>4, AloneKept, ReadyKept
  <1>14. ASSUME NEW t \in Thread, NearNotFound(t)
         PROVE  Alone' /\ AllReady'
    <2>1. Keeps(t) /\ pc[t] = "pickNear" /\ (Relocates(t) \/ UNCHANGED <<job, pc>>)
      BY <1>2, <1>14, NearNotFoundIs
    <2>2. pc'[t] \in {"pick", "pickNear"}
      BY <1>2, <2>1, RelocatesIs
    <2> QED BY <1>1, <2>1, <2>2, ReadyQuiet
  <1>15. ASSUME NEW t \in Thread, Unprotect(t)
         PROVE  Alone' /\ AllReady'
    <2>1. /\ Keeps(t) /\ UNCHANGED <<pages, nears, odd, job>>
          /\ pc[t] = "unprotect" /\ pc'[t] = "copy"
          /\ prot' = [prot EXCEPT ![Page(job[t].at)] = "rwx"]
      BY <1>2, <1>15, UnprotectIs
    <2>2. "overlap" \notin odd => Ready(t)'
      <3> SUFFICES ASSUME "overlap" \notin odd PROVE Ready(t)'
        OBVIOUS
      <3>1. /\ Page(job[t].at) \in 0..Pages - 1
            /\ job[t].next # "done" => InArena(job[t].at, job[t].len) \/ "cave" \in odd
        BY <2>1 DEF AllReady, Ready, Patching
      <3>2. prot'[Page(job[t].at)] = "rwx"
        BY <1>2, <2>1, <3>1, StaysSet
      <3>3. InArena(job[t].at, job[t].len) => InArena(job[t].at, job[t].len)'
        BY <2>1 DEF InArena, InPages
      <3> QED BY <2>1, <3>1, <3>2, <3>3 DEF Ready, Page
    <2> QED BY <1>1, <2>1, <2>2, AloneKept, ReadyKept
  <1>16. ASSUME NEW t \in Thread, Copy(t)
         PROVE  Alone' /\ AllReady'
    <2>1. Shape(t)
      BY DEF Held, Shaped
    <2>2. /\ Keeps(t) /\ UNCHANGED <<prot, pages, nears, odd, job>> /\ pc[t] = "copy"
          /\ pc'[t] = "protect" \/ pc'[t] = pc[t]
      BY <1>2, <1>16, <2>1, CopyIs
    <2>3. "overlap" \notin odd => Ready(t)'
      <3> SUFFICES ASSUME "overlap" \notin odd PROVE Ready(t)'
        OBVIOUS
      <3>1. /\ Page(job[t].at) \in 0..Pages - 1 /\ prot[Page(job[t].at)] = "rwx"
            /\ job[t].next # "done" => InArena(job[t].at, job[t].len) \/ "cave" \in odd
        BY <2>2 DEF AllReady, Ready, Patching
      <3>2. InArena(job[t].at, job[t].len) => InArena(job[t].at, job[t].len)'
        BY <2>2 DEF InArena, InPages
      <3> QED BY <2>2, <3>1, <3>2 DEF Ready, Page
    <2> QED BY <1>1, <2>2, <2>3, AloneKept, ReadyKept
  <1>17. ASSUME NEW t \in Thread, Protect(t)
         PROVE  Alone' /\ AllReady'
    <2>1. Keeps(t) /\ pc[t] = "protect" /\ (pc'[t] \in {"pick", "gen", "add", "idle"} \/ Relocates(t))
      BY <1>2, <1>17, ProtectIs
    <2>2. pc'[t] \in {"pick", "gen", "add", "idle"}
      BY <1>2, <2>1, RelocatesIs
    <2> QED BY <1>1, <2>1, <2>2, ReadyQuiet
  <1>18. ASSUME NEW t \in Thread, AddHookEntry(t)
         PROVE  Alone' /\ AllReady'
    <2>1. Shape(t) /\ MappedText
      BY DEF Held, Shaped
    <2>2. /\ Keeps(t) /\ pc[t] = "add" /\ pc'[t] = "unprotect" /\ job'[t].next = "done"
          /\ job'[t].at = Start[job[t].f] /\ job[t].f \in Fn
      BY <1>2, <1>18, <2>1, AddHookEntryIs DEF Shape
    <2>3. Page(job'[t].at) \in 0..Pages - 1
      BY <1>2, <2>1, <2>2, FnMapped
    <2>4. Ready(t)'
      BY <2>2, <2>3 DEF Ready, Page
    <2> QED BY <1>1, <2>2, <2>4, AloneKept, ReadyKept
  <1> QED BY <1>3, <1>4, <1>5, <1>6, <1>7, <1>8, <1>9, <1>10, <1>11, <1>12,
             <1>13, <1>14, <1>15, <1>16, <1>17, <1>18 DEF Next

(* At the start every thread is idle.                                      *)
LEMMA ReadyInit ==
  ASSUME Init
  PROVE  Alone /\ AllReady
  BY DEF Init, Alone, AllReady, Ready, Patching

-----------------------------------------------------------------------------
(* On x64 and ia32 no indirect stub is ever found: no relocated code is    *)
(* made, no entry added, no function patched.                              *)
Stubless(t) ==
  /\ pc[t] \notin {"readNear", "bumpNear", "add"}
  /\ job[t].next \notin {"add", "done"}
  /\ job[t].next = "forward" => pc[t] = "pickNear"
NoStub ==
  X86 =>
    /\ nears = <<>> /\ entries = {}
    /\ \A t \in Thread : Stubless(t)
    /\ \A k \in 1..Len(writes) : writes[k].what # "done"

(* A step of t that touches neither the near arena nor what was written.   *)
LEMMA NoStubKept ==
  ASSUME NoStub, X86, NEW t \in Thread, Keeps(t), Stubless(t)',
         UNCHANGED <<nears, entries, writes>>
  PROVE  NoStub'
  <1>1. ASSUME NEW u \in Thread PROVE Stubless(u)'
    <2>1. CASE u = t
      BY <2>1
    <2>2. CASE u # t
      BY <2>2 DEF Keeps, NoStub, Stubless
    <2> QED BY <2>1, <2>2
  <1> QED BY <1>1 DEF NoStub

(* No step on x64 or ia32 gets past the search for a near page.            *)
LEMMA NoStubStep ==
  ASSUME Held, NoStub, [Next]_vars
  PROVE  NoStub'
  <1>1. Typed /\ Shaped /\ MappedText /\ job \in [Thread -> JobRecord]
    BY DEF Held, Typed
  <1>2. arch' = arch
    BY DEF Next, vars, Enable, Disable, DobbyHook, DobbyInstrument, Begin,
         GenerateTrampolineBuffer, GenerateNearTrampolineBuffer, AllocateChunk, ReadCursor,
         BumpCursor, NearFromPage, NearMapPage, NearFromCave, NearNotFound,
         Unprotect, Copy, Protect, AddHookEntry, Rest
  <1> SUFFICES ASSUME X86 PROVE NoStub'
    BY <1>2 DEF NoStub, X86
  <1>3. /\ nears = <<>> /\ entries = {} /\ \A t \in Thread : Stubless(t)
        /\ \A k \in 1..Len(writes) : writes[k].what # "done"
    BY DEF NoStub
  <1>4. CASE UNCHANGED vars
    BY <1>4 DEF vars, NoStub, Stubless, X86
  <1>5. CASE Enable
    BY <1>1, <1>5, EnableIs DEF NoStub, Stubless, X86, Memory
  <1>6. CASE Disable
    <2>1. /\ UNCHANGED Memory /\ UNCHANGED <<arch, entries, job, fault>>
          /\ \A u \in Thread : pc'[u] = IF pc[u] = "plugin" THEN "dangling" ELSE pc[u]
      BY <1>1, <1>6, DisableIs
    <2>2. ASSUME NEW u \in Thread PROVE Stubless(u)'
      <3>1. Stubless(u) /\ job' = job
        BY <1>3, <2>1
      <3>2. CASE pc[u] = "plugin"
        <4>1. pc'[u] = "dangling"
          BY <2>1, <3>2
        <4> QED BY <3>1, <3>2, <4>1 DEF Stubless
      <3>3. CASE pc[u] # "plugin"
        <4>1. pc'[u] = pc[u]
          BY <2>1, <3>3
        <4> QED BY <3>1, <4>1 DEF Stubless
      <3> QED BY <3>2, <3>3
    <2> QED BY <2>1, <2>2, <1>3 DEF NoStub, Memory
  <1>7. ASSUME NEW t \in Thread, NEW f \in Fn, DobbyHook(t, f) \/ DobbyInstrument(t, f)
        PROVE  NoStub'
    <2>1. /\ Keeps(t) /\ UNCHANGED Memory /\ UNCHANGED Rest
          /\ UNCHANGED <<pc, job, odd>> \/ Begins(t, f)
      BY <1>1, <1>7, HookIs
    <2>2. Stubless(t)'
      BY <1>3, <2>1 DEF Stubless, Begins
    <2> QED BY <2>1, <2>2, NoStubKept DEF Memory, Rest
  <1>8. ASSUME NEW t \in Thread, GenerateTrampolineBuffer(t) \/ GenerateNearTrampolineBuffer(t)
        PROVE  NoStub'
    <2>1. /\ Keeps(t) /\ UNCHANGED Memory /\ UNCHANGED Rest
          /\ \/ pc'[t] = "plugin" /\ job' = job /\ pc[t] = "gen"
             \/ AllocateNear(t)
             \/ UNCHANGED <<pc, job>>
      BY <1>1, <1>8, GenerateIs
    <2>2. Stubless(t)'
      <3>1. CASE AllocateNear(t)
        BY <1>1, <3>1, AllocateNearIs DEF Stubless
      <3>2. CASE pc'[t] = "plugin" /\ job' = job /\ pc[t] = "gen"
        BY <1>3, <3>2 DEF Stubless
      <3>3. CASE UNCHANGED <<pc, job>>
        BY <1>3, <3>3 DEF Stubless
      <3> QED BY <2>1, <3>1, <3>2, <3>3
    <2> QED BY <2>1, <2>2, NoStubKept DEF Memory, Rest
  <1>9. ASSUME NEW t \in Thread, AllocateChunk(t)
        PROVE  NoStub'
    <2>1. /\ Keeps(t) /\ UNCHANGED <<nears, writes, odd>> /\ UNCHANGED Rest /\ pc[t] = "pick"
          /\ \/ UNCHANGED <<job, pc>>
             \/ /\ \E i : job'[t] = [job[t] EXCEPT !.page = i]
                /\ pc'[t] = "read"
      BY <1>1, <1>9, AllocateChunkIs
    <2>2. job'[t].next = job[t].next /\ pc'[t] \in {"pick", "read"}
      BY <1>1, <2>1 DEF JobRecord
    <2>3. Stubless(t)'
      BY <1>3, <2>1, <2>2 DEF Stubless
    <2> QED BY <2>1, <2>3, NoStubKept DEF Rest
  <1>10. ASSUME NEW t \in Thread, ReadCursor(t)
         PROVE  NoStub'
    <2>1. /\ Keeps(t) /\ UNCHANGED Memory /\ UNCHANGED Rest
          /\ \/ pc[t] = "readNear"
             \/ /\ pc[t] = "read" /\ pc'[t] = "bump" /\ \E a : job'[t] = [job[t] EXCEPT !.at = a]
      BY <1>1, <1>10, ReadCursorIs DEF Shaped
    <2>2. pc[t] = "read" /\ pc'[t] = "bump" /\ job'[t].next = job[t].next
      BY <1>1, <1>3, <2>1 DEF JobRecord, Stubless
    <2>3. Stubless(t)'
      BY <1>3, <2>2 DEF Stubless
    <2> QED BY <2>1, <2>3, NoStubKept DEF Memory, Rest
  <1>11. ASSUME NEW t \in Thread, BumpCursor(t)
         PROVE  NoStub'
    <2>1. /\ Keeps(t) /\ UNCHANGED Rest /\ UNCHANGED <<job, writes>> /\ pc'[t] = "unprotect"
          /\ (pc[t] = "bump" /\ nears' = nears) \/ pc[t] = "bumpNear"
      BY <1>1, <1>11, BumpCursorIs DEF Shaped
    <2>2. pc[t] = "bump" /\ nears' = nears
      BY <1>3, <2>1 DEF Stubless
    <2>3. Stubless(t)'
      BY <1>3, <2>1, <2>2 DEF Stubless
    <2> QED BY <2>1, <2>2, <2>3, NoStubKept DEF Rest
  <1>12. ASSUME NEW t \in Thread, NearFromPage(t)
         PROVE  NoStub'
    <2>1. \E i \in 1..Len(nears) : TRUE
      BY <1>1, <1>12, NearFromPageIs
    <2> QED BY <1>3, <2>1
  <1>13. ASSUME NEW t \in Thread, NearMapPage(t) \/ NearFromCave(t)
         PROVE  NoStub'
    BY <1>1, <1>13, NearMapPageIs, NearFromCaveIs DEF Shaped
  <1>14. ASSUME NEW t \in Thread, NearNotFound(t)
         PROVE  NoStub'
    <2>1. Keeps(t) /\ UNCHANGED Memory /\ UNCHANGED Rest /\ UNCHANGED <<job, pc>>
      BY <1>1, <1>14, NearNotFoundIs
    <2>2. Stubless(t)'
      BY <1>3, <2>1 DEF Stubless
    <2> QED BY <2>1, <2>2, NoStubKept DEF Memory, Rest
  <1>15. ASSUME NEW t \in Thread, Unprotect(t)
         PROVE  NoStub'
    <2>1. /\ Keeps(t) /\ UNCHANGED <<nears, writes, job>> /\ UNCHANGED Rest
          /\ pc[t] = "unprotect" /\ pc'[t] = "copy"
      BY <1>1, <1>15, UnprotectIs
    <2>2. Stubless(t)'
      BY <1>3, <2>1 DEF Stubless
    <2> QED BY <2>1, <2>2, NoStubKept DEF Rest
  <1>16. ASSUME NEW t \in Thread, Copy(t)
         PROVE  NoStub'
    <2>1. /\ Keeps(t) /\ UNCHANGED <<nears, job>> /\ UNCHANGED Rest /\ pc[t] = "copy"
          /\ \/ /\ writes' = Append(writes, CodeRecord(job[t])) /\ CodeRecord(job[t]) \in WriteRecord
                /\ pc'[t] = "protect"
             \/ UNCHANGED <<writes, pc>>
      BY <1>1, <1>16, CopyIs DEF Shaped
    <2>2. Stubless(t)'
      BY <1>3, <2>1 DEF Stubless
    <2>3. CASE UNCHANGED <<writes, pc>>
      BY <2>1, <2>2, <2>3, NoStubKept DEF Rest
    <2>4. CASE writes' = Append(writes, CodeRecord(job[t])) /\ CodeRecord(job[t]) \in WriteRecord
      <3>1. /\ Len(writes') = Len(writes) + 1 /\ Len(writes) \in Nat
            /\ \A k \in 1..Len(writes) : writes'[k] = writes[k]
            /\ writes'[Len(writes) + 1] = CodeRecord(job[t])
        BY <1>1, <2>4, AppendProperties DEF Typed
      <3>2. CodeRecord(job[t]).what # "done"
        BY <1>3 DEF CodeRecord, Stubless
      <3>3. \A k \in 1..Len(writes') : writes'[k].what # "done"
        BY <1>3, <3>1, <3>2
      <3>4. \A u \in Thread : Stubless(u)'
        BY <1>3, <2>1, <2>2 DEF Keeps, Stubless
      <3> QED BY <1>3, <2>1, <3>3, <3>4 DEF NoStub, Rest
    <2> QED BY <2>1, <2>3, <2>4
  <1>17. ASSUME NEW t \in Thread, Protect(t)
         PROVE  NoStub'
    <2>1. /\ Keeps(t) /\ UNCHANGED <<nears, writes>> /\ UNCHANGED Rest /\ pc[t] = "protect"
          /\ \/ pc'[t] = "pick" /\ job'[t].next = "closure"
             \/ job[t].next = "closure" /\ pc'[t] = "gen" /\ job'[t] = job[t]
             \/ job[t].next \in {"forward", "add", "done"}
      BY <1>1, <1>17, ProtectIs
    <2>2. Stubless(t)'
      BY <1>3, <2>1 DEF Stubless
    <2> QED BY <2>1, <2>2, NoStubKept DEF Rest
  <1>18. ASSUME NEW t \in Thread, AddHookEntry(t)
         PROVE  NoStub'
    BY <1>3, <1>18 DEF AddHookEntry, Stubless
  <1> QED BY <1>4, <1>5, <1>6, <1>7, <1>8, <1>9, <1>10, <1>11, <1>12,
             <1>13, <1>14, <1>15, <1>16, <1>17, <1>18 DEF Next

(* At the start nothing has been entered or patched.                       *)
LEMMA NoStubInit ==
  ASSUME Init
  PROVE  NoStub
  BY DEF Init, NoStub, Stubless, NoJob

-----------------------------------------------------------------------------
(* What is written, and why the process ends.                              *)

(* Bytes are written by a copy, or by mapping a page.                      *)
Copies(t) ==
  /\ Copy(t) /\ pc[t] = "copy" /\ UNCHANGED <<prot, pages, nears, odd, job, entries>>
  /\ Writable(job[t].at, job[t].len)
  /\ writes' = Append(writes, CodeRecord(job[t])) /\ CodeRecord(job[t]) \in WriteRecord
Maps(p) ==
  /\ Noting("blind", prot[p] # "none") /\ UNCHANGED <<pages, pc, job, fault, entries>>
  /\ prot' = [prot EXCEPT ![p] = "rx"] /\ nears' = Append(nears, NewPage(p))
  /\ writes' = Append(writes, MapRecord(p)) /\ MapRecord(p) \in WriteRecord

(* Every step leaves the writes alone, copies one, or maps a page.         *)
LEMMA WritesAre ==
  ASSUME Held, [Next]_vars
  PROVE  \/ writes' = writes
         \/ \E t \in Thread : Copies(t)
         \/ \E p \in 0..Pages - 1 : Maps(p)
  <1>1. Typed /\ Shaped /\ MappedText
    BY DEF Held
  <1>2. ASSUME NEW t \in Thread, Copy(t)
        PROVE  writes' = writes \/ Copies(t)
    BY <1>1, <1>2, CopyIs DEF Shaped, Copies, Rest
  <1>3. ASSUME NEW t \in Thread, NearMapPage(t)
        PROVE  \E p \in 0..Pages - 1 : Maps(p)
    <2>1. UNCHANGED <<pages, pc, job, fault>> /\ UNCHANGED Rest
      BY <1>3 DEF NearMapPage
    <2>2. PICK p \in 0..Pages - 1 :
              /\ Noting("blind", prot[p] # "none")
              /\ prot' = [prot EXCEPT ![p] = "rx"]
              /\ writes' = Append(writes, MapRecord(p)) /\ MapRecord(p) \in WriteRecord
              /\ nears' = Append(nears, NewPage(p))
      BY <1>1, <1>3, NearMapPageIs DEF Shaped
    <2> QED BY <2>1, <2>2 DEF Maps, Rest
  <1>4. CASE UNCHANGED vars \/ Enable \/ Disable
    BY <1>4 DEF vars, Enable, Disable, Memory
  <1>5. ASSUME NEW t \in Thread, NEW f \in Fn, DobbyHook(t, f) \/ DobbyInstrument(t, f)
        PROVE  writes' = writes
    BY <1>5 DEF DobbyHook, DobbyInstrument, Begin, Memory
  <1>6. ASSUME NEW t \in Thread,
               \/ GenerateTrampolineBuffer(t) \/ GenerateNearTrampolineBuffer(t)
               \/ AllocateChunk(t) \/ ReadCursor(t) \/ BumpCursor(t)
               \/ NearFromPage(t) \/ NearFromCave(t) \/ NearNotFound(t)
               \/ Unprotect(t) \/ Protect(t) \/ AddHookEntry(t)
        PROVE  writes' = writes
    BY <1>6 DEF GenerateTrampolineBuffer, GenerateNearTrampolineBuffer, AllocateChunk,
         ReadCursor, BumpCursor, NearFromPage, NearFromCave, NearNotFound,
         Unprotect, Protect, AddHookEntry, Memory
  <1> QED BY <1>2, <1>3, <1>4, <1>5, <1>6 DEF Next

(* A list of writes with one more.                                         *)
LEMMA OneMore ==
  ASSUME NEW ws \in Seq(WriteRecord), NEW w \in WriteRecord, NEW vs, vs = Append(ws, w)
  PROVE  /\ Len(ws) \in Nat /\ Len(vs) = Len(ws) + 1 /\ vs[Len(ws) + 1] = w
         /\ \A k \in 1..Len(ws) : vs[k] = ws[k]
         /\ \A k \in 1..Len(vs) : k \in 1..Len(ws) \/ k = Len(ws) + 1
  <1>1. /\ Len(ws) \in Nat /\ Len(vs) = Len(ws) + 1 /\ vs[Len(ws) + 1] = w
        /\ \A k \in 1..Len(ws) : vs[k] = ws[k]
    BY AppendProperties
  <1>2. \A k \in 1..Len(vs) : k \in 1..Len(ws) \/ k = Len(ws) + 1
    BY <1>1
  <1> QED BY <1>1, <1>2

(* A write is where it may be.                                             *)
Own(w) ==
  w.what # "map" =>
    \/ w.what = "done" /\ w.at = Start[w.by]
    \/ odd \cap {"cave", "overlap"} # {}
    \/ InArena(w.at, w.len)
AllOwn == \A k \in 1..Len(writes) : Own(writes[k])

(* A write stays where it may be.                                          *)
LEMMA OwnKept ==
  ASSUME Held, Held', Onward, odd \subseteq odd', NEW w \in WriteRecord, Own(w)
  PROVE  \/ w.what = "map"
         \/ w.what = "done" /\ w.at = Start[w.by]
         \/ odd' \cap {"cave", "overlap"} # {}
         \/ InPages(pages', w.at, w.len) \/ InPages(nears', w.at, w.len)
  <1>1. w.at \in Nat /\ w.len \in Nat
    BY DEF WriteRecord
  <1>2. InArena(w.at, w.len) => InPages(pages', w.at, w.len) \/ InPages(nears', w.at, w.len)
    BY <1>1, InArenaKept DEF Held
  <1> QED BY <1>2 DEF Own

(* Every step writes only where it may.                                    *)
LEMMA OwnStep ==
  ASSUME Held, AllReady, AllOwn, [Next]_vars
  PROVE  AllOwn'
  <1>1. Held' /\ Onward /\ odd \subseteq odd'
    BY HeldStep, OddGrows
  <1>2. writes \in Seq(WriteRecord)
    BY DEF Held, Typed
  <1>3. ASSUME NEW w \in WriteRecord, Own(w), NEW k, writes'[k] = w PROVE Own(writes[k])'
    BY <1>1, <1>3, OwnKept DEF Own, InArena
  <1>4. CASE writes' = writes
    BY <1>2, <1>3, <1>4 DEF AllOwn
  <1>5. ASSUME NEW w \in WriteRecord, writes' = Append(writes, w), Own(w)
        PROVE  AllOwn'
    <2>1. /\ Len(writes) \in Nat /\ writes'[Len(writes) + 1] = w
          /\ \A k \in 1..Len(writes) : writes'[k] = writes[k]
          /\ \A k \in 1..Len(writes') : k \in 1..Len(writes) \/ k = Len(writes) + 1
      BY <1>2, <1>5, OneMore
    <2>2. ASSUME NEW k \in 1..Len(writes') PROVE Own(writes[k])'
      <3>1. CASE k \in 1..Len(writes)
        <4>1. writes[k] \in WriteRecord /\ Own(writes[k]) /\ writes'[k] = writes[k]
          BY <1>2, <2>1, <3>1 DEF AllOwn
        <4> QED BY <1>3, <4>1
      <3>2. CASE k = Len(writes) + 1
        BY <1>3, <1>5, <2>1, <3>2
      <3> QED BY <2>1, <3>1, <3>2
    <2> QED BY <2>2 DEF AllOwn
  <1>6. ASSUME NEW t \in Thread, Copies(t) PROVE AllOwn'
    <2>1. PICK w \in WriteRecord : w = CodeRecord(job[t])
      BY <1>6 DEF Copies
    <2>2. w.at = job[t].at /\ w.len = job[t].len /\ w.by = job[t].f /\ w.what = job[t].next
      BY <2>1 DEF CodeRecord
    <2>3. pc[t] = "copy" /\ writes' = Append(writes, w)
      BY <1>6, <2>1 DEF Copies
    <2>4. Own(w)
      <3>1. CASE job[t].next = "done"
        BY <2>2, <3>1 DEF Held, Shaped, Shape, Own
      <3>2. CASE job[t].next # "done" /\ "overlap" \notin odd
        <4>1. InArena(job[t].at, job[t].len) \/ "cave" \in odd
          BY <2>3, <3>2 DEF AllReady, Ready, Patching
        <4> QED BY <2>2, <4>1 DEF Own
      <3>3. CASE "overlap" \in odd
        BY <3>3 DEF Own
      <3> QED BY <3>1, <3>2, <3>3
    <2> QED BY <1>5, <2>3, <2>4
  <1>7. ASSUME NEW p \in 0..Pages - 1, Maps(p) PROVE AllOwn'
    <2>1. PICK w \in WriteRecord : w = MapRecord(p)
      BY <1>7 DEF Maps
    <2>2. Own(w) /\ writes' = Append(writes, w)
      BY <1>7, <2>1 DEF Maps, Own, MapRecord
    <2> QED BY <1>5, <2>2
  <1> QED BY <1>4, <1>6, <1>7, WritesAre

(* Why the process ended.                                                  *)
Blamed ==
  /\ fault \in {"patch", "plugin"} => "overlap" \in odd
  /\ fault = "crosses" => \/ odd \cap {"cave", "overlap"} # {}
                          \/ \E t \in Thread : job[t].next = "done" /\ Crosses(Start[job[t].f], job[t].size)
  /\ fault = "stub" => X86

(* Every step that ends the process has one of the causes.                 *)
LEMMA BlamedStep ==
  ASSUME Held, AllReady, Blamed, [Next]_vars
  PROVE  Blamed'
  <1>1. Typed /\ Shaped /\ MappedText
    BY DEF Held
  <1>2. odd \subseteq odd'
    BY OddGrows
  <1>3. ASSUME fault' \in {"none", "twice", "oom"} PROVE Blamed'
    BY <1>3 DEF Blamed
  <1>4. CASE UNCHANGED vars
    BY <1>4 DEF vars, Blamed, X86
  <1>5. CASE Enable \/ Disable
    BY <1>3, <1>5 DEF Enable, Disable, Alive
  <1>6. ASSUME NEW t \in Thread, NEW f \in Fn, DobbyHook(t, f) \/ DobbyInstrument(t, f)
        PROVE  Blamed'
    BY <1>1, <1>3, <1>6, HookIs DEF Begins, Alive
  <1>7. ASSUME NEW t \in Thread, GenerateTrampolineBuffer(t) \/ GenerateNearTrampolineBuffer(t)
        PROVE  Blamed'
    <2>1. /\ Alive /\ odd' = odd
          /\ fault' = fault \/ (fault' = "plugin" /\ pc[t] = "dangling")
      BY <1>1, <1>7, GenerateIs
    <2>2. CASE fault' = fault
      BY <1>3, <2>1, <2>2 DEF Alive
    <2>3. CASE fault' = "plugin" /\ pc[t] = "dangling"
      <3>1. "overlap" \in odd
        BY <2>3 DEF AllReady, Ready
      <3> QED BY <2>1, <2>3, <3>1 DEF Blamed
    <2> QED BY <2>1, <2>2, <2>3
  <1>8. ASSUME NEW t \in Thread, AllocateChunk(t)
        PROVE  Blamed'
    BY <1>1, <1>3, <1>8, AllocateChunkIs DEF Alive
  <1>9. ASSUME NEW t \in Thread,
               \/ ReadCursor(t) \/ BumpCursor(t) \/ NearFromPage(t) \/ NearMapPage(t)
               \/ NearFromCave(t) \/ Unprotect(t) \/ Protect(t) \/ AddHookEntry(t)
        PROVE  Blamed'
    BY <1>3, <1>9 DEF ReadCursor, BumpCursor, NearFromPage, NearMapPage, NearFromCave,
         Unprotect, Protect, AddHookEntry, Alive
  <1>10. ASSUME NEW t \in Thread, NearNotFound(t)
         PROVE  Blamed'
    <2>1. Alive /\ UNCHANGED Rest /\ (fault' = fault \/ (X86 /\ fault' = "stub"))
      BY <1>1, <1>10, NearNotFoundIs
    <2>2. CASE fault' = fault
      BY <1>3, <2>1, <2>2 DEF Alive
    <2>3. CASE X86 /\ fault' = "stub"
      BY <2>1, <2>3 DEF Blamed, X86, Rest
    <2> QED BY <2>1, <2>2, <2>3
  <1>11. ASSUME NEW t \in Thread, Copy(t)
         PROVE  Blamed'
    <2>1. /\ UNCHANGED <<odd, job>> /\ Alive /\ pc[t] = "copy"
          /\ \/ fault' = fault
             \/ /\ ~Writable(job[t].at, job[t].len)
                /\ fault' = IF Crosses(job[t].at, job[t].len) THEN "crosses" ELSE "patch"
      BY <1>1, <1>11, CopyIs DEF Shaped
    <2>2. CASE fault' = fault
      BY <1>3, <2>1, <2>2 DEF Alive
    <2>3. CASE "overlap" \in odd /\ fault' \in {"crosses", "patch"}
      BY <2>1, <2>3 DEF Blamed
    <2>4. CASE /\ "overlap" \notin odd /\ ~Writable(job[t].at, job[t].len)
               /\ fault' = IF Crosses(job[t].at, job[t].len) THEN "crosses" ELSE "patch"
      <3>1. PICK a \in Nat, n \in Nat : a = job[t].at /\ n = job[t].len
        BY <1>1 DEF Typed, JobRecord
      <3>2. /\ Page(a) \in 0..Pages - 1 /\ prot[Page(a)] = "rwx"
            /\ job[t].next # "done" => InArena(a, n) \/ "cave" \in odd
        BY <2>1, <2>4, <3>1 DEF AllReady, Ready, Patching
      <3>3. PICK b \in Span(a, n) : ~(Page(b) < Pages /\ prot[Page(b)] = "rwx")
        BY <2>4, <3>1 DEF Writable
      <3>4. Pages \in Nat
        BY Sizes
      <3>5. Page(b) # Page(a)
        BY <3>2, <3>3, <3>4
      <3>6. b \in Nat /\ a <= b /\ b <= a + n - 1 /\ a + n - 1 \in Nat
        BY DEF Span
      <3>7. Crosses(a, n)
        <4> SUFFICES ASSUME Page(a) = Page(a + n - 1) PROVE FALSE
          BY DEF Crosses
        <4>1. PICK c \in Nat : c = a + n - 1
          BY <3>6
        <4> QED BY <3>5, <3>6, <4>1, PageBetween
      <3>8. fault' = "crosses"
        BY <2>4, <3>1, <3>7
      <3>9. CASE job[t].next = "done"
        <4>1. job[t].at = Start[job[t].f] /\ job[t].len = job[t].size
          BY <1>1, <3>9 DEF Shaped, Shape
        <4>2. Crosses(Start[job[t].f], job[t].size)
          BY <3>1, <3>7, <4>1
        <4>3. Crosses(Start[job'[t].f], job'[t].size) /\ job'[t].next = "done"
          BY <2>1, <3>9, <4>2
        <4> QED BY <3>8, <4>3 DEF Blamed, Crosses, Page
      <3>10. CASE "cave" \in odd
        BY <2>1, <3>8, <3>10 DEF Blamed
      <3>11. CASE InArena(a, n)
        <4>1. Page(b) = Page(a)
          BY <3>11, OnPage DEF InArena, Held, Typed
        <4> QED BY <3>5, <4>1
      <3> QED BY <3>2, <3>9, <3>10, <3>11
    <2> QED BY <2>1, <2>2, <2>3, <2>4
  <1> QED BY <1>4, <1>5, <1>6, <1>7, <1>8, <1>9, <1>10, <1>11 DEF Next

-----------------------------------------------------------------------------
(* The inductive invariant that all four theorems build on.                *)
Sound == Held /\ Alone /\ AllReady

(* What each thread holds is what its place in the code requires, the      *)
(* arenas consist of mapped pages, and while no call has overlapped        *)
(* another the one call under way finds its page as it left it             *)
(* (AllocateChunk, CodePatch).                                             *)
THEOREM MemorySound == Spec => []Sound
  <1>1. Init => Sound
    BY HeldInit, ReadyInit DEF Sound
  <1>2. Sound /\ [Next]_vars => Sound'
    BY HeldStep, ReadyStep DEF Sound
  <1> QED BY <1>1, <1>2, PTL DEF Spec

(* What Dobby writes lies in the function it hooks or in its own arena     *)
(* pages, below the cursor and short of the last byte, unless it took a    *)
(* run of zeros or calls overlapped.                                       *)
THEOREM WritesOnlyOwnBytes == Spec => []OnlyItsOwnBytes
  <1> DEFINE I == Sound /\ AllOwn
  <1>1. Init => I
    <2>1. Init => AllOwn
      BY DEF Init, AllOwn
    <2> QED BY <2>1, HeldInit, ReadyInit DEF Sound
  <1>2. I /\ [Next]_vars => I'
    BY HeldStep, ReadyStep, OwnStep DEF Sound
  <1>3. I => OnlyItsOwnBytes
    <2> SUFFICES ASSUME Held, AllOwn, NEW k \in 1..Len(writes), writes[k].what # "map"
                 PROVE  \/ writes[k].what = "done" /\ writes[k].at = Start[writes[k].by]
                        \/ odd \cap {"cave", "overlap"} # {}
                        \/ \E q \in ToSet(pages) \cup ToSet(nears) :
                             /\ BytesOf(writes[k]) \subseteq Span(q.base, PageSize - 1)
                             /\ writes[k].at + writes[k].len <= q.cursor
      BY DEF OnlyItsOwnBytes, Sound
    <2>1. ASSUME NEW qs \in Seq(PageRecord), InPages(qs, writes[k].at, writes[k].len)
          PROVE  \E q \in ToSet(qs) :
                   /\ BytesOf(writes[k]) \subseteq Span(q.base, PageSize - 1)
                   /\ writes[k].at + writes[k].len <= q.cursor
      <3>1. PICK w \in WriteRecord : w = writes[k]
        BY DEF Held, Typed
      <3>2. PICK a \in Nat, n \in Nat : a = w.at /\ n = w.len
        BY DEF WriteRecord
      <3>3. PICK i \in 1..Len(qs) :
              qs[i].base <= a /\ a + n < qs[i].base + PageSize /\ a + n <= qs[i].cursor
        BY <2>1, <3>1, <3>2 DEF InPages
      <3>4. PICK q \in PageRecord : q = qs[i]
        OBVIOUS
      <3>5. q \in ToSet(qs)
        BY <3>4 DEF ToSet
      <3>6. PICK base \in Nat : base = q.base
        BY DEF PageRecord
      <3>7. PageSize \in Nat /\ base <= a /\ a + n < base + PageSize
        BY <3>3, <3>4, <3>6, Sizes
      <3>8. a..(a + n - 1) \subseteq base..(base + (PageSize - 1) - 1)
        BY <3>7
      <3>9. BytesOf(w) \subseteq Span(q.base, PageSize - 1)
        BY <3>2, <3>6, <3>8 DEF BytesOf, Span
      <3>10. w.at + w.len <= q.cursor
        BY <3>2, <3>3, <3>4
      <3> QED BY <3>1, <3>5, <3>9, <3>10
    <2>2. CASE InArena(writes[k].at, writes[k].len)
      BY <2>1, <2>2 DEF InArena, Held, Typed
    <2> QED BY <2>2 DEF AllOwn, Own
  <1> QED BY <1>1, <1>2, <1>3, PTL DEF Spec

(* The process ends inside Dobby only for one of the listed causes, and on *)
(* x64 and ia32 no function is ever entered or patched.                    *)
THEOREM FaultsHaveCause == Spec => []FaultNeedsCause
  <1> DEFINE I == Sound /\ NoStub /\ Blamed
  <1>1. Init => I
    <2>1. Init => Blamed
      BY DEF Init, Blamed
    <2> QED BY <2>1, HeldInit, ReadyInit, NoStubInit DEF Sound
  <1>2. I /\ [Next]_vars => I'
    BY HeldStep, ReadyStep, NoStubStep, BlamedStep DEF Sound
  <1>3. I => FaultNeedsCause
    BY DEF Blamed, NoStub, FaultNeedsCause, Patched
  <1> QED BY <1>1, <1>2, <1>3, PTL DEF Spec

-----------------------------------------------------------------------------
(* A hook, once made, is left alone.                                       *)

(* What the writes are labelled with.                                      *)
Label(w) ==
  /\ w.what = "map" <=> w.by = "none"
  /\ w.what = "done" => w.by \in entries /\ w.at = Start[w.by] /\ w.len <= NormalSize + 1
Labelled == \A k \in 1..Len(writes) : Label(writes[k])

(* Nothing is written where nothing is mapped.                             *)
OnMapped(w) == \A b \in BytesOf(w) : Page(b) \in 0..Pages - 1 /\ prot[Page(b)] # "none"
WrittenMapped == \A k \in 1..Len(writes) : writes[k].what # "map" => OnMapped(writes[k])

(* Entries are never taken back.                                           *)
LEMMA EntriesGrow ==
  ASSUME Held, [Next]_vars
  PROVE  entries \subseteq entries'
  BY DEF Next, vars, Enable, Disable, DobbyHook, DobbyInstrument, Begin,
       GenerateTrampolineBuffer, GenerateNearTrampolineBuffer, AllocateChunk, ReadCursor,
       BumpCursor, NearFromPage, NearMapPage, NearFromCave, NearNotFound,
       Unprotect, Copy, Protect, AddHookEntry, Rest

(* Every write is labelled as it is made, and entries only grow.           *)
LEMMA LabelledStep ==
  ASSUME Held, Labelled, [Next]_vars
  PROVE  Labelled'
  <1>1. entries \subseteq entries' /\ writes \in Seq(WriteRecord)
    BY EntriesGrow DEF Held, Typed
  <1>2. CASE writes' = writes
    BY <1>1, <1>2 DEF Labelled, Label
  <1>3. ASSUME NEW w \in WriteRecord, writes' = Append(writes, w), Label(w)
        PROVE  Labelled'
    <2>1. /\ Len(writes) \in Nat /\ writes'[Len(writes) + 1] = w
          /\ \A k \in 1..Len(writes) : writes'[k] = writes[k]
          /\ \A k \in 1..Len(writes') : k \in 1..Len(writes) \/ k = Len(writes) + 1
      BY <1>1, <1>3, OneMore
    <2>2. ASSUME NEW k \in 1..Len(writes') PROVE Label(writes[k])'
      <3>1. Label(writes'[k])
        BY <1>3, <2>1 DEF Labelled
      <3> QED BY <1>1, <3>1 DEF Label
    <2> QED BY <2>2 DEF Labelled
  <1>4. ASSUME NEW t \in Thread, Copies(t) PROVE Labelled'
    <2>1. PICK w \in WriteRecord : w = CodeRecord(job[t])
      BY <1>4 DEF Copies
    <2>2. w.at = job[t].at /\ w.len = job[t].len /\ w.by = job[t].f /\ w.what = job[t].next
      BY <2>1 DEF CodeRecord
    <2>3. pc[t] = "copy" /\ writes' = Append(writes, w) /\ Shape(t)
      BY <1>4, <2>1 DEF Copies, Held, Shaped
    <2>4. w.by \in Fn /\ w.what \in Purpose /\ "none" \notin Fn
      BY <2>2, <2>3, Sizes DEF Shape, Patching
    <2>5. w.what # "map" /\ w.by # "none"
      BY <2>4 DEF Purpose, ArenaCode
    <2>6. w.what = "done" => w.by \in entries /\ w.at = Start[w.by] /\ w.len <= NormalSize + 1
      BY <2>2, <2>3 DEF Shape
    <2> QED BY <1>3, <2>3, <2>5, <2>6 DEF Label
  <1>5. ASSUME NEW p \in 0..Pages - 1, Maps(p) PROVE Labelled'
    <2>1. PICK w \in WriteRecord : w = MapRecord(p)
      BY <1>5 DEF Maps
    <2>2. Label(w) /\ writes' = Append(writes, w)
      BY <1>5, <2>1 DEF Maps, Label, MapRecord
    <2> QED BY <1>3, <2>2
  <1> QED BY <1>2, <1>4, <1>5, WritesAre

(* A copy needs mapped pages, and no page is given back.                   *)
LEMMA WrittenMappedStep ==
  ASSUME Held, WrittenMapped, [Next]_vars
  PROVE  WrittenMapped'
  <1>1. Stays /\ writes \in Seq(WriteRecord)
    BY HeldStep DEF Onward, Held, Typed
  <1>2. ASSUME NEW w, OnMapped(w), NEW k, writes'[k] = w PROVE OnMapped(writes[k])'
    BY <1>1, <1>2 DEF OnMapped, Stays, BytesOf, Span, Page
  <1>3. CASE writes' = writes
    BY <1>2, <1>3 DEF WrittenMapped
  <1>4. ASSUME NEW w \in WriteRecord, writes' = Append(writes, w), w.what # "map" => OnMapped(w)
        PROVE  WrittenMapped'
    <2>1. /\ Len(writes) \in Nat /\ writes'[Len(writes) + 1] = w
          /\ \A k \in 1..Len(writes) : writes'[k] = writes[k]
          /\ \A k \in 1..Len(writes') : k \in 1..Len(writes) \/ k = Len(writes) + 1
      BY <1>1, <1>4, OneMore
    <2>2. ASSUME NEW k \in 1..Len(writes'), writes'[k].what # "map" PROVE OnMapped(writes[k])'
      <3>1. OnMapped(writes'[k])
        BY <1>4, <2>1, <2>2 DEF WrittenMapped
      <3> QED BY <1>2, <3>1
    <2> QED BY <2>2 DEF WrittenMapped
  <1>5. ASSUME NEW t \in Thread, Copies(t) PROVE WrittenMapped'
    <2>1. PICK w \in WriteRecord : w = CodeRecord(job[t])
      BY <1>5 DEF Copies
    <2>2. w.at = job[t].at /\ w.len = job[t].len /\ writes' = Append(writes, w)
      BY <1>5, <2>1 DEF CodeRecord, Copies
    <2>3. ASSUME NEW b \in BytesOf(w) PROVE Page(b) \in 0..Pages - 1 /\ prot[Page(b)] # "none"
      <3>1. b \in Nat
        BY DEF BytesOf, Span, WriteRecord
      <3>2. Page(b) \in Nat /\ Pages \in Nat
        BY <3>1, PageNat, Sizes
      <3>3. Page(b) < Pages /\ prot[Page(b)] = "rwx"
        BY <1>5, <2>2 DEF Copies, Writable, BytesOf
      <3> QED BY <3>2, <3>3
    <2> QED BY <1>4, <2>2, <2>3 DEF OnMapped
  <1>6. ASSUME NEW p \in 0..Pages - 1, Maps(p) PROVE WrittenMapped'
    <2>1. PICK w \in WriteRecord : w = MapRecord(p)
      BY <1>6 DEF Maps
    <2>2. w.what = "map" /\ writes' = Append(writes, w)
      BY <1>6, <2>1 DEF Maps, MapRecord
    <2> QED BY <1>4, <2>2
  <1> QED BY <1>3, <1>5, <1>6, WritesAre

(* Only the page of the copy under way is writable.                        *)
OneWritable ==
  "overlap" \notin odd =>
    \A p \in 0..Pages - 1 : prot[p] = "rwx" =>
      \E t \in Thread : pc[t] \in {"copy", "protect"} /\ p = Page(job[t].at)

(* A step of t, which is not copying: no page is writable.                 *)
LEMMA NoneWritable ==
  ASSUME Alone, OneWritable, "overlap" \notin odd, NEW t \in Thread, pc[t] # "idle",
         pc[t] \notin {"copy", "protect"}
  PROVE  \A p \in 0..Pages - 1 : prot[p] # "rwx"
  BY OthersIdle DEF OneWritable

(* Unprotect makes one page writable, and Protect takes it back before     *)
(* anything else is made so.                                               *)
LEMMA OneWritableStep ==
  ASSUME Held, Alone, OneWritable, [Next]_vars
  PROVE  OneWritable'
  <1>1. Typed /\ Shaped /\ MappedText /\ odd \subseteq odd'
    BY OddGrows DEF Held
  <1>2. Typed'
    BY HeldStep DEF Held
  <1> SUFFICES ASSUME "overlap" \notin odd', NEW p \in 0..Pages - 1, prot'[p] = "rwx"
               PROVE  \E t \in Thread : pc'[t] \in {"copy", "protect"} /\ p = Page(job'[t].at)
    BY DEF OneWritable, Page
  <1>3. "overlap" \notin odd
    BY <1>1
  <1> DEFINE Goal == \E t \in Thread : pc'[t] \in {"copy", "protect"} /\ p = Page(job'[t].at)
  <1>4. CASE UNCHANGED <<prot, pc, job>>
    BY <1>3, <1>4 DEF OneWritable
  <1>5. ASSUME NEW t \in Thread, pc[t] # "idle", pc[t] \notin {"copy", "protect"}, prot'[p] = prot[p]
        PROVE  Goal
    BY <1>3, <1>5, NoneWritable
  <1>6. CASE Disable
    <2>1. /\ UNCHANGED Memory /\ Noting("overlap", Busy)
      BY <1>1, <1>6, DisableIs
    <2>2. \A u \in Thread : pc[u] = "idle"
      BY <2>1 DEF Noting, Busy
    <2>3. prot[p] = "rwx"
      BY <2>1 DEF Memory
    <2> QED BY <1>3, <2>2, <2>3 DEF OneWritable
  <1>7. ASSUME NEW t \in Thread, NEW f \in Fn, DobbyHook(t, f) \/ DobbyInstrument(t, f)
        PROVE  Goal
    <2>1. /\ UNCHANGED Memory /\ (UNCHANGED <<pc, job, odd>> \/ Begins(t, f))
      BY <1>1, <1>7, HookIs
    <2>2. CASE UNCHANGED <<pc, job, odd>>
      BY <1>4, <2>1, <2>2 DEF Memory
    <2>3. CASE Begins(t, f)
      <3>1. \A u \in Thread : pc[u] = "idle"
        BY <2>3 DEF Begins, Noting, Busy
      <3>2. prot[p] = "rwx"
        BY <2>1 DEF Memory
      <3> QED BY <1>3, <3>1, <3>2 DEF OneWritable
    <2> QED BY <2>1, <2>2, <2>3
  <1>8. ASSUME NEW t \in Thread,
               \/ GenerateTrampolineBuffer(t) \/ GenerateNearTrampolineBuffer(t)
               \/ ReadCursor(t) \/ BumpCursor(t)
               \/ NearFromPage(t) \/ NearFromCave(t) \/ NearNotFound(t) \/ AddHookEntry(t)
        PROVE  Goal
    <2>1. prot' = prot /\ pc[t] # "idle" /\ pc[t] \notin {"copy", "protect"}
      BY <1>8 DEF GenerateTrampolineBuffer, GenerateNearTrampolineBuffer,
         ReadCursor, BumpCursor, NearFromPage, NearFromCave, NearNotFound, AddHookEntry, Memory
    <2> QED BY <1>5, <2>1
  <1>9. ASSUME NEW t \in Thread, AllocateChunk(t)
        PROVE  Goal
    <2>1. pc[t] = "pick" /\ (prot' = prot \/ \E q \in 0..Pages - 1 : prot' = [prot EXCEPT ![q] = "rx"])
      BY <1>1, <1>9, AllocateChunkIs
    <2>2. prot'[p] = prot[p]
      BY <1>1, <2>1 DEF Typed
    <2> QED BY <1>5, <2>1, <2>2
  <1>10. ASSUME NEW t \in Thread, NearMapPage(t)
         PROVE  Goal
    <2>1. pc[t] = "pickNear" /\ \E q \in 0..Pages - 1 : prot' = [prot EXCEPT ![q] = "rx"]
      BY <1>1, <1>10, NearMapPageIs DEF Shaped, NearMapPage
    <2>2. prot'[p] = prot[p]
      BY <1>1, <2>1 DEF Typed
    <2> QED BY <1>5, <2>1, <2>2
  <1>11. ASSUME NEW t \in Thread, Unprotect(t)
         PROVE  Goal
    <2>1. /\ pc[t] = "unprotect" /\ pc'[t] = "copy" /\ job' = job
          /\ prot' = [prot EXCEPT ![Page(job[t].at)] = "rwx"]
      BY <1>1, <1>11, UnprotectIs
    <2>2. CASE p = Page(job[t].at)
      BY <2>1, <2>2
    <2>3. CASE p # Page(job[t].at)
      <3>1. prot'[p] = prot[p]
        BY <1>1, <2>1, <2>3 DEF Typed
      <3> QED BY <1>5, <2>1, <3>1
    <2> QED BY <2>2, <2>3
  <1>12. ASSUME NEW t \in Thread, Copy(t)
         PROVE  Goal
    <2>1. /\ Keeps(t) /\ UNCHANGED <<prot, job>> /\ pc[t] = "copy"
          /\ pc'[t] = "protect" \/ pc'[t] = pc[t]
      BY <1>1, <1>12, CopyIs DEF Shaped
    <2>2. PICK u \in Thread : pc[u] \in {"copy", "protect"} /\ p = Page(job[u].at)
      BY <1>3, <2>1 DEF OneWritable
    <2>3. pc'[u] \in {"copy", "protect"} /\ job'[u] = job[u]
      BY <2>1, <2>2 DEF Keeps
    <2> QED BY <2>2, <2>3
  <1>13. ASSUME NEW t \in Thread, Protect(t)
         PROVE  Goal
    <2>1. pc[t] = "protect" /\ prot' = [prot EXCEPT ![Page(job[t].at)] = "rx"]
      BY <1>1, <1>13, ProtectIs
    <2>2. prot[p] = "rwx" /\ p # Page(job[t].at)
      BY <1>1, <2>1 DEF Typed
    <2>3. PICK u \in Thread : pc[u] \in {"copy", "protect"} /\ p = Page(job[u].at)
      BY <1>3, <2>2 DEF OneWritable
    <2>4. u = t
      BY <1>3, <2>1, <2>3 DEF Alone
    <2> QED BY <2>2, <2>3, <2>4
  <1>14. CASE Enable
    BY <1>1, <1>4, <1>14, EnableIs DEF Memory
  <1>15. CASE UNCHANGED vars
    BY <1>4, <1>15 DEF vars
  <1> QED BY <1>6, <1>7, <1>8, <1>9, <1>10, <1>11, <1>12, <1>13, <1>14, <1>15 DEF Next

(* The function a call is for has no entry until it adds it, and is not    *)
(* patched until it is patched.                                            *)
Fresh(t) ==
  /\ pc[t] # "idle" /\ job[t].next # "done" => job[t].f \notin entries
  /\ pc[t] \in {"unprotect", "copy"} /\ job[t].next = "done" =>
       \A k \in 1..Len(writes) : writes[k].what = "done" => writes[k].by # job[t].f
AllFresh == "overlap" \notin odd => \A t \in Thread : Fresh(t)

(* The other threads are idle, so it is enough to look at the one that     *)
(* moves.                                                                  *)
LEMMA FreshKept ==
  ASSUME Alone, NEW t \in Thread, pc[t] # "idle", Keeps(t), odd \subseteq odd',
         "overlap" \notin odd => Fresh(t)'
  PROVE  AllFresh'
  <1> SUFFICES ASSUME "overlap" \notin odd', NEW u \in Thread
               PROVE  Fresh(u)'
    BY DEF AllFresh
  <1>1. "overlap" \notin odd
    OBVIOUS
  <1>2. CASE u = t
    BY <1>1, <1>2
  <1>3. CASE u # t
    <2>1. pc[u] = "idle" /\ pc'[u] = pc[u]
      BY <1>1, <1>3, OthersIdle DEF Keeps
    <2>2. pc'[u] = "idle"
      BY <2>1
    <2> QED BY <2>2 DEF Fresh
  <1> QED BY <1>2, <1>3

(* A step before the entry is added.                                       *)
LEMMA FreshBefore ==
  ASSUME Held, Alone, AllFresh, NEW t \in Thread, pc[t] # "idle", Keeps(t), odd \subseteq odd',
         job[t].next # "done", job'[t].next # "done", job'[t].f = job[t].f, entries' = entries
  PROVE  AllFresh'
  <1>1. "overlap" \notin odd => Fresh(t)'
    BY DEF AllFresh, Fresh
  <1> QED BY <1>1, FreshKept

(* An entry is added once, by the call that patches the function next.     *)
LEMMA FreshStep ==
  ASSUME Held, Alone, Labelled, AllFresh, [Next]_vars
  PROVE  AllFresh'
  <1>1. Typed /\ Shaped /\ MappedText /\ odd \subseteq odd' /\ job \in [Thread -> JobRecord]
    BY OddGrows DEF Held, Typed
  <1>2. ASSUME NEW t \in Thread, pc[t] # "idle", pc[t] \notin Patching PROVE job[t].next # "done"
    BY <1>1, <1>2 DEF Shaped, Shape
  <1>3. CASE UNCHANGED <<pc, job, entries, writes, odd>>
    BY <1>3 DEF AllFresh, Fresh
  <1>4. CASE Disable
    <2>1. /\ Noting("overlap", Busy)
          /\ \A u \in Thread : pc'[u] = IF pc[u] = "plugin" THEN "dangling" ELSE pc[u]
      BY <1>1, <1>4, DisableIs
    <2>2. "overlap" \notin odd' => \A u \in Thread : pc'[u] = "idle"
      BY <2>1 DEF Noting, Busy
    <2> QED BY <2>2 DEF AllFresh, Fresh
  <1>5. ASSUME NEW t \in Thread, NEW f \in Fn, DobbyHook(t, f) \/ DobbyInstrument(t, f)
        PROVE  AllFresh'
    <2>1. /\ Keeps(t) /\ UNCHANGED Memory /\ UNCHANGED Rest
          /\ UNCHANGED <<pc, job, odd>> \/ Begins(t, f)
      BY <1>1, <1>5, HookIs
    <2>2. CASE UNCHANGED <<pc, job, odd>>
      BY <1>3, <2>1, <2>2 DEF Memory, Rest
    <2>3. CASE Begins(t, f)
      <3>1. /\ f \notin entries /\ Noting("overlap", Busy) /\ job'[t].f = f
            /\ pc'[t] \in {"gen", "pick"} /\ entries' = entries
        BY <2>1, <2>3 DEF Begins, Rest
      <3>2. "overlap" \notin odd' => \A u \in Thread \ {t} : pc'[u] = "idle"
        BY <2>1, <3>1 DEF Noting, Busy, Keeps
      <3> QED BY <3>1, <3>2 DEF AllFresh, Fresh
    <2> QED BY <2>1, <2>2, <2>3
  <1>6. ASSUME NEW t \in Thread, GenerateTrampolineBuffer(t) \/ GenerateNearTrampolineBuffer(t)
        PROVE  AllFresh'
    <2>1. /\ Keeps(t) /\ UNCHANGED Memory /\ UNCHANGED Rest /\ odd' = odd
          /\ pc[t] \in {"gen", "plugin", "dangling"}
          /\ \/ job' = job
             \/ Relocates(t)
             \/ AllocateNear(t)
      BY <1>1, <1>6, GenerateIs
    <2>2. job[t].next # "done"
      BY <1>2, <2>1 DEF Patching
    <2>3. job'[t].next # "done" /\ job'[t].f = job[t].f
      BY <1>1, <2>1, <2>2, RelocatesIs, AllocateNearIs
    <2> QED BY <1>1, <2>1, <2>2, <2>3, FreshBefore DEF Rest
  <1>7. ASSUME NEW t \in Thread, AllocateChunk(t)
        PROVE  AllFresh'
    <2>1. /\ Keeps(t) /\ UNCHANGED Rest /\ pc[t] = "pick"
          /\ job' = job \/ \E i : job'[t] = [job[t] EXCEPT !.page = i]
      BY <1>1, <1>7, AllocateChunkIs
    <2>2. job[t].next # "done"
      BY <1>2, <2>1 DEF Patching
    <2>3. job'[t].next = job[t].next /\ job'[t].f = job[t].f
      BY <1>1, <2>1 DEF JobRecord
    <2> QED BY <1>1, <2>1, <2>2, <2>3, FreshBefore DEF Rest
  <1>8. ASSUME NEW t \in Thread, ReadCursor(t)
        PROVE  AllFresh'
    <2>1. /\ Keeps(t) /\ UNCHANGED Rest /\ pc[t] \in {"read", "readNear"}
          /\ \E a : job'[t] = [job[t] EXCEPT !.at = a]
      BY <1>1, <1>8, ReadCursorIs DEF Shaped
    <2>2. job[t].next # "done"
      BY <1>2, <2>1 DEF Patching
    <2>3. job'[t].next = job[t].next /\ job'[t].f = job[t].f
      BY <1>1, <2>1 DEF JobRecord
    <2> QED BY <1>1, <2>1, <2>2, <2>3, FreshBefore DEF Rest
  <1>9. ASSUME NEW t \in Thread, BumpCursor(t)
        PROVE  AllFresh'
    <2>1. Keeps(t) /\ UNCHANGED Rest /\ pc[t] \in {"bump", "bumpNear"} /\ job' = job
      BY <1>1, <1>9, BumpCursorIs DEF Shaped
    <2>2. job[t].next # "done"
      BY <1>2, <2>1 DEF Patching
    <2> QED BY <1>1, <2>1, <2>2, FreshBefore DEF Rest
  <1>10. ASSUME NEW t \in Thread, NearFromPage(t)
         PROVE  AllFresh'
    <2>1. /\ Keeps(t) /\ UNCHANGED Rest /\ pc[t] = "pickNear"
          /\ \E i : job'[t] = [job[t] EXCEPT !.page = i]
      BY <1>1, <1>10, NearFromPageIs
    <2>2. job[t].next # "done"
      BY <1>2, <2>1 DEF Patching
    <2>3. job'[t].next = job[t].next /\ job'[t].f = job[t].f
      BY <1>1, <2>1 DEF JobRecord
    <2> QED BY <1>1, <2>1, <2>2, <2>3, FreshBefore DEF Rest
  <1>11. ASSUME NEW t \in Thread, NearMapPage(t)
         PROVE  AllFresh'
    <2>1. UNCHANGED <<pc, job>> /\ UNCHANGED Rest /\ pc[t] = "pickNear"
      BY <1>11 DEF NearMapPage
    <2>2. job[t].next # "done" /\ Keeps(t)
      BY <1>2, <2>1 DEF Patching, Keeps
    <2> QED BY <1>1, <2>1, <2>2, FreshBefore DEF Rest
  <1>12. ASSUME NEW t \in Thread, NearFromCave(t)
         PROVE  AllFresh'
    <2>1. /\ Keeps(t) /\ UNCHANGED Rest /\ pc[t] = "pickNear"
          /\ \E a : job'[t] = [job[t] EXCEPT !.at = a]
      BY <1>1, <1>12, NearFromCaveIs DEF Shaped
    <2>2. job[t].next # "done"
      BY <1>2, <2>1 DEF Patching
    <2>3. job'[t].next = job[t].next /\ job'[t].f = job[t].f
      BY <1>1, <2>1 DEF JobRecord
    <2> QED BY <1>1, <2>1, <2>2, <2>3, FreshBefore DEF Rest
  <1>13. ASSUME NEW t \in Thread, NearNotFound(t)
         PROVE  AllFresh'
    <2>1. Keeps(t) /\ UNCHANGED Rest /\ pc[t] = "pickNear" /\ (Relocates(t) \/ job' = job)
      BY <1>1, <1>13, NearNotFoundIs
    <2>2. job[t].next # "done"
      BY <1>2, <2>1 DEF Patching
    <2>3. job'[t].next # "done" /\ job'[t].f = job[t].f
      BY <1>1, <2>1, <2>2, RelocatesIs
    <2> QED BY <1>1, <2>1, <2>2, <2>3, FreshBefore DEF Rest
  <1>14. ASSUME NEW t \in Thread, Unprotect(t)
         PROVE  AllFresh'
    <2>1. /\ Keeps(t) /\ UNCHANGED <<writes, job>> /\ UNCHANGED Rest
          /\ pc[t] = "unprotect" /\ pc'[t] = "copy"
      BY <1>1, <1>14, UnprotectIs
    <2>2. "overlap" \notin odd => Fresh(t)'
      BY <2>1 DEF AllFresh, Fresh, Rest
    <2> QED BY <1>1, <2>1, <2>2, FreshKept
  <1>15. ASSUME NEW t \in Thread, Copy(t)
         PROVE  AllFresh'
    <2>1. /\ Keeps(t) /\ job' = job /\ UNCHANGED Rest /\ pc[t] = "copy"
          /\ pc'[t] = "protect" \/ UNCHANGED <<writes, pc>>
      BY <1>1, <1>15, CopyIs DEF Shaped
    <2>2. "overlap" \notin odd => Fresh(t)'
      BY <2>1 DEF AllFresh, Fresh, Rest
    <2> QED BY <1>1, <2>1, <2>2, FreshKept
  <1>16. ASSUME NEW t \in Thread, Protect(t)
         PROVE  AllFresh'
    <2>1. /\ Keeps(t) /\ UNCHANGED Rest /\ pc[t] = "protect"
          /\ \/ job[t].next = "done" /\ pc'[t] = "idle"
             \/ job[t].next # "done" /\ job'[t].f = job[t].f /\ job'[t].next # "done"
             \/ job[t].next # "done" /\ Relocates(t)
      BY <1>1, <1>16, ProtectIs
    <2>2. CASE job[t].next = "done" /\ pc'[t] = "idle"
      <3>1. Fresh(t)'
        BY <2>2 DEF Fresh
      <3> QED BY <1>1, <2>1, <3>1, FreshKept
    <2>3. CASE job[t].next # "done"
      <3>1. job'[t].f = job[t].f /\ job'[t].next # "done"
        BY <1>1, <2>1, <2>3, RelocatesIs
      <3> QED BY <1>1, <2>1, <2>3, <3>1, FreshBefore DEF Rest
    <2> QED BY <2>1, <2>2, <2>3
  <1>17. ASSUME NEW t \in Thread, AddHookEntry(t)
         PROVE  AllFresh'
    <2>1. /\ Keeps(t) /\ UNCHANGED Memory /\ pc[t] = "add"
          /\ job'[t].next = "done" /\ job'[t].f = job[t].f
      BY <1>1, <1>17, AddHookEntryIs DEF Shaped
    <2>2. job[t].next # "done"
      BY <1>2, <2>1 DEF Patching
    <2>3. "overlap" \notin odd => Fresh(t)'
      <3> SUFFICES ASSUME "overlap" \notin odd PROVE Fresh(t)'
        OBVIOUS
      <3>1. job[t].f \notin entries
        BY <2>1, <2>2 DEF AllFresh, Fresh
      <3>2. \A k \in 1..Len(writes) : writes[k].what = "done" => writes[k].by # job[t].f
        BY <3>1 DEF Labelled, Label
      <3>3. writes' = writes
        BY <2>1 DEF Memory
      <3> QED BY <2>1, <3>2, <3>3 DEF Fresh
    <2> QED BY <1>1, <2>1, <2>3, FreshKept
  <1>18. CASE Enable
    BY <1>1, <1>3, <1>18, EnableIs DEF Memory
  <1>19. CASE UNCHANGED vars
    BY <1>3, <1>19 DEF vars
  <1> QED BY <1>4, <1>5, <1>6, <1>7, <1>8, <1>9, <1>10, <1>11, <1>12, <1>13, <1>14, <1>15,
             <1>16, <1>17, <1>18, <1>19 DEF Next

(* No page serves twice, and none of them belongs to the library.          *)
Unique(qs) == \A i, j \in 1..Len(qs) : i # j => Page(qs[i].base) # Page(qs[j].base)
Disjunct(qs, rs) ==
  \A i \in 1..Len(qs), j \in 1..Len(rs) : Page(qs[i].base) # Page(rs[j].base)
OffText(qs) == \A i \in 1..Len(qs) : Page(qs[i].base) \notin Text
Separate(qs, rs) ==
  Unique(qs) /\ Unique(rs) /\ Disjunct(qs, rs) /\ OffText(qs) /\ OffText(rs)
Distinct == odd = {} => Separate(pages, nears)

(* A page that was free is none of them.                                   *)
LEMMA FreeIsOther ==
  ASSUME NEW qs \in Seq(PageRecord), NEW pr, Owned(qs, pr), NEW p, pr[p] = "none",
         NEW i \in 1..Len(qs)
  PROVE  Page(qs[i].base) # p
  <1>1. PICK q \in 0..Pages - 1 : qs[i].base = q * PageSize /\ pr[q] # "none"
    BY DEF Owned
  <1>2. PageSize \in Nat \ {0} /\ q \in Nat
    BY Sizes
  <1>3. PICK b \in Nat : b = q * PageSize
    BY <1>2
  <1>4. q * PageSize <= b /\ b < q * PageSize + PageSize
    BY <1>2, <1>3
  <1>5. Page(b) = q
    BY <1>2, <1>4, PageIs
  <1> QED BY <1>1, <1>3, <1>5

(* A new arena page is the page it was made for.                           *)
LEMMA NewPageNumber ==
  ASSUME NEW p \in 0..Pages - 1
  PROVE  Page(NewPage(p).base) = p
  <1>1. PICK b \in Nat : b = p * PageSize /\ NewPage(p).base = b
    BY NewPageIs
  <1>2. PageSize \in Nat \ {0} /\ p \in Nat
    BY Sizes
  <1>3. p * PageSize <= b /\ b < p * PageSize + PageSize
    BY <1>1, <1>2
  <1>4. Page(b) = p
    BY <1>2, <1>3, PageIs
  <1> QED BY <1>1, <1>4

(* Adding a page that was free.                                            *)
LEMMA SeparateMore ==
  ASSUME NEW qs \in Seq(PageRecord), NEW rs \in Seq(PageRecord), NEW pr, Owned(qs, pr),
         Owned(rs, pr), NEW p \in 0..Pages - 1, pr[p] = "none", p \notin Text,
         NEW new, new = Append(qs, NewPage(p)),
         Unique(qs), Disjunct(qs, rs), OffText(qs)
  PROVE  Unique(new) /\ Disjunct(new, rs) /\ OffText(new)
  <1>1. NewPage(p) \in PageRecord
    BY NewPageIs
  <1>2. /\ Len(qs) \in Nat /\ Len(new) = Len(qs) + 1 /\ new[Len(qs) + 1] = NewPage(p)
        /\ \A i \in 1..Len(qs) : new[i] = qs[i]
    BY <1>1, AppendProperties
  <1>3. \A i \in 1..Len(new) : i \in 1..Len(qs) \/ i = Len(qs) + 1
    BY <1>2
  <1>4. Page(new[Len(qs) + 1].base) = p
    BY <1>2, NewPageNumber
  <1>5. \A i \in 1..Len(qs) : Page(new[i].base) = Page(qs[i].base) /\ Page(qs[i].base) # p
    BY <1>2, FreeIsOther
  <1>6. \A j \in 1..Len(rs) : Page(rs[j].base) # p
    BY FreeIsOther
  <1>7. Unique(new)
    BY <1>3, <1>4, <1>5 DEF Unique
  <1>8. Disjunct(new, rs)
    BY <1>3, <1>4, <1>5, <1>6 DEF Disjunct
  <1>9. OffText(new)
    BY <1>3, <1>4, <1>5 DEF OffText
  <1> QED BY <1>7, <1>8, <1>9

(* Moving a cursor moves no page.                                          *)
LEMMA SeparateBumped ==
  ASSUME NEW qs \in Seq(PageRecord), NEW rs, NEW i, NEW n, Bumped(qs, rs, i, n), NEW us
  PROVE  /\ Unique(qs) => Unique(rs)
         /\ Disjunct(qs, us) => Disjunct(rs, us)
         /\ Disjunct(us, qs) => Disjunct(us, rs)
         /\ OffText(qs) => OffText(rs)
  <1>1. Len(rs) = Len(qs) /\ \A k \in 1..Len(qs) : rs[k].base = qs[k].base
    BY DEF Bumped
  <1>2. Unique(qs) => Unique(rs)
    BY <1>1 DEF Unique
  <1>3. (Disjunct(qs, us) => Disjunct(rs, us)) /\ (Disjunct(us, qs) => Disjunct(us, rs))
    BY <1>1 DEF Disjunct
  <1>4. OffText(qs) => OffText(rs)
    BY <1>1 DEF OffText
  <1> QED BY <1>2, <1>3, <1>4

(* Having no page in common is symmetric.                                  *)
LEMMA DisjunctTurned ==
  ASSUME NEW qs, NEW rs, Disjunct(qs, rs)
  PROVE  Disjunct(rs, qs)
  BY DEF Disjunct

(* Every page an arena gets was free, or the step is odd.                  *)
LEMMA DistinctStep ==
  ASSUME Held, Distinct, [Next]_vars
  PROVE  Distinct'
  <1>1. /\ Typed /\ Shaped /\ MappedText /\ odd \subseteq odd'
        /\ pages \in Seq(PageRecord) /\ nears \in Seq(PageRecord)
        /\ Owned(pages, prot) /\ Owned(nears, prot)
    BY OddGrows DEF Held, Typed
  <1> SUFFICES ASSUME odd' = {} PROVE Separate(pages', nears')
    BY DEF Distinct, Separate, Unique, Disjunct, OffText, Page
  <1>2. odd = {} /\ Separate(pages, nears)
    BY <1>1 DEF Distinct
  <1>3. ASSUME NEW p \in 0..Pages - 1, prot[p] = "none" PROVE p \notin Text
    BY <1>1, <1>3 DEF MappedText
  <1>4. CASE UNCHANGED <<pages, nears>>
    BY <1>2, <1>4
  <1>5. ASSUME NEW t \in Thread, AllocateChunk(t)
        PROVE  Separate(pages', nears')
    <2>1. /\ nears' = nears
          /\ \/ pages' = pages
             \/ \E p \in 0..Pages - 1 : prot[p] = "none" /\ pages' = Append(pages, NewPage(p))
      BY <1>1, <1>5, AllocateChunkIs
    <2>2. CASE pages' = pages
      BY <1>4, <2>1, <2>2
    <2>3. ASSUME NEW p \in 0..Pages - 1, prot[p] = "none", pages' = Append(pages, NewPage(p))
          PROVE  Separate(pages', nears')
      <3>1. Unique(pages') /\ Disjunct(pages', nears) /\ OffText(pages')
        BY <1>1, <1>2, <1>3, <2>3, SeparateMore DEF Separate
      <3> QED BY <1>2, <2>1, <3>1 DEF Separate
    <2> QED BY <2>1, <2>2, <2>3
  <1>6. ASSUME NEW t \in Thread, BumpCursor(t)
        PROVE  Separate(pages', nears')
    <2>1. \/ nears' = nears /\ \E i, n : Bumped(pages, pages', i, n)
          \/ pages' = pages /\ \E i, n : Bumped(nears, nears', i, n)
      BY <1>1, <1>6, BumpCursorIs DEF Shaped
    <2>2. CASE nears' = nears /\ \E i, n : Bumped(pages, pages', i, n)
      BY <1>1, <1>2, <2>2, SeparateBumped DEF Separate
    <2>3. CASE pages' = pages /\ \E i, n : Bumped(nears, nears', i, n)
      BY <1>1, <1>2, <2>3, SeparateBumped DEF Separate
    <2> QED BY <2>1, <2>2, <2>3
  <1>7. ASSUME NEW t \in Thread, NearMapPage(t)
        PROVE  Separate(pages', nears')
    <2>1. PICK p \in 0..Pages - 1 :
             pages' = pages /\ Noting("blind", prot[p] # "none") /\ nears' = Append(nears, NewPage(p))
      BY <1>1, <1>7, NearMapPageIs DEF Shaped
    <2>2. prot[p] = "none"
      BY <2>1 DEF Noting
    <2>3. Unique(nears') /\ Disjunct(nears', pages) /\ OffText(nears')
      BY <1>1, <1>2, <1>3, <2>1, <2>2, SeparateMore, DisjunctTurned DEF Separate
    <2> QED BY <1>2, <2>1, <2>3, DisjunctTurned DEF Separate
  <1>8. ASSUME NEW t \in Thread,
               \/ GenerateTrampolineBuffer(t) \/ GenerateNearTrampolineBuffer(t) \/ ReadCursor(t)
               \/ NearFromPage(t) \/ NearFromCave(t) \/ NearNotFound(t) \/ AddHookEntry(t)
               \/ Unprotect(t) \/ Copy(t) \/ Protect(t)
        PROVE  Separate(pages', nears')
    BY <1>4, <1>8 DEF GenerateTrampolineBuffer, GenerateNearTrampolineBuffer, ReadCursor,
         NearFromPage, NearFromCave, NearNotFound, AddHookEntry, Unprotect, Copy, Protect, Memory
  <1>9. ASSUME NEW t \in Thread, NEW f \in Fn, DobbyHook(t, f) \/ DobbyInstrument(t, f)
        PROVE  Separate(pages', nears')
    BY <1>4, <1>9 DEF DobbyHook, DobbyInstrument, Begin, Memory
  <1>10. CASE Enable \/ Disable \/ UNCHANGED vars
    BY <1>4, <1>10 DEF Enable, Disable, vars, Memory
  <1> QED BY <1>5, <1>6, <1>7, <1>8, <1>9, <1>10 DEF Next

(* The bytes of a chunk are on the page it was cut from.                   *)
LEMMA OnItsPage ==
  ASSUME NEW qs \in Seq(PageRecord), NEW pr, Owned(qs, pr), NEW a \in Nat, NEW n \in Nat,
         NEW i \in 1..Len(qs), qs[i].base <= a, a + n < qs[i].base + PageSize,
         NEW b \in Span(a, n)
  PROVE  b \in Nat /\ Page(b) = Page(qs[i].base)
  <1>1. PICK p \in 0..Pages - 1 : qs[i].base = p * PageSize /\ pr[p] # "none"
    BY DEF Owned
  <1>2. PageSize \in Nat \ {0} /\ p \in Nat
    BY Sizes
  <1>3. PICK base \in Nat : base = p * PageSize
    BY <1>2
  <1>4. b \in Nat /\ base <= b /\ b < base + PageSize
    BY <1>1, <1>2, <1>3 DEF Span
  <1>5. base <= base /\ base < base + PageSize
    BY <1>2, <1>3
  <1>6. Page(b) = p /\ Page(base) = p
    BY <1>2, <1>3, <1>4, <1>5, PageIs
  <1> QED BY <1>1, <1>3, <1>4, <1>6

(* What lies in an arena does not lie in the library.                      *)
LEMMA ArenaOffText ==
  ASSUME Held, Separate(pages, nears), NEW a \in Nat, NEW n \in Nat, InArena(a, n),
         NEW b \in Span(a, n)
  PROVE  Page(b) \notin Text
  <1>1. /\ pages \in Seq(PageRecord) /\ nears \in Seq(PageRecord)
        /\ Owned(pages, prot) /\ Owned(nears, prot) /\ OffText(pages) /\ OffText(nears)
    BY DEF Held, Typed, Separate
  <1>2. ASSUME NEW qs \in Seq(PageRecord), Owned(qs, prot), OffText(qs), InPages(qs, a, n)
        PROVE  Page(b) \notin Text
    <2>1. PICK i \in 1..Len(qs) : qs[i].base <= a /\ a + n < qs[i].base + PageSize
      BY <1>2 DEF InPages
    <2>2. Page(b) = Page(qs[i].base)
      BY <1>2, <2>1, OnItsPage
    <2> QED BY <1>2, <2>2 DEF OffText
  <1> QED BY <1>1, <1>2 DEF InArena

(* The chunk a cursor is about to be moved past shares no byte with what   *)
(* was cut from an arena before, nor with the library.                     *)
LEMMA CutIsFree ==
  ASSUME NEW qs \in Seq(PageRecord), NEW rs \in Seq(PageRecord), NEW pr, Owned(qs, pr),
         Owned(rs, pr), Unique(qs), Disjunct(qs, rs), OffText(qs),
         NEW i \in 1..Len(qs), NEW m \in Nat, Roomy(qs[i], m), NEW len \in Nat, len <= m,
         NEW a \in Nat, NEW n \in Nat,
         \/ InPages(qs, a, n) \/ InPages(rs, a, n)
         \/ \A b \in Span(a, n) : Page(b) \in Text
  PROVE  Span(a, n) \cap Span(qs[i].cursor, len) = {}
  <1> SUFFICES ASSUME NEW b \in Span(a, n), b \in Span(qs[i].cursor, len)
               PROVE  FALSE
    OBVIOUS
  <1>1. PICK q \in PageRecord : q = qs[i]
    OBVIOUS
  <1>2. PICK base \in Nat, cursor \in Nat : base = q.base /\ cursor = q.cursor
    BY DEF PageRecord
  <1>3. base <= cursor /\ cursor + m < base + PageSize /\ PageSize \in Nat
    BY <1>1, <1>2, Sizes DEF Owned, Roomy
  <1>4. cursor + len < base + PageSize
    BY <1>3
  <1>5. Page(b) = Page(qs[i].base)
    <2>1. qs[i].base <= cursor /\ cursor + len < qs[i].base + PageSize /\ b \in Span(cursor, len)
      BY <1>1, <1>2, <1>3, <1>4
    <2> QED BY <1>2, <2>1, OnItsPage
  <1>6. CASE InPages(qs, a, n)
    <2>1. PICK k \in 1..Len(qs) :
            qs[k].base <= a /\ a + n < qs[k].base + PageSize /\ a + n <= qs[k].cursor
      BY <1>6 DEF InPages
    <2>2. Page(b) = Page(qs[k].base)
      BY <2>1, OnItsPage
    <2>3. k = i
      BY <1>5, <2>2 DEF Unique
    <2>4. a + n <= cursor
      BY <1>1, <1>2, <2>1, <2>3
    <2>5. b < a + n /\ cursor <= b
      BY <1>1, <1>2 DEF Span
    <2>6. b \in Nat
      BY DEF Span
    <2> QED BY <2>4, <2>5, <2>6
  <1>7. CASE InPages(rs, a, n)
    <2>1. PICK k \in 1..Len(rs) :
            rs[k].base <= a /\ a + n < rs[k].base + PageSize
      BY <1>7 DEF InPages
    <2>2. Page(b) = Page(rs[k].base)
      BY <2>1, OnItsPage
    <2> QED BY <1>5, <2>2 DEF Disjunct
  <1>8. CASE \A c \in Span(a, n) : Page(c) \in Text
    BY <1>5, <1>8 DEF OffText
  <1> QED BY <1>6, <1>7, <1>8

(* A function is patched where the library is.                             *)
InText ==
  odd = {} => \A k \in 1..Len(writes) :
    writes[k].what = "done" => \A b \in BytesOf(writes[k]) : Page(b) \in Text

(* What is copied is copied to one page, the one made writable.            *)
LEMMA CopiedToOnePage ==
  ASSUME Held, Alone, OneWritable, "overlap" \notin odd, NEW t \in Thread, Copies(t),
         NEW b \in Span(job[t].at, job[t].len)
  PROVE  Page(b) = Page(job[t].at)
  <1>1. pc[t] = "copy" /\ job[t].at \in Nat /\ job[t].len \in Nat
    BY DEF Copies, Held, Typed, JobRecord
  <1>2. b \in Nat
    BY <1>1 DEF Span
  <1>3. Page(b) \in Nat /\ Pages \in Nat /\ Page(b) < Pages /\ prot[Page(b)] = "rwx"
    BY <1>2, PageNat, Sizes DEF Copies, Writable
  <1>4. Page(b) \in 0..Pages - 1
    BY <1>3
  <1>5. PICK u \in Thread : pc[u] \in {"copy", "protect"} /\ Page(b) = Page(job[u].at)
    BY <1>3, <1>4 DEF OneWritable
  <1>6. u = t
    BY <1>1, <1>5 DEF Alone
  <1> QED BY <1>5, <1>6

(* A patch of a function is in the library.                                *)
LEMMA PatchInText ==
  ASSUME Held, Alone, OneWritable, "overlap" \notin odd, NEW t \in Thread, Copies(t),
         job[t].next = "done", NEW b \in Span(job[t].at, job[t].len)
  PROVE  Page(b) \in Text
  <1>1. job[t].f \in Fn /\ job[t].at = Start[job[t].f]
    BY DEF Copies, Held, Shaped, Shape
  <1>2. Page(job[t].at) \in Text
    BY <1>1, FnMapped DEF Held
  <1> QED BY <1>2, CopiedToOnePage

(* Patches stay in the library.                                            *)
LEMMA InTextStep ==
  ASSUME Held, Alone, OneWritable, InText, [Next]_vars
  PROVE  InText'
  <1>1. odd \subseteq odd' /\ writes \in Seq(WriteRecord)
    BY OddGrows DEF Held, Typed
  <1> SUFFICES ASSUME odd' = {}, NEW k \in 1..Len(writes'), writes'[k].what = "done",
                      NEW b \in BytesOf(writes'[k])
               PROVE  Page(b) \in Text
    BY DEF InText, BytesOf, Span, Page
  <1>2. odd = {}
    BY <1>1
  <1>3. ASSUME k \in 1..Len(writes), writes'[k] = writes[k] PROVE Page(b) \in Text
    BY <1>2, <1>3 DEF InText
  <1>4. ASSUME NEW w \in WriteRecord, writes' = Append(writes, w)
        PROVE  \/ k \in 1..Len(writes) /\ writes'[k] = writes[k]
               \/ writes'[k] = w
    BY <1>1, <1>4, OneMore
  <1>5. CASE writes' = writes
    BY <1>3, <1>5
  <1>6. ASSUME NEW t \in Thread, Copies(t) PROVE Page(b) \in Text
    <2>1. PICK w \in WriteRecord : w = CodeRecord(job[t]) /\ writes' = Append(writes, w)
      BY <1>6 DEF Copies
    <2>2. CASE writes'[k] = w
      <3>1. job[t].next = "done" /\ b \in Span(job[t].at, job[t].len)
        BY <2>1, <2>2 DEF CodeRecord, BytesOf
      <3> QED BY <1>2, <1>6, <3>1, PatchInText
    <2> QED BY <1>3, <1>4, <2>1, <2>2
  <1>7. ASSUME NEW p \in 0..Pages - 1, Maps(p) PROVE Page(b) \in Text
    <2>1. PICK w \in WriteRecord : w = MapRecord(p) /\ writes' = Append(writes, w)
      BY <1>7 DEF Maps
    <2>2. writes'[k] # w
      BY <2>1 DEF MapRecord
    <2> QED BY <1>3, <1>4, <2>1, <2>2
  <1> QED BY <1>5, <1>6, <1>7, WritesAre

(* The chunk a call is about to write holds nothing yet.                   *)
Pending(t) ==
  pc[t] \in {"unprotect", "copy"} /\ job[t].next # "done" =>
    \A k \in 1..Len(writes) : writes[k].what # "map" =>
      BytesOf(writes[k]) \cap Span(job[t].at, job[t].len) = {}
AllPending == odd = {} => \A t \in Thread : Pending(t)

(* The step is t's: it is enough to look at t.                             *)
LEMMA PendingKept ==
  ASSUME Alone, NEW t \in Thread, pc[t] # "idle", Keeps(t), odd \subseteq odd',
         odd' = {} => Pending(t)'
  PROVE  AllPending'
  <1> SUFFICES ASSUME odd' = {}, NEW u \in Thread
               PROVE  Pending(u)'
    BY DEF AllPending
  <1>1. CASE u = t
    BY <1>1
  <1>2. CASE u # t
    <2>1. "overlap" \notin odd
      OBVIOUS
    <2>2. pc[u] = "idle" /\ pc'[u] = pc[u]
      BY <1>2, <2>1, OthersIdle DEF Keeps
    <2>3. pc'[u] = "idle"
      BY <2>2
    <2> QED BY <2>3 DEF Pending
  <1> QED BY <1>1, <1>2

(* A thread that is not about to copy has nothing pending.                 *)
LEMMA PendingQuiet ==
  ASSUME Alone, NEW t \in Thread, pc[t] # "idle", Keeps(t), odd \subseteq odd',
         pc'[t] \notin {"unprotect", "copy"}
  PROVE  AllPending'
  <1>1. Pending(t)'
    BY DEF Pending
  <1> QED BY <1>1, PendingKept

(* The chunk that BumpCursor reserves holds nothing.                       *)
LEMMA BumpedIsFree ==
  ASSUME Held, AllReady, AllOwn, Distinct, InText, odd = {}, NEW t \in Thread, BumpCursor(t),
         NEW k \in 1..Len(writes), writes[k].what # "map"
  PROVE  BytesOf(writes[k]) \cap Span(job[t].at, job[t].len) = {}
  <1>1. /\ Typed /\ Shape(t) /\ Ready(t) /\ Separate(pages, nears)
        /\ pages \in Seq(PageRecord) /\ nears \in Seq(PageRecord)
        /\ Owned(pages, prot) /\ Owned(nears, prot)
    BY DEF Held, Typed, Shaped, AllReady, Distinct
  <1>2. PICK w \in WriteRecord : w = writes[k]
    BY DEF Held, Typed
  <1>3. PICK a \in Nat, n \in Nat : a = w.at /\ n = w.len
    BY DEF WriteRecord
  <1>4. InPages(pages, a, n) \/ InPages(nears, a, n) \/ \A b \in Span(a, n) : Page(b) \in Text
    <2>1. CASE w.what = "done"
      BY <1>2, <1>3, <2>1 DEF InText, BytesOf
    <2>2. CASE w.what # "done"
      <3>1. InArena(w.at, w.len)
        BY <1>2, <2>2 DEF AllOwn, Own
      <3> QED BY <1>3, <3>1 DEF InArena
    <2> QED BY <2>1, <2>2
  <1>5. PICK i, at, len, m : i = job[t].page /\ at = job[t].at /\ len = job[t].len /\ m = ChunkSize(job[t])
    OBVIOUS
  <1>6. len \in Nat /\ m \in Nat /\ len <= m
    BY <1>1, <1>5 DEF ChunkSize, Typed, JobRecord
  <1>7. pc[t] \in {"bump", "bumpNear"}
    BY DEF BumpCursor
  <1>8. CASE pc[t] = "bump"
    <2>1. i \in 1..Len(pages) /\ Roomy(pages[i], m) /\ at = pages[i].cursor
      BY <1>1, <1>5, <1>8 DEF Shape, Ready
    <2>2. Span(a, n) \cap Span(pages[i].cursor, len) = {}
      BY <1>1, <1>3, <1>4, <1>6, <2>1, CutIsFree DEF Separate
    <2> QED BY <1>2, <1>3, <1>5, <2>1, <2>2 DEF BytesOf
  <1>9. CASE pc[t] = "bumpNear"
    <2>1. i \in 1..Len(nears) /\ Roomy(nears[i], m) /\ at = nears[i].cursor
      BY <1>1, <1>5, <1>9 DEF Shape, Ready
    <2>2. Unique(nears) /\ OffText(nears) /\ Disjunct(nears, pages)
      BY <1>1, DisjunctTurned DEF Separate
    <2>3. Span(a, n) \cap Span(nears[i].cursor, len) = {}
      BY <1>1, <1>3, <1>4, <1>6, <2>1, <2>2, CutIsFree
    <2> QED BY <1>2, <1>3, <1>5, <2>1, <2>3 DEF BytesOf
  <1> QED BY <1>7, <1>8, <1>9

(* What is pending stays free until it is written.                         *)
LEMMA PendingStep ==
  ASSUME Held, Alone, AllReady, AllOwn, Distinct, InText, AllPending, [Next]_vars
  PROVE  AllPending'
  <1>1. Typed /\ Shaped /\ MappedText /\ odd \subseteq odd'
    BY OddGrows DEF Held
  <1>2. CASE UNCHANGED <<pc, job, writes, odd>>
    BY <1>2 DEF AllPending, Pending, BytesOf, Span
  <1>3. CASE Disable
    <2>1. /\ Noting("overlap", Busy)
          /\ \A u \in Thread : pc'[u] = IF pc[u] = "plugin" THEN "dangling" ELSE pc[u]
      BY <1>1, <1>3, DisableIs
    <2>2. odd' = {} => \A u \in Thread : pc'[u] = "idle"
      BY <2>1 DEF Noting, Busy
    <2> QED BY <2>2 DEF AllPending, Pending
  <1>4. ASSUME NEW t \in Thread, NEW f \in Fn, DobbyHook(t, f) \/ DobbyInstrument(t, f)
        PROVE  AllPending'
    <2>1. /\ Keeps(t) /\ UNCHANGED Memory
          /\ UNCHANGED <<pc, job, odd>> \/ Begins(t, f)
      BY <1>1, <1>4, HookIs
    <2>2. CASE UNCHANGED <<pc, job, odd>>
      BY <1>2, <2>1, <2>2 DEF Memory
    <2>3. CASE Begins(t, f)
      <3>1. Noting("overlap", Busy) /\ pc'[t] \in {"gen", "pick"}
        BY <2>3 DEF Begins
      <3>2. odd' = {} => \A u \in Thread \ {t} : pc'[u] = "idle"
        BY <2>1, <3>1 DEF Noting, Busy, Keeps
      <3>3. odd' = {} => \A u \in Thread : pc'[u] \notin {"unprotect", "copy"}
        BY <3>1, <3>2
      <3> QED BY <3>3 DEF AllPending, Pending
    <2> QED BY <2>1, <2>2, <2>3
  <1>5. ASSUME NEW t \in Thread, GenerateTrampolineBuffer(t) \/ GenerateNearTrampolineBuffer(t)
        PROVE  AllPending'
    <2>1. Keeps(t) /\ pc[t] # "idle" /\ pc'[t] \notin {"unprotect", "copy"}
      BY <1>1, <1>5, GenerateIs, RelocatesIs, AllocateNearIs
    <2> QED BY <1>1, <2>1, PendingQuiet
  <1>6. ASSUME NEW t \in Thread, AllocateChunk(t)
        PROVE  AllPending'
    <2>1. Keeps(t) /\ pc[t] # "idle" /\ pc'[t] \notin {"unprotect", "copy"}
      BY <1>1, <1>6, AllocateChunkIs
    <2> QED BY <1>1, <2>1, PendingQuiet
  <1>7. ASSUME NEW t \in Thread, ReadCursor(t)
        PROVE  AllPending'
    <2>1. Keeps(t) /\ pc[t] # "idle" /\ pc'[t] \notin {"unprotect", "copy"}
      BY <1>1, <1>7, ReadCursorIs DEF Shaped
    <2> QED BY <1>1, <2>1, PendingQuiet
  <1>8. ASSUME NEW t \in Thread, NearFromPage(t) \/ NearNotFound(t)
        PROVE  AllPending'
    <2>1. Keeps(t) /\ pc[t] # "idle" /\ pc'[t] \notin {"unprotect", "copy"}
      BY <1>1, <1>8, NearFromPageIs, NearNotFoundIs, RelocatesIs
    <2> QED BY <1>1, <2>1, PendingQuiet
  <1>9. ASSUME NEW t \in Thread, NearMapPage(t)
        PROVE  AllPending'
    <2>1. UNCHANGED <<pc, job>> /\ pc[t] = "pickNear"
      BY <1>9 DEF NearMapPage
    <2> QED BY <1>1, <2>1, PendingQuiet DEF Keeps
  <1>10. ASSUME NEW t \in Thread, NearFromCave(t)
         PROVE  AllPending'
    <2>1. odd' # {}
      BY <1>10 DEF NearFromCave, Noting
    <2> QED BY <2>1 DEF AllPending
  <1>11. ASSUME NEW t \in Thread, BumpCursor(t)
         PROVE  AllPending'
    <2>1. Keeps(t) /\ pc[t] # "idle" /\ UNCHANGED <<job, writes, odd>>
      BY <1>1, <1>11, BumpCursorIs DEF Shaped
    <2>2. odd = {} => \A k \in 1..Len(writes) : writes[k].what # "map" =>
                        BytesOf(writes[k]) \cap Span(job[t].at, job[t].len) = {}
      BY <1>11, BumpedIsFree
    <2>3. odd' = {} => Pending(t)'
      BY <2>1, <2>2 DEF Pending, BytesOf, Span
    <2> QED BY <1>1, <2>1, <2>3, PendingKept
  <1>12. ASSUME NEW t \in Thread, Unprotect(t)
         PROVE  AllPending'
    <2>1. Keeps(t) /\ pc[t] = "unprotect" /\ UNCHANGED <<job, writes, odd>>
      BY <1>1, <1>12, UnprotectIs
    <2>2. odd' = {} => Pending(t)'
      BY <2>1 DEF AllPending, Pending, BytesOf, Span
    <2> QED BY <1>1, <2>1, <2>2, PendingKept
  <1>13. ASSUME NEW t \in Thread, Copy(t)
         PROVE  AllPending'
    <2>1. /\ Keeps(t) /\ pc[t] = "copy" /\ UNCHANGED <<job, odd>>
          /\ pc'[t] = "protect" \/ UNCHANGED <<writes, pc>>
      BY <1>1, <1>13, CopyIs DEF Shaped
    <2> QED BY <1>1, <1>2, <2>1, PendingQuiet
  <1>14. ASSUME NEW t \in Thread, Protect(t)
         PROVE  AllPending'
    <2>1. Keeps(t) /\ pc[t] # "idle" /\ pc'[t] \notin {"unprotect", "copy"}
      BY <1>1, <1>14, ProtectIs, RelocatesIs
    <2> QED BY <1>1, <2>1, PendingQuiet
  <1>15. ASSUME NEW t \in Thread, AddHookEntry(t)
         PROVE  AllPending'
    <2>1. Keeps(t) /\ pc[t] = "add" /\ job'[t].next = "done"
      BY <1>1, <1>15, AddHookEntryIs DEF Shaped
    <2>2. Pending(t)'
      BY <2>1 DEF Pending
    <2> QED BY <1>1, <2>1, <2>2, PendingKept
  <1>16. CASE Enable
    BY <1>1, <1>2, <1>16, EnableIs DEF Memory
  <1>17. CASE UNCHANGED vars
    BY <1>2, <1>17 DEF vars
  <1> QED BY <1>3, <1>4, <1>5, <1>6, <1>7, <1>8, <1>9, <1>10, <1>11, <1>12, <1>13, <1>14, <1>15,
             <1>16, <1>17 DEF Next

(* No two patches of functions share a byte.                               *)
LEMMA PatchesApart ==
  ASSUME NEW f \in Fn, NEW g \in Fn, f # g, NEW n \in Nat, NEW m \in Nat,
         n <= NormalSize + 1, m <= NormalSize + 1
  PROVE  Span(Start[f], n) \cap Span(Start[g], m) = {}
  <1>1. PICK a \in Nat, c \in Nat : a = Start[f] /\ c = Start[g]
    BY Sizes
  <1>2. NormalSize \in Nat /\ (a + NormalSize + 1 <= c \/ c + NormalSize + 1 <= a)
    BY <1>1, Sizes, ApartAssumption
  <1>3. a + n <= c \/ c + m <= a
    BY <1>2
  <1>4. a..(a + n - 1) \cap c..(c + m - 1) = {}
    BY <1>3
  <1> QED BY <1>1, <1>4 DEF Span

(* What a copy writes touches nothing that was copied before.              *)
LEMMA CopyTouchesNothing ==
  ASSUME Held, Alone, AllOwn, Labelled, OneWritable, AllFresh, Distinct, AllPending, odd = {},
         NEW t \in Thread, Copies(t), NEW k \in 1..Len(writes), writes[k].what # "map"
  PROVE  BytesOf(writes[k]) \cap Span(job[t].at, job[t].len) = {}
  <1>1. pc[t] = "copy" /\ Shape(t) /\ Fresh(t) /\ Separate(pages, nears)
    BY DEF Copies, Held, Shaped, AllFresh, Distinct
  <1>2. PICK w \in WriteRecord : w = writes[k]
    BY DEF Held, Typed
  <1>3. CASE job[t].next # "done"
    BY <1>1, <1>3 DEF AllPending, Pending
  <1>4. CASE job[t].next = "done" /\ w.what = "done"
    <2>1. /\ job[t].f \in Fn /\ job[t].at = Start[job[t].f] /\ job[t].len <= NormalSize + 1
          /\ job[t].len \in Nat /\ w.len \in Nat
      BY <1>1, <1>4 DEF Shape, Held, Typed, JobRecord, WriteRecord
    <2>2. w.by \in Fn /\ w.at = Start[w.by] /\ w.len <= NormalSize + 1
      BY <1>2, <1>4 DEF Labelled, Label, Held, Typed
    <2>3. w.by # job[t].f
      BY <1>1, <1>2, <1>4 DEF Fresh
    <2>4. Span(Start[w.by], w.len) \cap Span(Start[job[t].f], job[t].len) = {}
      BY <2>1, <2>2, <2>3, PatchesApart
    <2> QED BY <1>2, <2>1, <2>2, <2>4 DEF BytesOf
  <1>5. CASE job[t].next = "done" /\ w.what # "done"
    <2>1. w.at \in Nat /\ w.len \in Nat /\ InArena(w.at, w.len)
      BY <1>2, <1>5 DEF AllOwn, Own, WriteRecord
    <2>2. \A b \in Span(w.at, w.len) : Page(b) \notin Text
      BY <1>1, <2>1, ArenaOffText
    <2>3. \A b \in Span(job[t].at, job[t].len) : Page(b) \in Text
      BY <1>5, PatchInText
    <2> QED BY <1>2, <2>2, <2>3 DEF BytesOf
  <1> QED BY <1>3, <1>4, <1>5

(* A page that is mapped where nothing was holds nothing.                  *)
LEMMA MapTouchesNothing ==
  ASSUME Held, WrittenMapped, NEW p \in 0..Pages - 1, Maps(p), odd' = {},
         NEW k \in 1..Len(writes), writes[k].what # "map"
  PROVE  BytesOf(writes[k]) \cap BytesOf(MapRecord(p)) = {}
  <1>1. prot[p] = "none"
    BY DEF Maps, Noting
  <1>2. ASSUME NEW b \in BytesOf(MapRecord(p)) PROVE Page(b) = p
    <2>1. PageSize \in Nat \ {0} /\ p \in Nat
      BY Sizes
    <2>2. b \in Span(p * PageSize, PageSize)
      BY DEF BytesOf, MapRecord
    <2>3. PICK base \in Nat : base = p * PageSize
      BY <2>1
    <2>4. b \in Nat /\ base <= b /\ b < base + PageSize
      BY <2>1, <2>2, <2>3 DEF Span
    <2> QED BY <2>1, <2>3, <2>4, PageIs
  <1>3. \A b \in BytesOf(writes[k]) : prot[Page(b)] # "none"
    BY DEF WrittenMapped, OnMapped
  <1> QED BY <1>1, <1>2, <1>3

(* Code that was copied is written over by nothing.                        *)
Intact ==
  odd = {} => \A i, j \in 1..Len(writes) :
    i < j /\ writes[i].what # "map" => BytesOf(writes[i]) \cap BytesOf(writes[j]) = {}

(* No step writes over it.                                                 *)
LEMMA IntactStep ==
  ASSUME Held, Alone, AllOwn, Labelled, WrittenMapped, OneWritable, AllFresh, Distinct,
         AllPending, Intact, [Next]_vars
  PROVE  Intact'
  <1>1. odd \subseteq odd' /\ writes \in Seq(WriteRecord)
    BY OddGrows DEF Held, Typed
  <1>2. CASE odd' # {}
    BY <1>2 DEF Intact
  <1>3. CASE writes' = writes
    BY <1>1, <1>3 DEF Intact, BytesOf, Span
  <1>4. ASSUME odd' = {}, NEW w \in WriteRecord, writes' = Append(writes, w),
               \A k \in 1..Len(writes) : writes[k].what # "map" =>
                 BytesOf(writes[k]) \cap BytesOf(w) = {}
        PROVE  Intact'
    <2>1. /\ Len(writes) \in Nat /\ writes'[Len(writes) + 1] = w
          /\ \A k \in 1..Len(writes) : writes'[k] = writes[k]
          /\ \A k \in 1..Len(writes') : k \in 1..Len(writes) \/ k = Len(writes) + 1
      BY <1>1, <1>4, OneMore
    <2>2. ASSUME NEW i \in 1..Len(writes'), NEW j \in 1..Len(writes'), i < j,
                 writes'[i].what # "map"
          PROVE  BytesOf(writes'[i]) \cap BytesOf(writes'[j]) = {}
      <3>1. i \in 1..Len(writes)
        BY <2>1, <2>2
      <3>2. CASE j \in 1..Len(writes)
        BY <1>1, <1>4, <2>1, <2>2, <3>1, <3>2 DEF Intact
      <3>3. CASE j = Len(writes) + 1
        BY <1>4, <2>1, <2>2, <3>1, <3>3
      <3> QED BY <2>1, <3>2, <3>3
    <2> QED BY <2>2 DEF Intact, BytesOf, Span
  <1>5. ASSUME odd' = {}, NEW t \in Thread, Copies(t) PROVE Intact'
    <2>1. PICK w \in WriteRecord : w = CodeRecord(job[t]) /\ writes' = Append(writes, w)
      BY <1>5 DEF Copies
    <2>2. BytesOf(w) = Span(job[t].at, job[t].len)
      BY <2>1 DEF CodeRecord, BytesOf
    <2>3. \A k \in 1..Len(writes) : writes[k].what # "map" =>
            BytesOf(writes[k]) \cap BytesOf(w) = {}
      BY <1>1, <1>5, <2>2, CopyTouchesNothing
    <2> QED BY <1>4, <1>5, <2>1, <2>3
  <1>6. ASSUME odd' = {}, NEW p \in 0..Pages - 1, Maps(p) PROVE Intact'
    <2>1. PICK w \in WriteRecord : w = MapRecord(p) /\ writes' = Append(writes, w)
      BY <1>6 DEF Maps
    <2>2. \A k \in 1..Len(writes) : writes[k].what # "map" =>
            BytesOf(writes[k]) \cap BytesOf(w) = {}
      BY <1>6, <2>1, MapTouchesNothing
    <2> QED BY <1>4, <1>6, <2>1, <2>2
  <1> QED BY <1>2, <1>3, <1>5, <1>6, WritesAre

(* The inductive invariant of the last theorem.                            *)
HookInv ==
  /\ Sound /\ AllOwn /\ Labelled /\ WrittenMapped /\ OneWritable /\ AllFresh /\ Distinct
  /\ InText /\ AllPending /\ Intact

(* A hooked function keeps everything its hook consists of: the arenas     *)
(* hand out a byte once and CodePatch writes only what it was given, for   *)
(* any number of threads and hooks, unless two calls overlapped, a page    *)
(* was mapped over another or a run of zeros was taken for free memory.    *)
THEOREM HooksStayIntact == Spec => []HookIntact
  <1>1. Init => HookInv
    <2> SUFFICES ASSUME Init PROVE HookInv
      OBVIOUS
    <2>1. Sound
      BY HeldInit, ReadyInit DEF Sound
    <2>2. AllOwn /\ Labelled /\ WrittenMapped /\ InText /\ Intact
      BY DEF Init, AllOwn, Labelled, WrittenMapped, InText, Intact
    <2>3. AllFresh /\ AllPending
      BY DEF Init, AllFresh, Fresh, AllPending, Pending
    <2>4. OneWritable
      BY DEF Init, OneWritable
    <2>5. Distinct
      BY DEF Init, Distinct, Separate, Unique, Disjunct, OffText
    <2> QED BY <2>1, <2>2, <2>3, <2>4, <2>5 DEF HookInv
  <1>2. HookInv /\ [Next]_vars => HookInv'
    <2> SUFFICES ASSUME HookInv, [Next]_vars PROVE HookInv'
      OBVIOUS
    <2>1. Sound'
      BY HeldStep, ReadyStep DEF HookInv, Sound
    <2>2. AllOwn' /\ Labelled' /\ WrittenMapped'
      BY OwnStep, LabelledStep, WrittenMappedStep DEF HookInv, Sound
    <2>3. OneWritable' /\ AllFresh' /\ Distinct'
      BY OneWritableStep, FreshStep, DistinctStep DEF HookInv, Sound
    <2>4. InText' /\ AllPending' /\ Intact'
      BY InTextStep, PendingStep, IntactStep DEF HookInv, Sound
    <2> QED BY <2>1, <2>2, <2>3, <2>4 DEF HookInv
  <1>3. HookInv => HookIntact
    <2> SUFFICES ASSUME HookInv, odd = {}, NEW k \in Patched,
                        NEW i \in 1..Len(writes), NEW j \in 1..Len(writes),
                        i < j, writes[i].by = writes[k].by
                 PROVE  BytesOf(writes[i]) \cap BytesOf(writes[j]) = {}
      BY DEF HookIntact
    <2>1. k \in 1..Len(writes) /\ writes[k].what = "done"
      BY DEF Patched
    <2>2. writes[k].by # "none"
      BY <2>1 DEF HookInv, Labelled, Label
    <2>3. writes[i].what # "map"
      BY <2>2 DEF HookInv, Labelled, Label
    <2> QED BY <2>3 DEF HookInv, Intact
  <1> QED BY <1>1, <1>2, <1>3, PTL DEF Spec

=============================================================================
