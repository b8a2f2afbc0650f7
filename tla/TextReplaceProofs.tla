------------------------- MODULE TextReplaceProofs -------------------------
(***************************************************************************)
(* Proofs about TextReplace, for any strings, map files, threads, buffer   *)
(* size and number of calls.                                               *)
(***************************************************************************)
EXTENDS TextReplace, WellFoundedInduction, SequenceTheorems, TLAPS

(* The least element of a set of numbers.                                  *)
LEMMA MinIs ==
  ASSUME NEW S \in SUBSET Nat, S # {}
  PROVE  Min(S) \in S /\ \A n \in S : Min(S) <= n
  <1> DEFINE R == {ss \in Nat \X Nat : ss[1] < ss[2]}
  <1>1. OpToRel(<, Nat) = R
    BY DEF OpToRel
  <1>2. IsWellFoundedOn(R, Nat)
    BY <1>1, NatLessThanWellFounded
  <1>3. PICK n \in S : \A m \in S : ~(<<m, n>> \in R)
    <2> HIDE DEF R
    <2> QED BY <1>2, WFMin
  <1>4. ASSUME NEW m \in S PROVE n <= m
    <2>1. m \in Nat /\ n \in Nat
      OBVIOUS
    <2>2. <<m, n>> \in R <=> m < n
      BY <2>1, Zenon
    <2> QED BY <1>3, <2>1, <2>2
  <1> QED BY <1>4 DEF Min

-----------------------------------------------------------------------------
(* The helpers.                                                            *)

Byte == 0..255

(* A function on 1..n is a sequence of length n.                           *)
LEMMA FunctionIsSequence ==
  ASSUME NEW S, NEW n \in Nat, NEW f \in [1..n -> S]
  PROVE  f \in Seq(S) /\ Len(f) = n
  OBVIOUS

(* A phrase becomes bytes, two for each of its characters.                 *)
LEMMA UnicodeIs ==
  ASSUME NEW phrase \in Phrase
  PROVE  /\ UTF8_to_Unicode(phrase) \in Seq(Byte)
         /\ Len(UTF8_to_Unicode(phrase)) % 2 = 0
  <1> DEFINE s == phrase \o <<Bad>>
             Cut == {i \in 1..Len(s) : s[i] = Bad}
             v == Min(Cut) - 1
             u == [i \in 1..2 * v |-> phrase[(i + 1) \div 2][2 - (i % 2)]]
  <1>1. /\ Len(phrase) \in Nat
        /\ \A i \in 1..Len(phrase) : phrase[i] \in {Bad} \cup Byte \X Byte \X Nat
    BY DEF Phrase, Byte
  <1>2. Len(s) = Len(phrase) + 1 /\ s[Len(phrase) + 1] = Bad
        /\ \A i \in 1..Len(phrase) : s[i] = phrase[i]
    BY DEF Phrase
  <1>3. Len(s) \in Cut
    BY <1>1, <1>2
  <1>4. Cut \in SUBSET Nat /\ Cut # {}
    BY <1>3
  <1>5. UTF8_to_Unicode(phrase) = u
    BY <1>3 DEF UTF8_to_Unicode, SelectInSeq
  <1>6. Min(Cut) \in Cut /\ \A n \in Cut : Min(Cut) <= n
    <2> HIDE DEF Cut
    <2> QED BY <1>4, MinIs
  <1>m. \A i \in Cut : i \in 1..Len(s) /\ s[i] = Bad
    OBVIOUS
  <1>n. \A i \in 1..Len(s) : i \notin Cut => s[i] # Bad
    OBVIOUS
  <1> DEFINE m == Min(Cut)
  <1> HIDE DEF s, Cut, m
  <1>7. m \in 1..Len(phrase) + 1 /\ v = m - 1 /\ v \in 0..Len(phrase)
    BY <1>1, <1>2, <1>6, <1>m DEF m
  <1>8. ASSUME NEW i \in 1..v PROVE phrase[i] \in Byte \X Byte \X Nat
    <2>1. i \in 1..Len(phrase) /\ i < m /\ i \in 1..Len(s)
      BY <1>1, <1>2, <1>7
    <2>2. i \notin Cut
      BY <1>6, <2>1, <1>7 DEF m
    <2>3. phrase[i] # Bad
      BY <1>2, <1>n, <2>1, <2>2
    <2> QED BY <1>1, <2>1, <2>3
  <1> HIDE DEF v
  <1>9. ASSUME NEW i \in 1..2 * v PROVE u[i] \in Byte
    <2>1. (i + 1) \div 2 \in 1..v
      BY <1>7
    <2>2. 2 - (i % 2) \in {1, 2}
      BY <1>7
    <2>3. \A j \in {1, 2} : phrase[(i + 1) \div 2][j] \in Byte
      <3> DEFINE c == phrase[(i + 1) \div 2]
      <3>1. c \in Byte \X Byte \X Nat
        BY <1>8, <2>1
      <3> HIDE DEF c
      <3>2. c[1] \in Byte /\ c[2] \in Byte
        BY <3>1
      <3> QED BY <3>2 DEF c
    <2> QED BY <2>2, <2>3
  <1>10. u \in [1..2 * v -> Byte]
    BY <1>9
  <1>11. u \in Seq(Byte) /\ Len(u) = 2 * v
    <2>1. 2 * v \in Nat
      BY <1>7
    <2> HIDE DEF u
    <2> QED BY <1>10, <2>1, FunctionIsSequence
  <1>12. (2 * v) % 2 = 0
    BY <1>7
  <1> HIDE DEF u
  <1> QED BY <1>5, <1>11, <1>12

(* Lower case is a string of the same length.                              *)
LEMMA LowerIs ==
  ASSUME NEW c \in Seq(Byte), NEW length \in Nat
  PROVE  /\ tolower_unicode(c, length) \in Seq(Byte)
         /\ Len(tolower_unicode(c, length)) = Len(c)
  <1> DEFINE f == tolower_unicode(c, length)
  <1>1. Len(c) \in Nat /\ DOMAIN c = 1..Len(c) /\ \A i \in 1..Len(c) : c[i] \in Byte
    OBVIOUS
  <1>2. f \in [1..Len(c) -> Byte]
    <2> DEFINE g == [i \in DOMAIN c |->
                       IF /\ i % 2 = 1 /\ i - 1 <= length /\ i < Len(c)
                          /\ c[i] = Upper /\ c[i + 1] = 0
                         THEN Lower ELSE c[i]]
    <2>1. f = g
      BY DEF tolower_unicode
    <2>2. ASSUME NEW i \in 1..Len(c) PROVE g[i] \in Byte
      <3>1. g[i] \in {Lower, c[i]}
        BY <1>1, Zenon
      <3> QED BY <1>1, <3>1 DEF Lower, Byte
    <2>3. g \in [1..Len(c) -> Byte]
      BY <1>1, <2>2, Zenon
    <2> QED BY <2>1, <2>3
  <1> HIDE DEF f
  <1>3. f \in Seq(Byte) /\ Len(f) = Len(c)
    BY <1>1, <1>2, FunctionIsSequence
  <1> QED BY <1>3 DEF f

(* The copy in the static buffer has the size of the buffer.               *)
LEMMA CopyIs ==
  ASSUME NEW s \in Seq(Byte)
  PROVE  memccpy(s) \in Seq(Byte) /\ Len(memccpy(s)) = Split
  <1> DEFINE f == memccpy(s)
             cut == SelectInSeq(s, LAMBDA b : b = stop)
             g == [i \in 1..Split |-> IF i <= Len(s) /\ (cut = 0 \/ i <= cut) THEN s[i] ELSE 0]
  <1>1. Split \in Nat
    BY TextAssumption
  <1>2. Len(s) \in Nat /\ \A i \in 1..Len(s) : s[i] \in Byte
    OBVIOUS
  <1>3. f = g
    BY DEF memccpy
  <1> HIDE DEF f, cut
  <1>4. g \in [1..Split -> Byte]
    BY <1>1, <1>2 DEF Byte
  <1> HIDE DEF g
  <1>5. g \in Seq(Byte) /\ Len(g) = Split
    BY <1>1, <1>4, FunctionIsSequence
  <1> QED BY <1>3, <1>5 DEF f

-----------------------------------------------------------------------------
(* Types.                                                                  *)

Place == Thread \X (1..Len(file))
Hit == [at : Nat, left : Nat, right : Phrase]

(* The types of the variables TypeOK leaves out: a call under way has a    *)
(* string, and strtok's position is a line of the file.                    *)
Given == lib \in Lib /\ stop \in Byte /\ file \in Seq({NoBar} \cup MapLine)
Typed ==
  /\ Given
  /\ arg \in [Thread -> Text \cup {NULL, <<>>}]
  /\ \A t \in Thread : pc[t] # "idle" => arg[t] \in Text
  /\ header \in [Function -> Nat] /\ middle \in [Function -> Seq(Byte)]
  /\ p \in [Thread -> Place \cup {NULL}] /\ pos \in Place \cup {NULL}
  /\ lines \in [Thread -> Nat] /\ hit \in [Thread -> Hit]
  /\ out \in [Thread -> [len : Nat, text : Seq(Byte)]]
  /\ solo \in [Thread -> BOOLEAN]

TInv == TypeOK /\ Typed

(* A string of the game: bytes, an even number of them.                    *)
LEMMA TextIs ==
  ASSUME NEW s \in Text
  PROVE  s \in Seq(Byte) /\ Len(s) \in Nat /\ Len(s) % 2 = 0 /\ s # NULL
  BY TextAssumption DEF Byte

(* What is handed on unchanged: the length field is that of the string.    *)
LEMMA AsIsTyped ==
  ASSUME NEW s \in Seq(Byte)
  PROVE  /\ AsIs(s) \in [len : Nat, text : Seq(Byte)]
         /\ Len(s) % 2 = 0 => 2 * AsIs(s).len = Len(AsIs(s).text)
  <1>1. Len(s) \in Nat /\ Len(s) \div 2 \in Nat
    OBVIOUS
  <1>2. Len(s) % 2 = 0 => 2 * (Len(s) \div 2) = Len(s)
    BY <1>1
  <1> QED BY <1>1, <1>2 DEF AsIs

(* A line under strtok's position and the phrases in it.                   *)
LEMMA LineIs ==
  ASSUME TInv, NEW q \in Place, file[q[2]] # NoBar
  PROVE  /\ q[2] \in 1..Len(file)
         /\ file[q[2]].left \in Phrase /\ file[q[2]].right \in Phrase
  <1>1. q[2] \in 1..Len(file)
    BY DEF Place
  <1>2. file[q[2]] \in {NoBar} \cup MapLine
    BY <1>1 DEF TInv, Typed, Given
  <1> QED BY <1>1, <1>2 DEF MapLine

(* The length of a phrase in lower case is even.                           *)
LEMMA LowerPhrase ==
  ASSUME NEW phrase \in Phrase
  PROVE  LET u == UTF8_to_Unicode(phrase)
             l == tolower_unicode(u, Len(u))
         IN  u \in Seq(Byte) /\ Len(u) \in Nat /\ l \in Seq(Byte) /\ Len(l) = Len(u) /\ Len(l) % 2 = 0
  <1> DEFINE u == UTF8_to_Unicode(phrase)
  <1>1. u \in Seq(Byte) /\ Len(u) % 2 = 0
    BY UnicodeIs
  <1> HIDE DEF u
  <1>2. Len(u) \in Nat
    BY <1>1
  <1>3. tolower_unicode(u, Len(u)) \in Seq(Byte) /\ Len(tolower_unicode(u, Len(u))) = Len(u)
    BY <1>1, <1>2, LowerIs
  <1> QED BY <1>1, <1>2, <1>3 DEF u

(* The offsets found are positions, and in the dobby build the phrase      *)
(* found ends within the string.                                           *)
LEMMA OffsetsAre ==
  ASSUME TInv, NEW t \in Thread, arg[t] \in Text, NEW mid, NEW left \in Seq(Byte)
  PROVE  /\ Offsets(t, mid, left) \in SUBSET Nat
         /\ lib = "dobby" => \A o \in Offsets(t, mid, left) :
                               o + Len(left) <= Len(arg[t]) /\ Len(arg[t]) < Split
  <1>1. Len(left) \in Nat /\ Len(arg[t]) \in Nat
    BY TextIs
  <1>2. CASE lib = "dobby"
    <2> DEFINE S == memcmp_plus(mid, left, Len(arg[t]))
    <2>1. S \in SUBSET (0..Len(arg[t]) - Len(left))
      BY DEF memcmp_plus
    <2>2. \A o \in S : o \in Nat /\ o + Len(left) <= Len(arg[t])
      BY <1>1, <2>1
    <2>3. Offsets(t, mid, left) = IF Len(arg[t]) < Split /\ Len(left) < Split THEN S ELSE {}
      BY <1>2 DEF Offsets, OffsetsDobby
    <2> HIDE DEF S
    <2> QED BY <2>2, <2>3
  <1>3. CASE lib # "dobby"
    <2>1. Offsets(t, mid, left) \in SUBSET {0}
      BY <1>3 DEF Offsets, OffsetsInline
    <2> QED BY <1>3, <2>1
  <1> QED BY <1>2, <1>3

(* The first offset.                                                       *)
LEMMA FirstOffset ==
  ASSUME TInv, NEW t \in Thread, arg[t] \in Text, NEW mid, NEW left \in Seq(Byte),
         Offsets(t, mid, left) # {}
  PROVE  /\ Min(Offsets(t, mid, left)) \in Nat
         /\ lib = "dobby" => /\ Min(Offsets(t, mid, left)) + Len(left) <= Len(arg[t])
                             /\ Len(arg[t]) < Split
  <1> DEFINE S == Offsets(t, mid, left)
  <1>1. S \in SUBSET Nat
    BY OffsetsAre
  <1>2. Min(S) \in S
    <2> HIDE DEF S
    <2> QED BY <1>1, MinIs DEF S
  <1>3. lib = "dobby" => \A o \in S : o + Len(left) <= Len(arg[t]) /\ Len(arg[t]) < Split
    BY OffsetsAre
  <1> HIDE DEF S
  <1> QED BY <1>1, <1>2, <1>3 DEF S

(* The hooks before the first call.                                        *)
LEMMA TypesInit == Init => TInv
  <1> SUFFICES ASSUME Init PROVE TInv
    OBVIOUS
  <1> USE TextAssumption
  <1>1. Given
    BY DEF Init, Given, Byte
  <1>2. [i \in 1..Split |-> 0] \in Seq(Byte) /\ Len([i \in 1..Split |-> 0]) = Split
    BY DEF Byte
  <1>3. <<>> \in Phrase /\ NoHit \in Hit
    BY DEF Phrase, NoHit, Hit
  <1>4. NoOut \in [len : Nat, text : Seq(Byte)]
    BY DEF NoOut
  <1>5. TypeOK
    <2>1. \A f \in Function : header[f] = 0 /\ middle[f] = [i \in 1..Split |-> 0]
      BY DEF Init
    <2>2. \A f \in Function : header[f] \in Nat /\ middle[f] \in Seq(0..255) /\ Len(middle[f]) = Split
      BY <1>2, <2>1 DEF Byte
    <2>3. fn \in [Thread -> Function] /\ index \in [Function -> 0..MaxCalls]
      BY DEF Init, Function
    <2>4. /\ pc \in [Thread -> {"idle", "header", "middle", "first", "line", "next", "length", "build"}]
          /\ alive \in BOOLEAN /\ dlopenHooked \in BOOLEAN
          /\ why \in {"none", "null", "nobar", "freed"} /\ alive = (why = "none")
      BY DEF Init
    <2> QED BY <2>2, <2>3, <2>4 DEF TypeOK
  <1>6. header \in [Function -> Nat] /\ middle \in [Function -> Seq(Byte)]
    BY <1>2 DEF Init
  <1>7. Typed
    <2>1. pos \in Place \cup {NULL} /\ p \in [Thread -> Place \cup {NULL}]
      BY DEF Init
    <2>2. hit \in [Thread -> Hit] /\ out \in [Thread -> [len : Nat, text : Seq(Byte)]]
      BY <1>3, <1>4, Zenon DEF Init
    <2>3. arg \in [Thread -> Text \cup {NULL, <<>>}]
      BY Zenon DEF Init
    <2>4. /\ \A t \in Thread : pc[t] # "idle" => arg[t] \in Text
          /\ lines \in [Thread -> Nat] /\ solo \in [Thread -> BOOLEAN]
      BY DEF Init
    <2> QED BY <1>1, <1>6, <2>1, <2>2, <2>3, <2>4, Zenon DEF Typed
  <1> QED BY <1>5, <1>7 DEF TInv

Control == {"idle", "header", "middle", "first", "line", "next", "length", "build"}

(* Every action but Enter leaves the inputs of the calls alone.            *)
LEMMA TypesKept ==
  ASSUME TInv, UNCHANGED <<given, local, solo>>,
         pc' \in [Thread -> Control],
         \A t \in Thread : pc'[t] # "idle" => pc[t] # "idle",
         header' \in [Function -> Nat], middle' \in [Function -> Seq(Byte)],
         \A f \in Function : Len(middle'[f]) = Split,
         p' \in [Thread -> Place \cup {NULL}], pos' \in Place \cup {NULL},
         lines' \in [Thread -> Nat], hit' \in [Thread -> Hit],
         out' \in [Thread -> [len : Nat, text : Seq(Byte)]],
         \/ UNCHANGED <<alive, why>>
         \/ alive' = FALSE /\ why' \in {"nobar", "freed"}
  PROVE  TInv'
  <1>1. Given' /\ Place' = Place
    BY DEF TInv, Typed, Given, given, Place
  <1>2. /\ alive' \in BOOLEAN
        /\ why' \in {"none", "null", "nobar", "freed"} /\ alive' = (why' = "none")
    BY DEF TInv, TypeOK
  <1>3. \A f \in Function : header'[f] \in Nat /\ middle'[f] \in Seq(0..255) /\ Len(middle'[f]) = Split
    BY DEF Byte
  <1>4. TypeOK'
    BY <1>2, <1>3 DEF TInv, TypeOK, local, Control
  <1>5. \A t \in Thread : pc'[t] # "idle" => arg'[t] \in Text
    BY DEF TInv, Typed, local
  <1>6. Typed'
    BY <1>1, <1>5 DEF TInv, Typed, local
  <1> QED BY <1>4, <1>6 DEF TInv

(* memcpy of the header.                                                   *)
LEMMA CopyHeaderTypes ==
  ASSUME TInv, NEW t \in Thread, CopyHeader(t)
  PROVE  TInv'
  <1> USE DEF TInv, TypeOK, Typed, CopyHeader, Goto, Control
  <1>1. Len(arg[t]) \div 2 \in Nat
    BY TextIs
  <1>2. header' \in [Function -> Nat]
    BY <1>1
  <1>3. pc' \in [Thread -> Control] /\ \A u \in Thread : pc'[u] # "idle" => pc[u] # "idle"
    OBVIOUS
  <1>4. UNCHANGED <<given, local, solo>> /\ UNCHANGED <<alive, why>>
        /\ UNCHANGED <<middle, p, pos, lines, hit, out>>
    OBVIOUS
  <1>5. \A f \in Function : Len(middle'[f]) = Split
    BY <1>4
  <1> QED BY <1>2, <1>3, <1>4, <1>5, TypesKept

(* memset and memccpy of the middle.                                       *)
LEMMA CopyMiddleTypes ==
  ASSUME TInv, NEW t \in Thread, CopyMiddle(t)
  PROVE  TInv'
  <1> USE DEF TInv, TypeOK, Typed, CopyMiddle, Goto, Control
  <1>1. memccpy(arg[t]) \in Seq(Byte) /\ Len(memccpy(arg[t])) = Split
    BY TextIs, CopyIs
  <1>2. middle' \in [Function -> Seq(Byte)] /\ \A f \in Function : Len(middle'[f]) = Split
    BY <1>1
  <1>3. pc' \in [Thread -> Control] /\ \A u \in Thread : pc'[u] # "idle" => pc[u] # "idle"
    OBVIOUS
  <1>4. UNCHANGED <<given, local, solo>> /\ UNCHANGED <<alive, why>>
        /\ UNCHANGED <<header, p, pos, lines, hit, out>>
    OBVIOUS
  <1> QED BY <1>2, <1>3, <1>4, TypesKept

(* strtok moves along the lines of one copy of the file.                   *)
LEMMA TokenPlace ==
  ASSUME TInv, NEW t \in Thread, NEW q \in Place \cup {NULL}, Token(t, q)
  PROVE  p' \in [Thread -> Place \cup {NULL}] /\ pos' \in Place \cup {NULL}
  <1>1. p' \in [Thread -> Place \cup {NULL}]
    BY DEF TInv, Typed, Token
  <1>2. ASSUME q \in Place, q[2] # Len(file) PROVE <<q[1], q[2] + 1>> \in Place
    <2>1. q[1] \in Thread /\ q[2] \in 1..Len(file) /\ Len(file) \in Nat
      BY <1>2 DEF Place, TInv, Typed, Given
    <2>2. q[2] + 1 \in 1..Len(file)
      BY <1>2, <2>1
    <2> QED BY <2>1, <2>2 DEF Place
  <1> QED BY <1>1, <1>2 DEF Token

(* The first and the following calls of strtok.                            *)
LEMMA StrtokTypes ==
  ASSUME TInv, NEW t \in Thread, strtok_first(t) \/ strtok_next(t)
  PROVE  TInv'
  <1>1. PICK q \in Place \cup {NULL} : Token(t, q)
    <2>1. CASE strtok_first(t)
      <3>1. file # <<>> => <<t, 1>> \in Place
        <4>1. file # <<>> => 1 \in 1..Len(file)
          BY DEF TInv, Typed, Given
        <4> QED BY <4>1 DEF Place
      <3> QED BY <2>1, <3>1 DEF strtok_first
    <2>2. CASE strtok_next(t)
      BY <2>2 DEF strtok_next, TInv, Typed
    <2> QED BY <2>1, <2>2
  <1>2. p' \in [Thread -> Place \cup {NULL}] /\ pos' \in Place \cup {NULL}
    BY <1>1, TokenPlace
  <1>3. lines' \in [Thread -> Nat]
    <2>1. lines \in [Thread -> Nat] /\ lines[t] + 1 \in Nat
      BY DEF TInv, Typed
    <2>2. \/ lines' = [lines EXCEPT ![t] = 0]
          \/ lines' = [lines EXCEPT ![t] = lines[t] + 1]
      BY DEF strtok_first, strtok_next
    <2> QED BY <2>1, <2>2
  <1> USE DEF TInv, TypeOK, Typed, strtok_first, strtok_next, Goto, Control
  <1>4. pc' \in [Thread -> Control] /\ \A u \in Thread : pc'[u] # "idle" => pc[u] # "idle"
    OBVIOUS
  <1>5. UNCHANGED <<given, local, solo>> /\ UNCHANGED <<alive, why>>
        /\ UNCHANGED <<header, middle, hit, out>>
    BY DEF static
  <1>6. \A f \in Function : Len(middle'[f]) = Split
    BY <1>5
  <1> QED BY <1>2, <1>3, <1>4, <1>5, <1>6, TypesKept

(* A freed buffer or a line without a bar ends the process.                *)
LEMMA DyingTypes ==
  ASSUME TInv, NEW t \in Thread, UseAfterFree(t) \/ NoBarLine(t)
  PROVE  TInv'
  <1>1. UNCHANGED <<given, local, solo, pc, header, middle, p, pos, lines, hit, out>>
    BY DEF UseAfterFree, NoBarLine, static
  <1>2. alive' = FALSE /\ why' \in {"nobar", "freed"}
    BY DEF UseAfterFree, NoBarLine, Die
  <1>3. pc' \in [Thread -> Control] /\ \A f \in Function : Len(middle'[f]) = Split
    BY <1>1 DEF TInv, TypeOK, Control
  <1>4. /\ header' \in [Function -> Nat] /\ middle' \in [Function -> Seq(Byte)]
        /\ p' \in [Thread -> Place \cup {NULL}] /\ pos' \in Place \cup {NULL}
        /\ lines' \in [Thread -> Nat] /\ hit' \in [Thread -> Hit]
        /\ out' \in [Thread -> [len : Nat, text : Seq(Byte)]]
    BY <1>1 DEF TInv, Typed
  <1> QED BY <1>1, <1>2, <1>3, <1>4, TypesKept

(* A return: the thread is idle again.                                     *)
LEMMA ReturnTypes ==
  ASSUME TInv, NEW t \in Thread, NEW s \in [len : Nat, text : Seq(Byte)], Return(t, s)
  PROVE  /\ pc' \in [Thread -> Control] /\ \A u \in Thread : pc'[u] # "idle" => pc[u] # "idle"
         /\ out' \in [Thread -> [len : Nat, text : Seq(Byte)]]
         /\ p' \in [Thread -> Place \cup {NULL}]
         /\ lines' \in [Thread -> Nat] /\ hit' \in [Thread -> Hit]
  <1>1. NoHit \in Hit
    <2>1. <<>> \in Phrase
      BY DEF Phrase
    <2> QED BY <2>1 DEF NoHit, Hit
  <1>2. pc' \in [Thread -> Control] /\ \A u \in Thread : pc'[u] # "idle" => pc[u] # "idle"
    BY DEF TInv, TypeOK, Return, Goto, Control
  <1>3. out' \in [Thread -> [len : Nat, text : Seq(Byte)]]
    BY DEF TInv, Typed, Return
  <1>4. p' \in [Thread -> Place \cup {NULL}]
    BY DEF TInv, Typed, Return
  <1>5. lines' \in [Thread -> Nat] /\ hit' \in [Thread -> Hit]
    BY <1>1 DEF TInv, Typed, Return
  <1> QED BY <1>2, <1>3, <1>4, <1>5

(* After the last line the string is handed on.                            *)
LEMMA NoLineTypes ==
  ASSUME TInv, NEW t \in Thread, NoLine(t)
  PROVE  TInv'
  <1>1. arg[t] \in Text
    BY DEF NoLine, TInv, Typed
  <1>2. AsIs(arg[t]) \in [len : Nat, text : Seq(Byte)]
    BY <1>1, TextIs, AsIsTyped
  <1>3. Return(t, AsIs(arg[t])) /\ UNCHANGED <<given, local, solo, alive, why, header, middle, pos>>
    BY DEF NoLine, static
  <1>4. /\ header' \in [Function -> Nat] /\ middle' \in [Function -> Seq(Byte)]
        /\ pos' \in Place \cup {NULL} /\ \A f \in Function : Len(middle'[f]) = Split
    BY <1>3 DEF TInv, Typed, TypeOK
  <1>5. UNCHANGED <<given, local, solo>> /\ UNCHANGED <<alive, why>>
    BY <1>3
  <1> QED BY <1>2, <1>3, <1>4, <1>5, ReturnTypes, TypesKept

(* The parts of the line a thread examines.                                *)
Unit(t) == UTF8_to_Unicode(file[p[t][2]].left)
Left(t) == tolower_unicode(Unit(t), Len(Unit(t)))
Mid(t) == tolower_unicode(middle[fn[t]], Len(Unit(t)))

(* Where a line whose phrase was found leads.                              *)
WhereBuilt == IF lib = "dobby" THEN "length" ELSE "build"

(* What a line does: the first is skipped, another one is searched for in  *)
(* the lower-case middle buffer.                                           *)
LEMMA LineParts ==
  ASSUME TInv, NEW t \in Thread, Line(t)
  PROVE  /\ p[t] \in Place /\ file[p[t][2]] # NoBar /\ arg[t] \in Text /\ pc[t] = "line"
         /\ Left(t) \in Seq(Byte) /\ Len(Left(t)) \in Nat /\ Len(Left(t)) % 2 = 0
         /\ Mid(t) \in Seq(Byte) /\ Len(Mid(t)) = Split
         /\ file[p[t][2]].right \in Phrase
         /\ UNCHANGED <<given, alive, local, header, pos, p, lines, out, solo, why>>
         /\ \/ lines[t] = 0 /\ Goto(t, "next") /\ UNCHANGED <<middle, hit>>
            \/ /\ lines[t] # 0 /\ middle' = [middle EXCEPT ![fn[t]] = Mid(t)]
               /\ Offsets(t, Mid(t), Left(t)) = {}
               /\ Goto(t, "next") /\ UNCHANGED hit
            \/ /\ lines[t] # 0 /\ middle' = [middle EXCEPT ![fn[t]] = Mid(t)]
               /\ Offsets(t, Mid(t), Left(t)) # {}
               /\ hit' = [hit EXCEPT ![t] = [at |-> Min(Offsets(t, Mid(t), Left(t))),
                                             left |-> Len(Left(t)), right |-> file[p[t][2]].right]]
               /\ Goto(t, WhereBuilt)
  <1>1. p[t] \in Place /\ file[p[t][2]] # NoBar /\ arg[t] \in Text /\ pc[t] = "line"
    BY DEF Line, TInv, Typed
  <1>2. file[p[t][2]].left \in Phrase /\ file[p[t][2]].right \in Phrase
    BY <1>1, LineIs
  <1>3. /\ Unit(t) \in Seq(Byte) /\ Len(Unit(t)) \in Nat
        /\ Left(t) \in Seq(Byte) /\ Len(Left(t)) = Len(Unit(t)) /\ Len(Left(t)) % 2 = 0
    BY <1>2, LowerPhrase DEF Unit, Left
  <1>4. middle[fn[t]] \in Seq(Byte) /\ Len(middle[fn[t]]) = Split
    BY DEF TInv, TypeOK, Typed
  <1>5. Mid(t) \in Seq(Byte) /\ Len(Mid(t)) = Split
    BY <1>3, <1>4, LowerIs DEF Mid
  <1>6. UNCHANGED <<given, alive, local, header, pos, p, lines, out, solo, why>>
    BY DEF Line
  <1>7. IF lines[t] = 0
          THEN Goto(t, "next") /\ UNCHANGED <<middle, hit>>
          ELSE /\ middle' = [middle EXCEPT ![fn[t]] = Mid(t)]
               /\ IF Offsets(t, Mid(t), Left(t)) = {}
                    THEN Goto(t, "next") /\ UNCHANGED hit
                    ELSE /\ hit' = [hit EXCEPT ![t] =
                               [at |-> Min(Offsets(t, Mid(t), Left(t))),
                                left |-> Len(Left(t)), right |-> file[p[t][2]].right]]
                         /\ Goto(t, WhereBuilt)
    BY Zenon DEF Line, Unit, WhereBuilt, Left, Mid
  <1> QED BY <1>1, <1>2, <1>3, <1>5, <1>6, <1>7, Zenon

(* A line leaves the middle buffer as long as it was.                      *)
LEMMA LineTypes ==
  ASSUME TInv, NEW t \in Thread, Line(t)
  PROVE  TInv'
  <1>1. UNCHANGED <<given, local, solo>> /\ UNCHANGED <<alive, why>>
        /\ UNCHANGED <<header, pos, p, lines, out>>
    BY LineParts
  <1>2. middle' \in [Function -> Seq(Byte)] /\ \A f \in Function : Len(middle'[f]) = Split
    <2>1. \/ UNCHANGED middle
          \/ middle' = [middle EXCEPT ![fn[t]] = Mid(t)] /\ Mid(t) \in Seq(Byte) /\ Len(Mid(t)) = Split
      BY LineParts
    <2>2. middle \in [Function -> Seq(Byte)] /\ \A f \in Function : Len(middle[f]) = Split
      BY DEF TInv, Typed, TypeOK
    <2> DEFINE m == Mid(t)
    <2> HIDE DEF m
    <2> QED BY <2>1, <2>2 DEF m
  <1>3. hit' \in [Thread -> Hit]
    <2> DEFINE S == Offsets(t, Mid(t), Left(t))
               h == [at |-> Min(S), left |-> Len(Left(t)), right |-> file[p[t][2]].right]
    <2>1. UNCHANGED hit \/ (S # {} /\ hit' = [hit EXCEPT ![t] = h])
      BY LineParts
    <2>2. S # {} => Min(S) \in Nat
      BY LineParts, FirstOffset
    <2>3. Len(Left(t)) \in Nat /\ file[p[t][2]].right \in Phrase
      BY LineParts
    <2> HIDE DEF S
    <2>4. S # {} => h \in Hit
      BY <2>2, <2>3 DEF Hit
    <2> HIDE DEF h
    <2> QED BY <2>1, <2>4 DEF TInv, Typed
  <1>4. pc' \in [Thread -> Control] /\ \A u \in Thread : pc'[u] # "idle" => pc[u] # "idle"
    <2>1. pc[t] = "line" /\ (Goto(t, "next") \/ Goto(t, "length") \/ Goto(t, "build"))
      BY LineParts DEF WhereBuilt
    <2> QED BY <2>1 DEF Goto, TInv, TypeOK, Control
  <1>5. /\ header' \in [Function -> Nat] /\ out' \in [Thread -> [len : Nat, text : Seq(Byte)]]
        /\ p' \in [Thread -> Place \cup {NULL}] /\ pos' \in Place \cup {NULL}
        /\ lines' \in [Thread -> Nat]
    BY <1>1 DEF TInv, Typed
  <1> QED BY <1>1, <1>2, <1>3, <1>4, <1>5, TypesKept

(* The phrase found lies within the string, which is short enough for the  *)
(* buffer to hold.                                                         *)
Building == {"length", "build"}
HitFits ==
  \A t \in Thread :
    pc[t] \in Building /\ lib = "dobby" =>
      /\ hit[t].at + hit[t].left <= Len(arg[t]) /\ hit[t].left % 2 = 0
      /\ Len(arg[t]) < Split

(* Three strings put together.                                             *)
LEMMA ThreeParts ==
  ASSUME NEW S, NEW s1 \in Seq(S), NEW s2 \in Seq(S), NEW s3 \in Seq(S)
  PROVE  s1 \o s2 \o s3 \in Seq(S) /\ Len(s1 \o s2 \o s3) = Len(s1) + Len(s2) + Len(s3)
  <1>1. s1 \o s2 \in Seq(S) /\ Len(s1 \o s2) = Len(s1) + Len(s2)
    BY ConcatProperties
  <1>2. /\ (s1 \o s2) \o s3 \in Seq(S)
        /\ Len((s1 \o s2) \o s3) = Len(s1 \o s2) + Len(s3)
    BY <1>1, ConcatProperties, Zenon
  <1> QED BY <1>1, <1>2

(* The new string is as long as the parts counted, in whole units.         *)
LEMMA BuiltIs ==
  ASSUME TInv, HitFits, NEW t \in Thread, pc[t] \in Building, lib = "dobby"
  PROVE  /\ BuiltDobby(t) \in Seq(Byte) /\ Len(BuiltDobby(t)) = LengthMiddle(t)
         /\ LengthMiddle(t) \in Nat /\ LengthMiddle(t) % 2 = 0
  <1> DEFINE m == middle[fn[t]]
             a == hit[t].at
             l == hit[t].left
             n == Len(arg[t])
             u == UTF8_to_Unicode(hit[t].right)
             s1 == SubSeq(m, 1, a)
             e == n - a - l
             s2 == SubSeq(m, a + l + 1, a + l + e)
  <1>1. m \in Seq(Byte) /\ Len(m) = Split
    BY DEF TInv, TypeOK, Typed
  <1>2. hit[t] \in Hit
    BY DEF TInv, Typed
  <1>3. a \in Nat /\ l \in Nat /\ hit[t].right \in Phrase
    BY <1>2 DEF Hit
  <1>4. u \in Seq(Byte) /\ Len(u) % 2 = 0
    BY <1>3, UnicodeIs
  <1>5. n \in Nat /\ n % 2 = 0
    BY TextIs DEF Building, TInv, Typed
  <1>6. a + l <= n /\ l % 2 = 0 /\ n < Split
    BY DEF HitFits
  <1>7. /\ BuiltDobby(t) = SubSeq(m, 0 + 1, 0 + a) \o u \o s2
        /\ LengthMiddle(t) = a + Len(u) + e
    BY DEF BuiltDobby, CopiedFrom, LengthStart, LengthEnd, LengthMiddle, LengthRight
  <1> HIDE DEF m, a, l, n, u
  <1>s. SubSeq(m, 0 + 1, 0 + a) = s1
    BY <1>3
  <1>8. s1 \in Seq(Byte) /\ Len(s1) = a
    BY <1>1, <1>3, <1>5, <1>6
  <1>9. s2 \in Seq(Byte) /\ Len(s2) = e
    <2>e. a + l + e = n
      BY <1>3, <1>5
    <2>1. a + l + 1 \in 1..Split + 1 /\ n \in a + l .. Split /\ Split \in Nat
      BY <1>3, <1>5, <1>6, TextAssumption
    <2> QED BY <1>1, <1>3, <1>5, <1>6, <2>e, <2>1
  <1> HIDE DEF s1, s2
  <1>10. s1 \o u \o s2 \in Seq(Byte) /\ Len(s1 \o u \o s2) = Len(s1) + Len(u) + Len(s2)
    BY <1>4, <1>8, <1>9, ThreeParts
  <1>11. Len(u) \in Nat
    BY <1>4
  <1>12. a + Len(u) + e \in Nat /\ (a + Len(u) + e) % 2 = 0
    <2> DEFINE w == Len(u)
    <2> HIDE DEF w
    <2>1. w \in Nat /\ w % 2 = 0
      BY <1>4, <1>11 DEF w
    <2>2. a + w + e = w + n - l
      BY <1>3, <1>5, <2>1
    <2>3. w + n - l \in Nat /\ (w + n - l) % 2 = 0
      BY <1>3, <1>5, <1>6, <2>1
    <2> QED BY <2>2, <2>3 DEF w
  <1> QED BY <1>7, <1>s, <1>8, <1>9, <1>10, <1>12

(* What Build hands on.                                                    *)
Built(t) == IF lib = "dobby" THEN [len |-> header[fn[t]], text |-> BuiltDobby(t)]
            ELSE IF fn[t] = "set" THEN BuiltSetInline(t) ELSE BuiltGetInline(t)

(* What Build hands on is bytes with a length.                             *)
LEMMA BuiltTyped ==
  ASSUME TInv, HitFits, NEW t \in Thread, pc[t] = "build"
  PROVE  Built(t) \in [len : Nat, text : Seq(Byte)]
  <1>1. CASE lib = "dobby"
    <2>1. BuiltDobby(t) \in Seq(Byte)
      BY <1>1, BuiltIs DEF Building
    <2>2. header[fn[t]] \in Nat
      BY DEF TInv, Typed, TypeOK
    <2> QED BY <1>1, <2>1, <2>2 DEF Built
  <1>2. CASE lib # "dobby" /\ fn[t] = "set"
    <2>1. UTF8_to_Unicode(hit[t].right) \in Seq(Byte)
      BY UnicodeIs DEF TInv, Typed, Hit
    <2>2. header["set"] \in Nat
      BY DEF TInv, Typed, Function
    <2> QED BY <1>2, <2>1, <2>2 DEF Built, BuiltSetInline
  <1>3. CASE lib # "dobby" /\ fn[t] # "set"
    <2>1. arg[t] \in Text
      BY DEF TInv, Typed
    <2> QED BY <1>3, <2>1, TextIs, AsIsTyped DEF Built, BuiltGetInline
  <1> QED BY <1>1, <1>2, <1>3

(* The length of the new string is written into the header.                *)
LEMMA SetLengthTypes ==
  ASSUME TInv, HitFits, NEW t \in Thread, SetLength(t)
  PROVE  TInv'
  <1>1. lib = "dobby" /\ pc[t] = "length" /\ Goto(t, "build")
        /\ UNCHANGED <<given, alive, local, middle, pos, p, lines, hit, out, solo, why>>
    BY DEF SetLength
  <1>2. header' \in [Function -> Nat]
    <2> DEFINE w == LengthMiddle(t)
    <2>1. w \in Nat
      BY <1>1, BuiltIs DEF Building
    <2>2. header' = [header EXCEPT ![fn[t]] = w \div 2]
      BY DEF SetLength
    <2> HIDE DEF w
    <2>3. w \div 2 \in Nat
      BY <2>1
    <2> QED BY <2>2, <2>3 DEF TInv, Typed
  <1>3. pc' \in [Thread -> Control] /\ \A u \in Thread : pc'[u] # "idle" => pc[u] # "idle"
    BY <1>1 DEF Goto, TInv, TypeOK, Control
  <1>4. /\ middle' \in [Function -> Seq(Byte)] /\ \A f \in Function : Len(middle'[f]) = Split
        /\ p' \in [Thread -> Place \cup {NULL}] /\ pos' \in Place \cup {NULL}
        /\ lines' \in [Thread -> Nat] /\ hit' \in [Thread -> Hit]
        /\ out' \in [Thread -> [len : Nat, text : Seq(Byte)]]
    BY <1>1 DEF TInv, Typed, TypeOK
  <1> QED BY <1>1, <1>2, <1>3, <1>4, TypesKept

(* Build returns the new string.                                           *)
LEMMA BuildTypes ==
  ASSUME TInv, HitFits, NEW t \in Thread, Build(t)
  PROVE  TInv' /\ Return(t, Built(t))
  <1>1. pc[t] = "build" /\ UNCHANGED <<given, alive, local, static, pos, solo, why>>
    BY DEF Build
  <1>2. Return(t, Built(t))
    BY DEF Build, Built
  <1>3. header' \in [Function -> Nat]
    BY <1>1 DEF static, TInv, Typed
  <1>4. /\ middle' \in [Function -> Seq(Byte)]
        /\ pos' \in Place \cup {NULL} /\ \A f \in Function : Len(middle'[f]) = Split
    BY <1>1 DEF static, TInv, Typed, TypeOK
  <1>5. UNCHANGED <<given, local, solo>> /\ UNCHANGED <<alive, why>>
    BY <1>1
  <1> QED BY <1>1, <1>2, <1>3, <1>4, <1>5, BuiltTyped, ReturnTypes, TypesKept

(* A call: the string is kept, and the call ends at once, kills the        *)
(* process or goes on to copy the header.                                  *)
EnterWith(t, f, s) ==
  /\ alive /\ pc[t] = "idle" /\ index["set"] + index["get"] < MaxCalls
  /\ fn' = [fn EXCEPT ![t] = f]
  /\ arg' = [arg EXCEPT ![t] = s]
  /\ index' = [index EXCEPT ![f] = @ + 1]
  /\ dlopenHooked' = (dlopenHooked /\ ~(lib = "inline" /\ index'["set"] = UnhookAt))
  /\ solo' = [u \in Thread |-> IF u = t THEN Busy = {} ELSE solo[u] /\ u \notin Busy]
  /\ UNCHANGED <<given, static, pos>>
  /\ \/ s = NULL /\ Die("null") /\ UNCHANGED <<pc, out, p, lines, hit>>
     \/ s = NULL /\ Return(t, NoOut) /\ UNCHANGED <<alive, why>>
     \/ s # NULL /\ Early(f, s) /\ Return(t, AsIs(s)) /\ UNCHANGED <<alive, why>>
     \/ s # NULL /\ ~Early(f, s) /\ Goto(t, "header") /\ UNCHANGED <<out, p, lines, hit, alive, why>>

(* Every call is one of EnterWith.                                         *)
LEMMA EnterIs ==
  ASSUME NEW t \in Thread, Enter(t)
  PROVE  \E f \in Function, s \in Text \cup {NULL} : EnterWith(t, f, s)
  BY Zenon DEF Enter, EnterWith

(* A call keeps the types.                                                 *)
LEMMA EnterTypes ==
  ASSUME TInv, NEW t \in Thread, NEW f \in Function, NEW s \in Text \cup {NULL}, EnterWith(t, f, s)
  PROVE  TInv'
  <1>1. Given' /\ Place' = Place /\ UNCHANGED <<header, middle, pos>>
    BY DEF EnterWith, TInv, Typed, Given, given, static, Place
  <1>2. NoOut \in [len : Nat, text : Seq(Byte)] /\ (s # NULL => AsIs(s) \in [len : Nat, text : Seq(Byte)])
    <2>1. NoOut \in [len : Nat, text : Seq(Byte)]
      BY DEF NoOut
    <2>2. s # NULL => s \in Seq(Byte)
      BY TextIs
    <2> QED BY <2>1, <2>2, AsIsTyped
  <1>3. /\ pc' \in [Thread -> Control] /\ out' \in [Thread -> [len : Nat, text : Seq(Byte)]]
        /\ p' \in [Thread -> Place \cup {NULL}]
        /\ lines' \in [Thread -> Nat] /\ hit' \in [Thread -> Hit]
    <2>1. CASE UNCHANGED <<pc, out, p, lines, hit>>
      BY <2>1 DEF TInv, TypeOK, Typed, Control
    <2>2. CASE \E o \in {NoOut, AsIs(s)} : Return(t, o) /\ (o = NoOut \/ s # NULL)
      BY <1>2, <2>2, ReturnTypes
    <2>3. CASE Goto(t, "header") /\ UNCHANGED <<out, p, lines, hit>>
      BY <2>3 DEF TInv, TypeOK, Typed, Control, Goto
    <2> QED BY <2>1, <2>2, <2>3 DEF EnterWith
  <1>4. \A u \in Thread : pc'[u] # "idle" => (u # t /\ pc[u] # "idle") \/ (u = t /\ s # NULL)
    BY DEF EnterWith, Return, Goto, TInv, TypeOK
  <1>5. arg' \in [Thread -> Text \cup {NULL, <<>>}] /\ \A u \in Thread : pc'[u] # "idle" => arg'[u] \in Text
    BY <1>4 DEF EnterWith, TInv, Typed
  <1>6. solo' \in [Thread -> BOOLEAN]
    <2>1. \A u \in Thread : (IF u = t THEN Busy = {} ELSE solo[u] /\ u \notin Busy) \in BOOLEAN
      OBVIOUS
    <2> QED BY <2>1, Zenon DEF EnterWith
  <1>7. Typed'
    BY <1>1, <1>3, <1>5, <1>6 DEF TInv, Typed
  <1>8. index' \in [Function -> 0..MaxCalls]
    <2>1. /\ index \in [Function -> 0..MaxCalls] /\ MaxCalls \in Nat
          /\ index["set"] + index["get"] < MaxCalls /\ f \in {"set", "get"}
      BY TextAssumption DEF TInv, TypeOK, EnterWith, Function
    <2>2. index[f] + 1 \in 0..MaxCalls
      BY <2>1 DEF Function
    <2> QED BY <2>1, <2>2 DEF EnterWith
  <1>9. fn' \in [Thread -> Function] /\ dlopenHooked' \in BOOLEAN
    BY DEF EnterWith, TInv, TypeOK
  <1>10. /\ alive' \in BOOLEAN
         /\ why' \in {"none", "null", "nobar", "freed"} /\ alive' = (why' = "none")
    BY DEF EnterWith, TInv, TypeOK, Die
  <1>11. TypeOK'
    BY <1>1, <1>3, <1>8, <1>9, <1>10 DEF TInv, TypeOK, Control
  <1> QED BY <1>7, <1>11 DEF TInv

(* Every step keeps the types.                                             *)
LEMMA TypesStep ==
  ASSUME TInv, HitFits, [Next]_vars
  PROVE  TInv'
  <1>1. CASE UNCHANGED vars
    BY <1>1 DEF vars, TInv, TypeOK, Typed, Given, Place
  <1>2. ASSUME NEW t \in Thread, Enter(t) PROVE TInv'
    BY <1>2, EnterIs, EnterTypes
  <1>3. ASSUME NEW t \in Thread, Step(t) PROVE TInv'
    BY <1>3, CopyHeaderTypes, CopyMiddleTypes, StrtokTypes, DyingTypes, NoLineTypes,
       LineTypes, SetLengthTypes, BuildTypes DEF Step
  <1> QED BY <1>1, <1>2, <1>3 DEF Next

(* Who builds: a thread that was building, or one whose line matched.      *)
LEMMA FitsStep ==
  ASSUME TInv, HitFits, [Next]_vars
  PROVE  HitFits'
  <1>1. CASE UNCHANGED vars
    BY <1>1 DEF vars, HitFits
  <1>2. ASSUME UNCHANGED <<lib, arg>>,
               \A u \in Thread : pc'[u] \in Building => pc[u] \in Building /\ hit'[u] = hit[u]
        PROVE  HitFits'
    BY <1>2 DEF HitFits
  <1>3. ASSUME NEW t \in Thread, Enter(t) PROVE HitFits'
    <2>1. PICK f \in Function, s \in Text \cup {NULL} : EnterWith(t, f, s)
      BY <1>3, EnterIs
    <2>2. \A u \in Thread : pc'[u] \in Building =>
             pc[u] \in Building /\ hit'[u] = hit[u] /\ arg'[u] = arg[u]
      BY <2>1 DEF EnterWith, Return, Goto, Building, TInv, TypeOK, Typed
    <2>3. lib' = lib
      BY <2>1 DEF EnterWith, given
    <2> QED BY <2>2, <2>3 DEF HitFits
  <1>4. ASSUME NEW t \in Thread, Line(t) PROVE HitFits'
    <2> DEFINE S == Offsets(t, Mid(t), Left(t))
               h == [at |-> Min(S), left |-> Len(Left(t)), right |-> file[p[t][2]].right]
    <2>1. UNCHANGED <<lib, arg>>
      BY <1>4, LineParts DEF given, local
    <2>2. CASE Goto(t, "next") /\ UNCHANGED hit
      <3>1. \A u \in Thread : pc'[u] \in Building => pc[u] \in Building /\ hit'[u] = hit[u]
        BY <2>2 DEF Goto, Building, TInv, TypeOK
      <3> QED BY <1>2, <2>1, <3>1
    <2>3. CASE S # {} /\ hit' = [hit EXCEPT ![t] = h] /\ Goto(t, WhereBuilt)
      <3>1. \A u \in Thread \ {t} : pc'[u] \in Building => pc[u] \in Building /\ hit'[u] = hit[u]
        BY <2>3 DEF Goto, WhereBuilt, Building, TInv, TypeOK, Typed
      <3>2. lib = "dobby" => /\ Min(S) + Len(Left(t)) <= Len(arg[t]) /\ Len(arg[t]) < Split
        BY <1>4, <2>3, LineParts, FirstOffset
      <3>3. Len(Left(t)) % 2 = 0
        BY <1>4, LineParts
      <3>4. hit'[t] = h
        BY <2>3 DEF TInv, Typed
      <3> HIDE DEF S
      <3>5. hit'[t].at = Min(S) /\ hit'[t].left = Len(Left(t))
        BY <3>4
      <3> QED BY <2>1, <3>1, <3>2, <3>3, <3>5 DEF HitFits
    <2> HIDE DEF S
    <2> QED BY <1>4, <2>2, <2>3, LineParts DEF S
  <1>5. ASSUME NEW t \in Thread, Step(t), ~Line(t) PROVE HitFits'
    <2>1. UNCHANGED <<lib, arg>>
      BY <1>5 DEF Step, CopyHeader, CopyMiddle, strtok_first, strtok_next, UseAfterFree, NoLine,
                  NoBarLine, SetLength, Build, given, local
    <2>2. \A u \in Thread : pc'[u] \in Building => pc[u] \in Building /\ hit'[u] = hit[u]
      BY <1>5 DEF Step, CopyHeader, CopyMiddle, strtok_first, strtok_next, UseAfterFree, NoLine,
                  NoBarLine, Build, SetLength, Goto, Return, Building, TInv, TypeOK, Typed
    <2> QED BY <1>2, <2>1, <2>2
  <1> QED BY <1>1, <1>3, <1>4, <1>5 DEF Next

(* Types: for any threads, strings and map files the buffers keep their    *)
(* size and the process ends only for one of the three reasons.            *)
THEOREM TextTypes == Spec => [](TInv /\ HitFits)
  <1>1. Init => TInv /\ HitFits
    BY TypesInit DEF Init, HitFits, Building
  <1>2. TInv /\ HitFits /\ [Next]_vars => TInv' /\ HitFits'
    BY TypesStep, FitsStep
  <1> QED BY <1>1, <1>2, PTL DEF Spec

(* TypeOK, the part of it that the runs check.                             *)
THEOREM TextTypeOK == Spec => []TypeOK
  BY TextTypes, PTL DEF TInv

-----------------------------------------------------------------------------
(* Overlap.                                                                *)

(* While a call is under way that nothing has overlapped, every other      *)
(* thread is idle: a call that enters ends its being alone.                *)
Alone ==
  \A t \in Thread : solo[t] /\ pc[t] # "idle" => \A u \in Thread : pc[u] # "idle" => u = t

(* A call alone holds strtok's position: its next line, or the end.        *)
Looping == {"line", "next", "length", "build"}
PlaceOf(t, k) == IF k <= Len(file) THEN <<t, k>> ELSE NULL
OwnLines ==
  \A t \in Thread :
    solo[t] /\ pc[t] \in Looping =>
      /\ p[t] = PlaceOf(t, lines[t] + 1) /\ pos = PlaceOf(t, lines[t] + 2)
      /\ pc[t] # "line" => lines[t] < Len(file)

(* What every step but Enter leaves alone, and whose step it is.           *)
LEMMA StepFrame ==
  ASSUME TInv, NEW t \in Thread, Step(t)
  PROVE  /\ UNCHANGED <<given, local, solo>> /\ alive /\ pc[t] # "idle"
         /\ \A u \in Thread \ {t} : /\ pc'[u] = pc[u] /\ p'[u] = p[u] /\ lines'[u] = lines[u]
                                    /\ hit'[u] = hit[u] /\ out'[u] = out[u]
  <1> USE DEF Step, CopyHeader, CopyMiddle, strtok_first, strtok_next, UseAfterFree, NoLine,
              NoBarLine, Line, SetLength, Build
  <1>1. UNCHANGED <<given, local, solo>> /\ alive /\ pc[t] # "idle"
    OBVIOUS
  <1>2. \A u \in Thread \ {t} : pc'[u] = pc[u]
    BY DEF Goto, Return, TInv, TypeOK
  <1>3. \A u \in Thread \ {t} : p'[u] = p[u] /\ lines'[u] = lines[u]
    BY DEF Token, Return, TInv, Typed
  <1>4. \A u \in Thread \ {t} : hit'[u] = hit[u] /\ out'[u] = out[u]
    BY DEF Return, TInv, Typed
  <1> QED BY <1>1, <1>2, <1>3, <1>4

(* Every step keeps a call alone alone, or ends its being so.              *)
LEMMA AloneStep ==
  ASSUME TInv, Alone, [Next]_vars
  PROVE  Alone'
  <1>1. CASE UNCHANGED vars
    BY <1>1 DEF vars, Alone
  <1>2. ASSUME NEW t \in Thread, Enter(t) PROVE Alone'
    <2>1. PICK f \in Function, s \in Text \cup {NULL} : EnterWith(t, f, s)
      BY <1>2, EnterIs
    <2>2. \A u \in Thread \ {t} : pc'[u] = pc[u]
      BY <2>1 DEF EnterWith, Goto, Return, TInv, TypeOK
    <2>3. \A u \in Thread : solo'[u] => IF u = t THEN Busy = {} ELSE u \notin Busy
      BY <2>1 DEF EnterWith
    <2> QED BY <2>2, <2>3 DEF Alone, Busy
  <1>3. ASSUME NEW t \in Thread, Step(t) PROVE Alone'
    BY <1>3, StepFrame DEF Alone
  <1> QED BY <1>1, <1>2, <1>3 DEF Next

(* The place of a line of one's own.                                       *)
LEMMA PlaceOfIs ==
  ASSUME NEW t, NEW k
  PROVE  /\ PlaceOf(t, k) = NULL <=> ~(k <= Len(file))
         /\ k <= Len(file) => PlaceOf(t, k)[1] = t /\ PlaceOf(t, k)[2] = k
  <1>1. <<t, k>> # NULL
    <2>1. Len(<<t, k>>) = 2 /\ Len(NULL) = 1
      BY DEF NULL
    <2> QED BY <2>1
  <1> QED BY <1>1 DEF PlaceOf

(* strtok takes a call alone from one line to the next.                    *)
LEMMA TokenOwn ==
  ASSUME TInv, NEW t \in Thread, NEW k \in Nat, Token(t, PlaceOf(t, k + 1))
  PROVE  p'[t] = PlaceOf(t, k + 1) /\ pos' = PlaceOf(t, k + 2)
  <1>1. p'[t] = PlaceOf(t, k + 1)
    BY DEF Token, TInv, Typed
  <1>2. Len(file) \in Nat
    BY DEF TInv, Typed, Given
  <1>3. CASE k + 1 <= Len(file)
    <2>1. /\ PlaceOf(t, k + 1) # NULL
          /\ PlaceOf(t, k + 1)[1] = t /\ PlaceOf(t, k + 1)[2] = k + 1
      BY <1>3, PlaceOfIs
    <2>2. pos' = IF k + 1 = Len(file) THEN NULL ELSE <<t, k + 1 + 1>>
      BY <2>1 DEF Token
    <2>3. k + 1 = Len(file) <=> ~(k + 2 <= Len(file))
      BY <1>2, <1>3
    <2>4. k + 1 + 1 = k + 2
      OBVIOUS
    <2> QED BY <1>1, <2>2, <2>3, <2>4 DEF PlaceOf
  <1>4. CASE ~(k + 1 <= Len(file))
    <2>1. PlaceOf(t, k + 1) = NULL /\ ~(k + 2 <= Len(file))
      BY <1>2, <1>4 DEF PlaceOf
    <2> QED BY <1>1, <2>1 DEF Token, PlaceOf
  <1> QED BY <1>3, <1>4

(* No step of another thread comes between a call alone and strtok's       *)
(* position.                                                               *)
LEMMA OwnLinesStep ==
  ASSUME TInv, Alone, OwnLines, [Next]_vars
  PROVE  OwnLines'
  <1>1. CASE UNCHANGED vars
    BY <1>1 DEF vars, OwnLines, PlaceOf
  <1>2. ASSUME NEW t \in Thread, Enter(t) PROVE OwnLines'
    <2>1. PICK f \in Function, s \in Text \cup {NULL} : EnterWith(t, f, s)
      BY <1>2, EnterIs
    <2>2. pc'[t] \notin Looping /\ \A u \in Thread \ {t} : pc'[u] = pc[u]
      BY <2>1 DEF EnterWith, Goto, Return, TInv, TypeOK, Looping
    <2>3. \A u \in Thread \ {t} : pc[u] # "idle" => ~solo'[u]
      BY <2>1 DEF EnterWith, Busy
    <2> QED BY <2>2, <2>3 DEF OwnLines, Looping
  <1>3. ASSUME NEW t \in Thread, Step(t) PROVE OwnLines'
    <2>1. /\ UNCHANGED <<file, solo>> /\ pc[t] # "idle"
          /\ \A u \in Thread \ {t} : pc'[u] = pc[u]
      BY <1>3, StepFrame DEF given
    <2>2. \A u \in Thread \ {t} : ~(solo'[u] /\ pc'[u] \in Looping)
      BY <2>1 DEF Alone, Looping
    <2> SUFFICES ASSUME solo[t], pc'[t] \in Looping
                 PROVE  /\ p'[t] = PlaceOf(t, lines'[t] + 1) /\ pos' = PlaceOf(t, lines'[t] + 2)
                        /\ pc'[t] # "line" => lines'[t] < Len(file)
      <3>1. \A k : PlaceOf(t, k)' = PlaceOf(t, k)
        BY <2>1 DEF PlaceOf
      <3> QED BY <2>1, <2>2 DEF OwnLines, PlaceOf
    <2>3. lines[t] \in Nat /\ Len(file) \in Nat
      BY DEF TInv, Typed, Given
    <2>4. CASE strtok_first(t)
      <3>1. lines'[t] = 0 /\ pc'[t] = "line"
        BY <2>4 DEF strtok_first, Goto, TInv, TypeOK, Typed
      <3>2. (IF file = <<>> THEN NULL ELSE <<t, 1>>) = PlaceOf(t, 0 + 1)
        <4>1. file = <<>> <=> ~(1 <= Len(file))
          BY DEF TInv, Typed, Given
        <4> QED BY <4>1 DEF PlaceOf
      <3>3. p'[t] = PlaceOf(t, 0 + 1) /\ pos' = PlaceOf(t, 0 + 2)
        BY <2>4, <3>2, TokenOwn DEF strtok_first
      <3> QED BY <3>1, <3>3
    <2>5. CASE strtok_next(t)
      <3>1. lines'[t] = lines[t] + 1 /\ pc'[t] = "line" /\ pc[t] = "next" /\ Token(t, pos)
        BY <2>5 DEF strtok_next, Goto, TInv, TypeOK, Typed
      <3>2. pos = PlaceOf(t, (lines[t] + 1) + 1)
        <4>1. pos = PlaceOf(t, lines[t] + 2) /\ lines[t] + 2 = (lines[t] + 1) + 1
          BY <2>3, <3>1 DEF OwnLines, Looping
        <4> QED BY <4>1
      <3> DEFINE k == lines[t] + 1
      <3>3. k \in Nat
        BY <2>3
      <3>4. Token(t, PlaceOf(t, k + 1))
        BY <3>1, <3>2
      <3>5. p'[t] = PlaceOf(t, k + 1) /\ pos' = PlaceOf(t, k + 2)
        <4> HIDE DEF k
        <4> QED BY <3>3, <3>4, TokenOwn
      <3> QED BY <3>1, <3>5
    <2>6. CASE ~strtok_first(t) /\ ~strtok_next(t)
      <3>1. /\ UNCHANGED pos /\ pc[t] \in Looping /\ p'[t] = p[t] /\ lines'[t] = lines[t]
            /\ pc'[t] = pc[t] \/ Line(t) \/ SetLength(t)
        BY <1>3, <2>6 DEF Step, CopyHeader, CopyMiddle, UseAfterFree, NoLine, NoBarLine, Line,
                          SetLength, Build, Goto, Return, Looping, TInv, TypeOK, Typed
      <3>2. /\ Line(t) => pc[t] = "line" /\ p[t] # NULL
            /\ SetLength(t) => pc[t] # "line"
        BY DEF Line, SetLength
      <3>3. p[t] # NULL => lines[t] + 1 <= Len(file)
        BY <3>1, PlaceOfIs DEF OwnLines
      <3>4. p[t] # NULL => lines[t] < Len(file)
        BY <2>3, <3>3
      <3> QED BY <3>1, <3>2, <3>4 DEF OwnLines
    <2> QED BY <2>4, <2>5, <2>6
  <1> QED BY <1>1, <1>2, <1>3 DEF Next

(* The overlapped calls and strtok's position.                             *)
OInv == Alone /\ OwnLines

(* A call that nothing overlaps owns strtok's position.                    *)
THEOREM AloneOwns == Spec => []OInv
  <1>1. Init => OInv
    BY DEF Init, OInv, Alone, OwnLines, Looping
  <1>2. OInv /\ TInv /\ HitFits /\ [Next]_vars => OInv'
    BY AloneStep, OwnLinesStep DEF OInv
  <1> QED BY <1>1, <1>2, TextTypes, PTL DEF Spec

(* The length field of what a call alone is about to hand on, and has      *)
(* handed on.                                                              *)
LengthSet ==
  lib = "dobby" =>
    \A t \in Thread : solo[t] /\ pc[t] = "build" => 2 * header[fn[t]] = LengthMiddle(t)
Lengths ==
  lib = "dobby" /\ alive =>
    \A t \in Thread : solo[t] /\ pc[t] = "idle" => 2 * out[t].len = Len(out[t].text)

(* The header a call alone has written stays as it is until it is copied.  *)
LEMMA LengthSetStep ==
  ASSUME TInv, HitFits, OInv, LengthSet, [Next]_vars
  PROVE  LengthSet'
  <1>1. CASE UNCHANGED vars
    BY <1>1 DEF vars, LengthSet, LengthMiddle, LengthStart, LengthRight, LengthEnd
  <1>2. ASSUME NEW t \in Thread, Enter(t) PROVE LengthSet'
    <2>1. PICK f \in Function, s \in Text \cup {NULL} : EnterWith(t, f, s)
      BY <1>2, EnterIs
    <2>2. pc'[t] # "build" /\ \A u \in Thread \ {t} : pc'[u] = pc[u]
      BY <2>1 DEF EnterWith, Goto, Return, TInv, TypeOK
    <2>3. \A u \in Thread \ {t} : pc[u] # "idle" => ~solo'[u]
      BY <2>1 DEF EnterWith, Busy
    <2> QED BY <2>2, <2>3 DEF LengthSet
  <1>3. ASSUME NEW t \in Thread, Step(t) PROVE LengthSet'
    <2>1. /\ UNCHANGED <<given, local, solo>> /\ pc[t] # "idle"
          /\ \A u \in Thread \ {t} : pc'[u] = pc[u]
      BY <1>3, StepFrame
    <2>2. \A u \in Thread \ {t} : ~(solo'[u] /\ pc'[u] = "build")
      BY <2>1 DEF OInv, Alone
    <2> SUFFICES ASSUME lib = "dobby", pc'[t] = "build"
                 PROVE  2 * header'[fn'[t]] = LengthMiddle(t)'
      BY <2>1, <2>2 DEF LengthSet, given
    <2>3. SetLength(t)
      BY <1>3 DEF Step, CopyHeader, CopyMiddle, strtok_first, strtok_next, UseAfterFree, NoLine,
                  NoBarLine, Line, Build, Goto, Return, TInv, TypeOK
    <2>4. LengthMiddle(t)' = LengthMiddle(t)
      BY <2>3 DEF SetLength, local, LengthMiddle, LengthStart, LengthRight, LengthEnd
    <2>5. LengthMiddle(t) \in Nat /\ LengthMiddle(t) % 2 = 0
      BY <2>3, BuiltIs DEF SetLength, Building
    <2>6. header'[fn'[t]] = LengthMiddle(t) \div 2
      BY <2>3 DEF SetLength, local, TInv, TypeOK, Typed
    <2> DEFINE w == LengthMiddle(t)
    <2> HIDE DEF w
    <2>7. 2 * (w \div 2) = w
      BY <2>5 DEF w
    <2> QED BY <2>4, <2>6, <2>7 DEF w
  <1> QED BY <1>1, <1>2, <1>3 DEF Next

(* Every step keeps the length fields right: only a return sets one.       *)
LEMMA LengthsStep ==
  ASSUME TInv, HitFits, OInv, LengthSet, Lengths, [Next]_vars
  PROVE  Lengths'
  <1>1. ASSUME UNCHANGED <<lib, alive, out, pc, solo>> PROVE Lengths'
    BY <1>1 DEF Lengths
  <1>2. ASSUME NEW t \in Thread, lib' = lib, alive' => alive,
               \A u \in Thread \ {t} :
                 out'[u] = out[u] /\ pc'[u] = pc[u] /\ (solo'[u] => solo[u]),
               lib = "dobby" /\ alive' /\ solo'[t] /\ pc'[t] = "idle" =>
                 2 * out'[t].len = Len(out'[t].text)
        PROVE  Lengths'
    BY <1>2 DEF Lengths
  <1>3. ASSUME NEW t \in Thread, Enter(t) PROVE Lengths'
    <2>1. PICK f \in Function, s \in Text \cup {NULL} : EnterWith(t, f, s)
      BY <1>3, EnterIs
    <2>2. lib' = lib /\ alive
      BY <1>3, <2>1 DEF Enter, EnterWith, given
    <2>3. s # NULL => 2 * AsIs(s).len = Len(AsIs(s).text)
      BY TextIs, AsIsTyped
    <2>4. 2 * NoOut.len = Len(NoOut.text)
      BY DEF NoOut
    <2>5. \A u \in Thread \ {t} :
            out'[u] = out[u] /\ pc'[u] = pc[u] /\ (solo'[u] => solo[u])
      BY <2>1 DEF EnterWith, Goto, Return, TInv, TypeOK, Typed
    <2>6. CASE Return(t, NoOut) \/ (s # NULL /\ Return(t, AsIs(s)))
      <3>1. out'[t] = NoOut \/ (s # NULL /\ out'[t] = AsIs(s))
        BY <2>6 DEF Return, TInv, Typed
      <3> QED BY <1>2, <2>2, <2>3, <2>4, <2>5, <3>1
    <2>7. CASE Goto(t, "header")
      <3>1. pc'[t] # "idle"
        BY <2>7 DEF Goto, TInv, TypeOK
      <3> QED BY <1>2, <2>2, <2>5, <3>1
    <2>8. CASE Die("null")
      BY <1>2, <2>2, <2>5, <2>8 DEF Die
    <2>9. Return(t, NoOut) \/ (s # NULL /\ Return(t, AsIs(s))) \/ Goto(t, "header") \/ Die("null")
      BY <2>1 DEF EnterWith
    <2> QED BY <2>6, <2>7, <2>8, <2>9
  <1>4. ASSUME NEW t \in Thread, Step(t) PROVE Lengths'
    <2>1. /\ UNCHANGED <<given, local, solo>>
          /\ \A u \in Thread \ {t} : out'[u] = out[u] /\ pc'[u] = pc[u]
      BY <1>4, StepFrame
    <2>a. alive /\ pc[t] # "idle"
      BY <1>4, StepFrame
    <2> SUFFICES ASSUME lib = "dobby", solo[t], pc'[t] = "idle"
                 PROVE  2 * out'[t].len = Len(out'[t].text)
      BY <1>2, <2>1, <2>a DEF given
    <2>2. CASE NoLine(t)
      <3>1. arg[t] \in Text /\ out'[t] = AsIs(arg[t])
        BY <2>2 DEF NoLine, Return, TInv, Typed
      <3> QED BY <3>1, TextIs, AsIsTyped
    <2>3. CASE Build(t)
      <3>0. pc[t] = "build" /\ Return(t, Built(t))
        BY <2>3, BuildTypes DEF Build
      <3>1. pc[t] = "build" /\ out'[t] = Built(t)
        BY <3>0 DEF Return, TInv, Typed
      <3>2. 2 * header[fn[t]] = LengthMiddle(t)
        BY <3>1 DEF LengthSet
      <3>3. Len(BuiltDobby(t)) = LengthMiddle(t)
        BY <3>1, BuiltIs DEF Building
      <3> QED BY <3>1, <3>2, <3>3 DEF Built
    <2>4. NoLine(t) \/ Build(t)
      BY <1>4, StepFrame
         DEF Step, CopyHeader, CopyMiddle, strtok_first, strtok_next, UseAfterFree, NoBarLine,
             Line, SetLength, Goto, TInv, TypeOK
    <2> QED BY <2>2, <2>3, <2>4
  <1>5. CASE UNCHANGED vars
    BY <1>1, <1>5 DEF vars
  <1> QED BY <1>3, <1>4, <1>5 DEF Next

(* The header of a call alone holds the length of what is copied.          *)
THEOREM HeadersKept == Spec => []LengthSet
  <1>1. Init => LengthSet
    BY DEF Init, LengthSet
  <1>2. LengthSet /\ TInv /\ HitFits /\ OInv /\ [Next]_vars => LengthSet'
    BY LengthSetStep
  <1> QED BY <1>1, <1>2, TextTypes, AloneOwns, PTL DEF Spec

(* A call of the dobby build that no other overlapped hands Unity a length *)
(* field that agrees with the characters, for any strings and map files:   *)
(* the sum of the counted lengths is the length of the parts copied, and   *)
(* the header they share is nobody else's in between.                      *)
THEOREM LengthsAgree == Spec => []LengthAgrees
  <1>1. Init => Lengths
    BY DEF Init, Lengths, NoOut
  <1>2. Lengths /\ TInv /\ HitFits /\ OInv /\ LengthSet /\ [Next]_vars => Lengths'
    BY LengthsStep
  <1>3. Lengths => LengthAgrees
    BY DEF Lengths, LengthAgrees, Ended
  <1> QED BY <1>1, <1>2, <1>3, TextTypes, AloneOwns, HeadersKept, PTL DEF Spec

(* A call that no other overlaps examines its own copy of the map file,    *)
(* line after line.                                                        *)
THEOREM LinesInOrder == Spec => []OwnLinesInOrder
  <1>1. TInv /\ OInv => OwnLinesInOrder
    <2> SUFFICES ASSUME TInv, OInv, NEW t \in Thread, solo[t], pc[t] \in {"line", "length", "build"}
                 PROVE  p[t] = IF lines[t] < Len(file) THEN <<t, lines[t] + 1>> ELSE NULL
      BY DEF OwnLinesInOrder
    <2>1. p[t] = PlaceOf(t, lines[t] + 1)
      BY DEF OInv, OwnLines, Looping
    <2>2. lines[t] + 1 <= Len(file) <=> lines[t] < Len(file)
      BY DEF TInv, Typed, Given
    <2> QED BY <2>1, <2>2 DEF PlaceOf
  <1> QED BY <1>1, TextTypes, AloneOwns, PTL

(* A buffer that was freed is read only in a call that another overlapped: *)
(* of a call alone strtok's position is in its own buffer.                 *)
LEMMA FreedStep ==
  ASSUME TInv, OInv, FreedNeedsOverlap, [Next]_vars
  PROVE  FreedNeedsOverlap'
  <1>1. CASE UNCHANGED vars
    BY <1>1 DEF vars, FreedNeedsOverlap
  <1>2. ASSUME alive, why' # "freed" PROVE FreedNeedsOverlap'
    BY <1>2 DEF FreedNeedsOverlap
  <1>3. ASSUME NEW t \in Thread, UseAfterFree(t) PROVE FreedNeedsOverlap'
    <2>1. UNCHANGED <<pc, solo>> /\ pc[t] \in {"line", "next"}
          /\ Freed(IF pc[t] = "line" THEN p[t] ELSE pos)
      BY <1>3 DEF UseAfterFree
    <2>2. ASSUME solo[t] PROVE FALSE
      <3>1. PICK k : (IF pc[t] = "line" THEN p[t] ELSE pos) = PlaceOf(t, k)
        BY <2>1, <2>2 DEF OInv, OwnLines, Looping
      <3>2. PlaceOf(t, k) # NULL /\ pc[PlaceOf(t, k)[1]] = "idle"
        BY <2>1, <3>1 DEF Freed
      <3>3. PlaceOf(t, k)[1] = t
        BY <3>2, PlaceOfIs
      <3> QED BY <2>1, <3>2, <3>3
    <2>3. pc'[t] # "idle" /\ ~solo'[t]
      BY <2>1, <2>2
    <2> QED BY <2>3 DEF FreedNeedsOverlap
  <1>4. ASSUME NEW t \in Thread, Enter(t) PROVE alive /\ why' # "freed"
    <2>1. alive /\ why = "none" /\ (why' = why \/ why' = "null")
      BY <1>4 DEF Enter, Die, TInv, TypeOK
    <2> QED BY <2>1
  <1>5. ASSUME NEW t \in Thread, Step(t), ~UseAfterFree(t) PROVE alive /\ why' # "freed"
    <2>1. alive /\ why = "none" /\ (why' = why \/ why' = "nobar")
      BY <1>5 DEF Step, CopyHeader, CopyMiddle, strtok_first, strtok_next, NoLine,
                  NoBarLine, Line, SetLength, Build, Die, TInv, TypeOK
    <2> QED BY <2>1
  <1> QED BY <1>1, <1>2, <1>3, <1>4, <1>5 DEF Next

(* The hooks read a freed temp_buffer only when two calls overlapped.      *)
THEOREM FreedOnlyInOverlap == Spec => []FreedNeedsOverlap
  <1>1. Init => FreedNeedsOverlap
    BY DEF Init, FreedNeedsOverlap
  <1>2. FreedNeedsOverlap /\ TInv /\ OInv /\ [Next]_vars => FreedNeedsOverlap'
    BY FreedStep
  <1> QED BY <1>1, <1>2, TextTypes, AloneOwns, PTL DEF Spec

-----------------------------------------------------------------------------
(* The text handed on.                                                     *)

(* The string in the zeroed buffer.                                        *)
Padded(s) == [i \in 1..Split |-> IF i <= Len(s) THEN s[i] ELSE 0]

(* memccpy copies a string without the stop byte whole.                    *)
LEMMA CopyWhole ==
  ASSUME NEW s \in Seq(Byte), stop \notin Range(s)
  PROVE  memccpy(s) = Padded(s)
  <1> DEFINE cut == SelectInSeq(s, LAMBDA b : b = stop)
             I == {i \in 1..Len(s) : s[i] = stop}
  <1>1. DOMAIN s = 1..Len(s)
    OBVIOUS
  <1>2. I = {}
    BY <1>1, Zenon DEF Range
  <1>3. cut = IF I # {} THEN Min(I) ELSE 0
    BY Zenon DEF SelectInSeq
  <1>4. cut = 0
    BY <1>2, <1>3, Zenon
  <1>5. memccpy(s) = [i \in 1..Split |-> IF i <= Len(s) /\ (cut = 0 \/ i <= cut) THEN s[i] ELSE 0]
    BY Zenon DEF memccpy
  <1> HIDE DEF cut
  <1> QED BY <1>4, <1>5, Zenon DEF Padded

(* The padded string fills the buffer.                                     *)
LEMMA PaddedIs ==
  ASSUME NEW s \in Seq(Byte)
  PROVE  Padded(s) \in Seq(Byte) /\ Len(Padded(s)) = Split
  <1>1. Split \in Nat /\ Len(s) \in Nat /\ \A i \in 1..Len(s) : s[i] \in Byte
    BY TextAssumption
  <1>2. Padded(s) \in [1..Split -> Byte]
    BY <1>1 DEF Padded, Byte
  <1> QED BY <1>1, <1>2, FunctionIsSequence

(* A string without capitals has none in the buffer: its last unit is      *)
(* whole and the rest is zero.                                             *)
LEMMA LowerPadded ==
  ASSUME NEW s \in Seq(Byte), Len(s) % 2 = 0, tolower_unicode(s, Len(s)) = s, NEW n \in Nat
  PROVE  tolower_unicode(Padded(s), n) = Padded(s)
  <1> DEFINE q == Padded(s)
             l == tolower_unicode(q, n)
             Hits(c, i, k) == /\ i % 2 = 1 /\ i - 1 <= k /\ i < Len(c)
                              /\ c[i] = Upper /\ c[i + 1] = 0
  <1>1. q \in Seq(Byte) /\ Len(q) = Split /\ DOMAIN q = 1..Split
    BY PaddedIs DEF Padded
  <1>2. Split \in Nat /\ Len(s) \in Nat /\ DOMAIN s = 1..Len(s)
    BY TextAssumption
  <1>3. \A i \in 1..Split : q[i] = IF i <= Len(s) THEN s[i] ELSE 0
    BY DEF Padded
  <1>4. ASSUME NEW i \in 1..Len(s) PROVE ~Hits(s, i, Len(s))
    <2>1. tolower_unicode(s, Len(s))[i] = IF Hits(s, i, Len(s)) THEN Lower ELSE s[i]
      BY <1>2, Zenon DEF tolower_unicode
    <2>2. s[i] = IF Hits(s, i, Len(s)) THEN Lower ELSE s[i]
      BY <2>1
    <2>3. Hits(s, i, Len(s)) => s[i] = Upper
      OBVIOUS
    <2>4. Lower # Upper
      BY DEF Lower, Upper
    <2> HIDE DEF Hits
    <2> QED BY <2>2, <2>3, <2>4
  <1>5. ASSUME NEW i \in 1..Split PROVE ~Hits(q, i, n)
    <2>1. SUFFICES ASSUME i % 2 = 1, i < Split, q[i] = Upper, q[i + 1] = 0 PROVE FALSE
      BY <1>1
    <2>2. i <= Len(s) /\ q[i] = s[i]
      BY <1>2, <1>3, <2>1 DEF Upper
    <2>3. i < Len(s)
      BY <1>2, <2>1, <2>2
    <2>4. i + 1 \in 1..Split /\ i + 1 <= Len(s) /\ i \in 1..Len(s) /\ i - 1 <= Len(s)
      BY <1>2, <2>1, <2>3
    <2>5. s[i] = Upper /\ s[i + 1] = 0
      BY <1>3, <2>1, <2>2, <2>4
    <2> QED BY <1>4, <2>1, <2>3, <2>4, <2>5
  <1>6. l = [i \in 1..Split |-> IF Hits(q, i, n) THEN Lower ELSE q[i]]
    BY <1>1, Zenon DEF tolower_unicode
  <1>7. \A i \in 1..Split : l[i] = q[i]
    <2> HIDE DEF Hits, q, l
    <2> QED BY <1>5, <1>6
  <1>8. l \in Seq(Byte) /\ Len(l) = Split
    BY <1>1, LowerIs
  <1> HIDE DEF l, q
  <1>9. l = q
    BY <1>1, <1>2, <1>7, <1>8, SeqEqual
  <1> QED BY <1>9 DEF l, q

(* A part of the string and of its padded copy.                            *)
LEMMA SubSeqPadded ==
  ASSUME NEW s \in Seq(Byte), Len(s) <= Split, NEW m \in Nat \ {0}, NEW n \in 0..Len(s)
  PROVE  SubSeq(Padded(s), m, n) = SubSeq(s, m, n)
  <1>1. Split \in Nat /\ Len(s) \in Nat
    BY TextAssumption
  <1>2. \A i \in m..n : Padded(s)[i] = s[i] /\ s[i] \in Byte
    BY <1>1 DEF Padded
  <1> DEFINE a == SubSeq(Padded(s), m, n)
             b == SubSeq(s, m, n)
  <1>3. m \in Int /\ n \in Int
    OBVIOUS
  <1>4. /\ a \in Seq(Byte) /\ Len(a) = (IF m <= n THEN n - m + 1 ELSE 0)
        /\ \A i \in 1..n - m + 1 : a[i] = Padded(s)[m + i - 1]
    BY <1>2, <1>3, SubSeqProperties
  <1>5. /\ b \in Seq(Byte) /\ Len(b) = (IF m <= n THEN n - m + 1 ELSE 0)
        /\ \A i \in 1..n - m + 1 : b[i] = s[m + i - 1]
    BY <1>2, <1>3, SubSeqProperties
  <1> HIDE DEF a, b
  <1>6. \A i \in 1..Len(a) : a[i] = b[i]
    <2> SUFFICES ASSUME NEW i \in 1..Len(a) PROVE a[i] = b[i]
      OBVIOUS
    <2>1. i \in 1..n - m + 1 /\ m + i - 1 \in m..n
      BY <1>1, <1>4
    <2> QED BY <1>2, <1>4, <1>5, <2>1
  <1>7. a = b
    BY <1>4, <1>5, <1>6, SeqEqual
  <1> QED BY <1>7 DEF a, b

(* The search finds the occurrences the map means.                         *)
LEMMA SearchFinds ==
  ASSUME TInv, lib = "dobby", NEW t \in Thread, arg[t] \in Text, Len(arg[t]) < Split,
         NEW k, LeftOf(k) \in Seq(Byte)
  PROVE  Offsets(t, Padded(arg[t]), LeftOf(k)) = Occurs(k, arg[t])
  <1> DEFINE s == arg[t]
             l == LeftOf(k)
             n == Len(s)
             w == Len(l)
  <1>1. s \in Seq(Byte) /\ n \in Nat /\ w \in Nat /\ n < Split /\ Split \in Nat
    BY TextIs, TextAssumption
  <1>2. l # <<>> <=> w > 0
    <2> HIDE DEF l
    <2> QED OBVIOUS
  <1>3. ASSUME NEW o \in Nat, o + w <= n PROVE Matches(Padded(s), l, o) <=> Matches(s, l, o)
    <2>1. o + 1 \in Nat \ {0} /\ o + w \in 0..n
      BY <1>1, <1>3
    <2>2. SubSeq(Padded(s), o + 1, o + w) = SubSeq(s, o + 1, o + w)
      <3>1. Len(s) <= Split /\ s \in Seq(Byte)
        BY <1>1
      <3> HIDE DEF s, w
      <3> QED BY <2>1, <3>1, SubSeqPadded, Zenon
    <2> QED BY <2>2 DEF Matches
  <1>4. Offsets(t, Padded(s), l)
          = IF w < Split THEN {o \in 0..n - w : l # <<>> /\ Matches(Padded(s), l, o)} ELSE {}
    BY <1>1 DEF Offsets, OffsetsDobby, memcmp_plus
  <1>5. Occurs(k, s) = {o \in 0..n - 1 : l # <<>> /\ o + w <= n /\ Matches(s, l, o)}
    BY DEF Occurs
  <1> HIDE DEF s, l, n, w
  <1>6. ASSUME NEW o PROVE o \in Offsets(t, Padded(s), l) <=> o \in Occurs(k, s)
    <2>1. o \in Occurs(k, s) <=> o \in 0..n - 1 /\ l # <<>> /\ o + w <= n /\ Matches(s, l, o)
      BY <1>5
    <2>2. o \in Offsets(t, Padded(s), l)
            <=> w < Split /\ o \in 0..n - w /\ l # <<>> /\ Matches(Padded(s), l, o)
      BY <1>4
    <2>3. l # <<>> => ((w < Split /\ o \in 0..n - w) <=> (o \in 0..n - 1 /\ o + w <= n))
      BY <1>1, <1>2
    <2>4. o \in 0..n - w => o \in Nat /\ o + w <= n
      BY <1>1
    <2> QED BY <1>3, <2>1, <2>2, <2>3, <2>4
  <1>7. Offsets(t, Padded(s), l) = Occurs(k, s)
    BY <1>6
  <1> QED BY <1>7 DEF s, l

(* The map and what it asks for do not change.                             *)
LEMMA MapKept ==
  ASSUME UNCHANGED given
  PROVE  /\ \A k, s : Occurs(k, s)' = Occurs(k, s)
         /\ \A k : LeftOf(k)' = LeftOf(k)
         /\ \A s : Lines(s)' = Lines(s) /\ Wanted(s)' = Wanted(s) /\ Plain(s)' = Plain(s)
  <1>1. file' = file /\ stop' = stop
    BY DEF given
  <1>2. \A k : LeftOf(k)' = LeftOf(k)
    BY <1>1 DEF LeftOf
  <1>3. \A k, s : Occurs(k, s)' = Occurs(k, s)
    BY <1>2 DEF Occurs
  <1>4. \A s : Lines(s)' = Lines(s)
    BY <1>1, <1>3 DEF Lines
  <1>5. \A s : Wanted(s)' = Wanted(s)
    BY <1>1, <1>2, <1>3, <1>4 DEF Wanted
  <1>6. \A s : Plain(s)' = Plain(s)
    BY <1>1, <1>3, <1>4 DEF Plain
  <1> QED BY <1>2, <1>3, <1>4, <1>5, <1>6

(* A line that is not the one: it has a bar and its phrase does not occur. *)
Passed(k, s) == file[k] # NoBar /\ Occurs(k, s) = {}

(* No line left: the string stays as it is.                                *)
LEMMA NothingWanted ==
  ASSUME NEW s, \A k \in 2..Len(file) : Occurs(k, s) = {}
  PROVE  Wanted(s) = s
  BY DEF Wanted, Lines

(* The first line that does not pass is the one the map means.             *)
LEMMA FirstWanted ==
  ASSUME Len(file) \in Nat, NEW s, NEW k \in 2..Len(file), file[k] # NoBar, Occurs(k, s) # {},
         \A j \in 2..k - 1 : Passed(j, s)
  PROVE  Wanted(s) = SubSeq(s, 1, Min(Occurs(k, s))) \o UTF8_to_Unicode(file[k].right)
                       \o SubSeq(s, Min(Occurs(k, s)) + Len(LeftOf(k)) + 1, Len(s))
  <1>1. k \in Lines(s) /\ Lines(s) \in SUBSET Nat /\ \A j \in Lines(s) : j \in 2..Len(file)
    BY DEF Lines
  <1>2. Min(Lines(s)) \in Lines(s) /\ Min(Lines(s)) <= k
    BY <1>1, MinIs
  <1>3. \A j \in 2..k - 1 : j \notin Lines(s)
    BY DEF Passed, Lines
  <1> DEFINE m == Min(Lines(s))
  <1>4. m = k
    <2> HIDE DEF m
    <2> QED BY <1>1, <1>2, <1>3 DEF m
  <1>5. Lines(s) # {}
    BY <1>1
  <1> QED BY <1>4, <1>5, Zenon DEF Wanted

(* How far a call alone has come with a plain string: the lines behind it  *)
(* have passed, the buffer still holds the string, and at Build the line   *)
(* found is the one the map means.                                         *)
Reading == {"first", "line", "next", "length", "build"}
Relevant(t, s) ==
  /\ arg[t] = s /\ solo[t] /\ Plain(s)
  /\ ~(fn[t] = "get" /\ s # <<>> /\ ByteAt(s, 0) = 0)
Found(k, s) == [at |-> Min(Occurs(k, s)), left |-> Len(LeftOf(k)), right |-> file[k].right]
InStep(t, s) ==
  /\ pc[t] \in Reading => middle[fn[t]] = Padded(s)
  /\ pc[t] \in Looping => \A k \in 2..lines[t] : Passed(k, s)
  /\ pc[t] = "next" /\ lines[t] # 0 => Passed(lines[t] + 1, s)
  /\ pc[t] \in Building => /\ lines[t] # 0 /\ file[lines[t] + 1] # NoBar
                           /\ Occurs(lines[t] + 1, s) # {} /\ hit[t] = Found(lines[t] + 1, s)
  /\ pc[t] = "idle" => out[t] = AsIs(Wanted(s))
Mapped ==
  lib = "dobby" =>
    \A t \in Thread, s \in Text \cup {<<>>} : Relevant(t, s) => InStep(t, s)

(* An empty string contains nothing.                                       *)
LEMMA EmptyWanted == Wanted(<<>>) = <<>>
  <1>1. \A k \in 2..Len(file) : Occurs(k, <<>>) = {}
    BY DEF Occurs
  <1> QED BY <1>1, NothingWanted

(* Before the first call nothing was handed on.                            *)
LEMMA MappedInit == Init => Mapped
  <1> SUFFICES ASSUME Init, NEW t \in Thread, NEW s \in Text \cup {<<>>}, Relevant(t, s)
               PROVE  InStep(t, s)
    BY DEF Mapped
  <1>1. s = <<>> /\ pc[t] = "idle" /\ out[t] = NoOut
    BY DEF Init, Relevant
  <1>2. NoOut = AsIs(<<>>)
    BY DEF NoOut, AsIs
  <1>3. out[t] = AsIs(Wanted(s))
    BY <1>1, <1>2, EmptyWanted
  <1>4. pc[t] \notin Reading /\ pc[t] \notin Looping /\ pc[t] # "next" /\ pc[t] \notin Building
    BY <1>1 DEF Reading, Looping, Building
  <1> QED BY <1>3, <1>4 DEF InStep

(* What of a call's progress does not change when only others move.        *)
LEMMA ProgressKept ==
  ASSUME UNCHANGED given, NEW t \in Thread, NEW s
  PROVE  /\ \A k : Passed(k, s)' = Passed(k, s) /\ Found(k, s)' = Found(k, s)
         /\ fn'[t] = fn[t] /\ arg'[t] = arg[t] /\ (solo'[t] => solo[t]) /\ Relevant(t, s)'
              => Relevant(t, s)
  <1>1. file' = file
    BY DEF given
  <1>2. \A k : Passed(k, s)' = Passed(k, s)
    BY <1>1, MapKept DEF Passed
  <1>3. \A k : Found(k, s)' = Found(k, s)
    BY <1>1, MapKept DEF Found
  <1>4. Plain(s)' = Plain(s)
    BY MapKept
  <1>5. fn'[t] = fn[t] /\ arg'[t] = arg[t] /\ (solo'[t] => solo[t]) /\ Relevant(t, s)'
              => Relevant(t, s)
    BY <1>4 DEF Relevant
  <1> QED BY <1>2, <1>3, <1>5

(* The progress of a thread is kept when its own state does not change; of *)
(* an idle thread the static buffer does not matter.                       *)
LEMMA InStepKept ==
  ASSUME UNCHANGED given, NEW t \in Thread, NEW s, InStep(t, s),
         pc'[t] = pc[t], fn'[t] = fn[t], lines'[t] = lines[t], hit'[t] = hit[t], out'[t] = out[t],
         pc[t] # "idle" => middle' = middle
  PROVE  InStep(t, s)'
  <1>1. file' = file /\ Wanted(s)' = Wanted(s) /\ \A k : Occurs(k, s)' = Occurs(k, s)
    BY MapKept DEF given
  <1>2. \A k : Passed(k, s)' = Passed(k, s) /\ Found(k, s)' = Found(k, s)
    BY ProgressKept
  <1>3. pc'[t] \in Reading => middle'[fn'[t]] = Padded(s)
    BY DEF InStep, Reading
  <1>4. pc'[t] \in Looping => \A k \in 2..lines'[t] : Passed(k, s)'
    BY <1>2 DEF InStep
  <1>k. PICK k : k = lines[t] + 1 /\ k = lines'[t] + 1
    OBVIOUS
  <1>5. pc'[t] = "next" /\ lines'[t] # 0 => Passed(k, s)'
    BY <1>2, <1>k DEF InStep
  <1>6. pc'[t] \in Building => /\ lines'[t] # 0 /\ file'[k] # NoBar
                            /\ Occurs(k, s)' # {} /\ hit'[t] = Found(k, s)'
    BY <1>1, <1>2, <1>k DEF InStep
  <1>7. pc'[t] = "idle" => out'[t] = AsIs(Wanted(s)')
    BY <1>1 DEF InStep
  <1> QED BY <1>k, <1>3, <1>4, <1>5, <1>6, <1>7 DEF InStep

(* A call begins.                                                          *)
LEMMA EnterMapped ==
  ASSUME TInv, Mapped, lib = "dobby", NEW u \in Thread, Enter(u),
         NEW t \in Thread, NEW s \in Text \cup {<<>>}, Relevant(t, s)'
  PROVE  InStep(t, s)'
  <1>1. PICK f \in Function, r \in Text \cup {NULL} : EnterWith(u, f, r)
    BY EnterIs
  <1>2. UNCHANGED given
    BY <1>1 DEF EnterWith
  <1>3. CASE u # t
    <2>1. /\ pc'[t] = pc[t] /\ lines'[t] = lines[t] /\ hit'[t] = hit[t] /\ out'[t] = out[t]
          /\ fn'[t] = fn[t] /\ arg'[t] = arg[t]
      BY <1>1, <1>3 DEF EnterWith, Return, Goto, TInv, TypeOK, Typed
    <2>2. solo'[t] => solo[t] /\ pc[t] = "idle"
      BY <1>1, <1>3 DEF EnterWith, Busy
    <2>3. solo'[t]
      BY DEF Relevant
    <2>4. Relevant(t, s)
      BY <1>2, <2>1, <2>2, ProgressKept
    <2>5. InStep(t, s)
      BY <2>4 DEF Mapped
    <2> QED BY <1>2, <2>1, <2>2, <2>3, <2>5, InStepKept
  <1>4. CASE u = t
    <2>1. arg'[t] = r /\ fn'[t] = f
      BY <1>1, <1>4 DEF EnterWith, TInv, TypeOK, Typed
    <2>2. r = s /\ ~(f = "get" /\ s # <<>> /\ ByteAt(s, 0) = 0)
      BY <2>1 DEF Relevant
    <2>3. s # NULL
      <3>1. <<>> # NULL
        BY DEF NULL
      <3> QED BY <3>1, TextIs
    <2>4. CASE Early(f, s) /\ Return(t, AsIs(s))
      <3>1. s = <<>>
        BY <2>2, <2>4 DEF Early, EarlySetDobby, EarlyGetDobby, Function
      <3>2. out'[t] = AsIs(s) /\ pc'[t] = "idle"
        BY <2>4 DEF Return, Goto, TInv, TypeOK, Typed
      <3>3. Wanted(s)' = s
        BY <1>2, <3>1, MapKept, EmptyWanted
      <3>4. out'[t] = AsIs(Wanted(s)')
        BY <3>2, <3>3
      <3>5. pc'[t] \notin Reading /\ pc'[t] \notin Looping /\ pc'[t] # "next" /\ pc'[t] \notin Building
        BY <3>2 DEF Reading, Looping, Building
      <3> QED BY <3>4, <3>5 DEF InStep
    <2>5. CASE Goto(t, "header")
      <3>1. pc'[t] = "header"
        BY <2>5 DEF Goto, TInv, TypeOK
      <3> QED BY <3>1 DEF InStep, Reading, Looping, Building
    <2> QED BY <1>1, <1>4, <2>2, <2>3, <2>4, <2>5 DEF EnterWith
  <1> QED BY <1>3, <1>4

(* A line of the map, examined by a call alone.                            *)
LEMMA LineMapped ==
  ASSUME TInv, OInv, lib = "dobby", NEW t \in Thread, Line(t),
         NEW s \in Text, Relevant(t, s), InStep(t, s)
  PROVE  InStep(t, s)'
  <1>1. /\ UNCHANGED <<given, fn, lines, out>> /\ pc[t] = "line" /\ arg[t] = s
        /\ p[t] \in Place /\ p[t] # NULL
    BY LineParts DEF local, Relevant, Line
  <1>k. PICK k : k = lines[t] + 1
    OBVIOUS
  <1>2. lines[t] \in Nat /\ Len(file) \in Nat /\ fn[t] \in Function
        /\ middle \in [Function -> Seq(Byte)] /\ hit \in [Thread -> Hit] /\ pc \in [Thread -> Control]
    BY DEF TInv, TypeOK, Typed, Given, Control
  <1>3. p[t][2] = k
    <2>1. p[t] = PlaceOf(t, k)
      BY <1>1, <1>k DEF OInv, OwnLines, Relevant, Looping
    <2> QED BY <1>1, <2>1, PlaceOfIs
  <1>4. Left(t) = LeftOf(k) /\ LeftOf(k) \in Seq(Byte) /\ file[k] # NoBar
    <2>1. Left(t) = LeftOf(k)
      BY <1>3 DEF Left, Unit, LeftOf
    <2> QED BY <1>3, <2>1, LineParts
  <1>5. Mid(t) = Padded(s) /\ middle[fn[t]] = Padded(s)
    <2>1. middle[fn[t]] = Padded(s)
      BY <1>1 DEF InStep, Reading
    <2>2. Unit(t) \in Seq(Byte)
      BY <1>1, LineIs, LineParts, UnicodeIs DEF Unit
    <2>3. Len(Unit(t)) \in Nat
      BY <2>2
    <2>4. s \in Seq(Byte) /\ Len(s) % 2 = 0 /\ tolower_unicode(s, Len(s)) = s
      BY TextIs DEF Relevant, Plain
    <2>5. tolower_unicode(Padded(s), Len(Unit(t))) = Padded(s)
      BY <2>3, <2>4, LowerPadded
    <2> QED BY <2>1, <2>5 DEF Mid
  <1>6. Offsets(t, Mid(t), Left(t)) = Occurs(k, s)
    <2>1. Len(arg[t]) < Split
      BY <1>1 DEF Relevant, Plain
    <2> QED BY <1>1, <1>4, <1>5, <2>1, SearchFinds
  <1>7. \A j : Passed(j, s)' = Passed(j, s) /\ Found(j, s)' = Found(j, s)
    BY <1>1, ProgressKept
  <1>8. file' = file /\ Occurs(k, s)' = Occurs(k, s)
    BY <1>1, MapKept DEF given
  <1>9. \A j \in 2..lines'[t] : Passed(j, s)'
    BY <1>1, <1>7 DEF InStep, Looping
  <1>10. middle'[fn'[t]] = Padded(s)
    <2>1. UNCHANGED middle \/ middle' = [middle EXCEPT ![fn[t]] = Padded(s)]
      BY <1>5, LineParts
    <2> QED BY <1>1, <1>2, <1>5, <2>1
  <1>11. CASE Goto(t, "next") /\ (lines[t] # 0 => Occurs(k, s) = {})
    <2>1. pc'[t] = "next"
      BY <1>2, <1>11 DEF Goto
    <2>2. lines'[t] # 0 => Passed(k, s)'
      BY <1>1, <1>4, <1>7, <1>11 DEF Passed
    <2>3. pc'[t] \notin Building /\ pc'[t] # "idle"
      BY <2>1 DEF Building
    <2>4. k = lines'[t] + 1
      BY <1>1, <1>k
    <2> QED BY <1>9, <1>10, <2>2, <2>3, <2>4 DEF InStep
  <1>12. CASE /\ Goto(t, WhereBuilt) /\ lines[t] # 0 /\ Occurs(k, s) # {}
              /\ hit' = [hit EXCEPT ![t] = Found(k, s)]
    <2>1. pc'[t] = "length"
      BY <1>2, <1>12 DEF Goto, WhereBuilt
    <2>2. hit'[t] = Found(k, s)'
      BY <1>2, <1>7, <1>12
    <2>3. lines'[t] # 0 /\ file'[k] # NoBar
      BY <1>1, <1>4, <1>8, <1>12
    <2>4. k = lines'[t] + 1
      BY <1>1, <1>k
    <2>5. pc'[t] # "next" /\ pc'[t] # "idle"
      BY <2>1
    <2>6. Occurs(k, s)' # {}
      BY <1>8, <1>12
    <2> QED BY <1>1, <1>9, <1>10, <2>2, <2>3, <2>4, <2>5, <2>6 DEF InStep
  <1>13. \/ Goto(t, "next") /\ (lines[t] # 0 => Occurs(k, s) = {})
         \/ /\ Goto(t, WhereBuilt) /\ lines[t] # 0 /\ Occurs(k, s) # {}
            /\ hit' = [hit EXCEPT ![t] = Found(k, s)]
    <2>1. Found(k, s) = [at |-> Min(Offsets(t, Mid(t), Left(t))),
                         left |-> Len(Left(t)), right |-> file[p[t][2]].right]
      BY <1>3, <1>4, <1>6 DEF Found
    <2> QED BY <1>6, <2>1, LineParts, Zenon
  <1> QED BY <1>11, <1>12, <1>13

(* After the last line: nothing was wanted.                                *)
LEMMA NoLineMapped ==
  ASSUME TInv, OInv, NEW t \in Thread, NoLine(t),
         NEW s \in Text, Relevant(t, s), InStep(t, s)
  PROVE  InStep(t, s)'
  <1>1. UNCHANGED given /\ pc[t] = "line" /\ p[t] = NULL /\ arg[t] = s /\ solo[t]
        /\ Return(t, AsIs(s))
    BY DEF NoLine, Relevant
  <1>2. p[t] = PlaceOf(t, lines[t] + 1)
    BY <1>1 DEF OInv, OwnLines, Looping
  <1>3. ~(lines[t] + 1 <= Len(file)) /\ lines[t] \in Nat /\ Len(file) \in Nat
    BY <1>1, <1>2, PlaceOfIs DEF TInv, Typed, Given
  <1>4. \A k \in 2..lines[t] : Occurs(k, s) = {}
    BY <1>1 DEF InStep, Looping, Passed
  <1>5. \A k \in 2..Len(file) : Occurs(k, s) = {}
    BY <1>3, <1>4
  <1>6. Wanted(s)' = s
    BY <1>1, <1>5, NothingWanted, MapKept
  <1>7. out'[t] = AsIs(s) /\ pc'[t] = "idle"
    BY <1>1 DEF Return, Goto, TInv, TypeOK, Typed
  <1>8. out'[t] = AsIs(Wanted(s)')
    BY <1>6, <1>7
  <1>9. pc'[t] \notin Reading /\ pc'[t] \notin Looping /\ pc'[t] # "next" /\ pc'[t] \notin Building
    BY <1>7 DEF Reading, Looping, Building
  <1> QED BY <1>8, <1>9 DEF InStep

(* The new string is the one the map asks for.                             *)
LEMMA BuildMapped ==
  ASSUME TInv, HitFits, OInv, LengthSet, lib = "dobby", NEW t \in Thread, Build(t),
         NEW s \in Text, Relevant(t, s), InStep(t, s)
  PROVE  InStep(t, s)'
  <1>1. UNCHANGED given /\ pc[t] = "build" /\ arg[t] = s /\ solo[t] /\ Return(t, Built(t))
    BY BuildTypes DEF Build, Relevant
  <1>k. PICK k : k = lines[t] + 1
    OBVIOUS
  <1>2. lines[t] \in Nat /\ Len(file) \in Nat /\ lines[t] < Len(file) /\ lines[t] # 0
    BY <1>1 DEF TInv, Typed, Given, OInv, OwnLines, Looping, InStep, Building
  <1>3. k \in 2..Len(file) /\ k - 1 = lines[t]
    BY <1>k, <1>2
  <1>4. file[k] # NoBar /\ Occurs(k, s) # {} /\ hit[t] = Found(k, s)
        /\ \A j \in 2..k - 1 : Passed(j, s)
    BY <1>1, <1>k, <1>3 DEF InStep, Looping, Building
  <1>5. middle[fn[t]] = Padded(s)
    BY <1>1 DEF InStep, Reading
  <1> DEFINE a == Min(Occurs(k, s))
             l == Len(LeftOf(k))
             u == UTF8_to_Unicode(file[k].right)
             n == Len(s)
  <1>6. hit[t].at = a /\ hit[t].left = l /\ hit[t].right = file[k].right
    BY <1>4 DEF Found
  <1>7. a \in Nat /\ l \in Nat /\ a + l <= n /\ n < Split
    <2>1. hit[t] \in Hit
      BY DEF TInv, Typed
    <2>2. hit[t].at + hit[t].left <= n /\ n < Split
      BY <1>1 DEF HitFits, Building
    <2> HIDE DEF a, l, n
    <2> QED BY <1>6, <2>1, <2>2 DEF Hit
  <1>8. s \in Seq(Byte) /\ n \in Nat /\ Split \in Nat
    BY TextIs, TextAssumption
  <1>9. BuiltDobby(t) = SubSeq(Padded(s), 1, a) \o u \o SubSeq(Padded(s), a + l + 1, n)
    <2>1. /\ 0 + 1 = 1 /\ 0 + a = a
          /\ a + l + (n - a - l) = n
      <3> HIDE DEF a, l, n
      <3> QED BY <1>7, <1>8
    <2>2. BuiltDobby(t) = SubSeq(Padded(s), 0 + 1, 0 + a) \o u
                            \o SubSeq(Padded(s), a + l + 1, a + l + (n - a - l))
      BY <1>1, <1>5, <1>6, Zenon DEF BuiltDobby, CopiedFrom, LengthStart, LengthEnd
    <2> HIDE DEF a, l, n, u
    <2> QED BY <2>1, <2>2
  <1>10. SubSeq(Padded(s), 1, a) = SubSeq(s, 1, a)
         /\ SubSeq(Padded(s), a + l + 1, n) = SubSeq(s, a + l + 1, n)
    <2> HIDE DEF a, l
    <2>1. 1 \in Nat \ {0} /\ a + l + 1 \in Nat \ {0} /\ a \in 0..n /\ n \in 0..n /\ n <= Split
      BY <1>7, <1>8
    <2> QED BY <1>8, <2>1, SubSeqPadded, Zenon
  <1>11. Wanted(s) = SubSeq(s, 1, a) \o u \o SubSeq(s, a + l + 1, n)
    BY <1>2, <1>3, <1>4, FirstWanted
  <1>12. Built(t) = AsIs(Wanted(s))
    <2>1. BuiltDobby(t) = Wanted(s)
      BY <1>9, <1>10, <1>11, Zenon
    <2>2. /\ Len(BuiltDobby(t)) = LengthMiddle(t) /\ 2 * header[fn[t]] = LengthMiddle(t)
          /\ header[fn[t]] \in Nat
      BY <1>1, BuiltIs DEF LengthSet, Building, TInv, TypeOK, Typed
    <2>3. header[fn[t]] = Len(BuiltDobby(t)) \div 2
      <3> DEFINE g == header[fn[t]]
      <3>1. g \in Nat /\ Len(BuiltDobby(t)) = 2 * g
        BY <2>2
      <3> HIDE DEF g
      <3>2. (2 * g) \div 2 = g
        BY <3>1
      <3> QED BY <3>1, <3>2 DEF g
    <2>4. Built(t) = [len |-> header[fn[t]], text |-> BuiltDobby(t)]
      BY DEF Built
    <2> QED BY <2>1, <2>3, <2>4, Zenon DEF AsIs
  <1>13. out'[t] = Built(t) /\ pc'[t] = "idle"
    BY <1>1 DEF Return, Goto, TInv, TypeOK, Typed
  <1>14. Wanted(s)' = Wanted(s)
    BY <1>1, MapKept
  <1>15. out'[t] = AsIs(Wanted(s)')
    BY <1>12, <1>13, <1>14
  <1>16. pc'[t] \notin Reading /\ pc'[t] \notin Looping /\ pc'[t] # "next" /\ pc'[t] \notin Building
    BY <1>13 DEF Reading, Looping, Building
  <1> QED BY <1>15, <1>16 DEF InStep

(* The steps before and between the lines.                                 *)
LEMMA OtherMapped ==
  ASSUME TInv, NEW t \in Thread, Step(t), ~Line(t), ~NoLine(t), ~Build(t),
         NEW s \in Text, Relevant(t, s), InStep(t, s)
  PROVE  InStep(t, s)'
  <1>1. UNCHANGED given /\ fn' = fn /\ arg[t] = s
    BY StepFrame DEF local, Relevant
  <1>2. lines[t] \in Nat /\ fn[t] \in Function /\ middle \in [Function -> Seq(Byte)]
        /\ pc \in [Thread -> Control] /\ lines \in [Thread -> Nat]
    BY DEF TInv, TypeOK, Typed, Control
  <1>3. \A j : Passed(j, s)' = Passed(j, s)
    BY <1>1, ProgressKept
  <1>4. CASE CopyHeader(t)
    <2>1. pc'[t] = "middle"
      BY <1>2, <1>4 DEF CopyHeader, Goto
    <2> QED BY <2>1 DEF InStep, Reading, Looping, Building
  <1>5. CASE CopyMiddle(t)
    <2>1. pc'[t] = "first" /\ middle'[fn'[t]] = memccpy(s)
      BY <1>1, <1>2, <1>5 DEF CopyMiddle, Goto
    <2>2. memccpy(s) = Padded(s)
      BY TextIs, CopyWhole DEF Relevant, Plain
    <2> QED BY <2>1, <2>2 DEF InStep, Looping, Building
  <1>6. CASE strtok_first(t)
    <2>1. pc'[t] = "line" /\ middle' = middle /\ lines'[t] = 0 /\ pc[t] = "first"
      BY <1>2, <1>6 DEF strtok_first, Goto, static
    <2>2. middle'[fn'[t]] = Padded(s)
      BY <1>1, <2>1 DEF InStep, Reading
    <2>3. \A k \in 2..lines'[t] : FALSE
      BY <2>1
    <2> QED BY <2>1, <2>2, <2>3 DEF InStep, Building
  <1>7. CASE strtok_next(t)
    <2>1. pc'[t] = "line" /\ middle' = middle /\ lines'[t] = lines[t] + 1 /\ pc[t] = "next"
      BY <1>2, <1>7 DEF strtok_next, Goto, static
    <2>2. middle'[fn'[t]] = Padded(s)
      BY <1>1, <2>1 DEF InStep, Reading
    <2>3. ASSUME NEW k \in 2..lines'[t] PROVE Passed(k, s)
      <3>1. k \in 2..lines[t] \/ (k = lines[t] + 1 /\ lines[t] # 0)
        BY <1>2, <2>1
      <3> QED BY <2>1, <3>1 DEF InStep, Looping
    <2>4. \A k \in 2..lines'[t] : Passed(k, s)'
      BY <1>3, <2>3
    <2> QED BY <2>1, <2>2, <2>4 DEF InStep, Building
  <1>8. CASE UseAfterFree(t) \/ NoBarLine(t)
    <2>1. UNCHANGED <<pc, lines, hit, out, middle>>
      BY <1>8 DEF UseAfterFree, NoBarLine, static
    <2> QED BY <1>1, <2>1, InStepKept
  <1>9. CASE SetLength(t)
    <2>1. pc'[t] = "build" /\ pc[t] = "length" /\ UNCHANGED <<middle, lines, hit>>
      BY <1>2, <1>9 DEF SetLength, Goto
    <2>2. middle'[fn'[t]] = Padded(s) /\ \A k \in 2..lines'[t] : Passed(k, s)'
      BY <1>1, <1>3, <2>1 DEF InStep, Reading, Looping
    <2>k. PICK k : k = lines[t] + 1 /\ k = lines'[t] + 1
      BY <2>1
    <2>3. file' = file /\ Occurs(k, s)' = Occurs(k, s) /\ Found(k, s)' = Found(k, s)
      BY <1>1, MapKept, ProgressKept DEF given
    <2>4. /\ lines[t] # 0 /\ file[k] # NoBar
          /\ Occurs(k, s) # {} /\ hit[t] = Found(k, s)
      BY <2>1, <2>k DEF InStep, Building
    <2>5. lines'[t] # 0 /\ file'[k] # NoBar /\ Occurs(k, s)' # {} /\ hit'[t] = Found(k, s)'
      BY <2>1, <2>3, <2>4
    <2>6. pc'[t] # "next" /\ pc'[t] # "idle"
      BY <2>1
    <2> QED BY <2>2, <2>5, <2>6, <2>k DEF InStep
  <1> QED BY <1>4, <1>5, <1>6, <1>7, <1>8, <1>9 DEF Step

(* Every step keeps a call alone on the way to what the map wants.         *)
LEMMA MappedStep ==
  ASSUME TInv, HitFits, OInv, LengthSet, Mapped, [Next]_vars
  PROVE  Mapped'
  <1>1. UNCHANGED given
    BY StepFrame, EnterIs DEF Next, vars, given, EnterWith
  <1> SUFFICES ASSUME lib = "dobby", NEW t \in Thread, NEW s \in Text \cup {<<>>}, Relevant(t, s)'
               PROVE  InStep(t, s)'
    BY <1>1 DEF Mapped, given
  <1>2. ASSUME NEW u \in Thread, Enter(u) PROVE InStep(t, s)'
    BY <1>2, EnterMapped
  <1>3. ASSUME NEW u \in Thread, Step(u) PROVE InStep(t, s)'
    <2>1. /\ UNCHANGED <<fn, arg, solo>> /\ pc[u] # "idle"
          /\ \A v \in Thread \ {u} : /\ pc'[v] = pc[v] /\ lines'[v] = lines[v]
                                     /\ hit'[v] = hit[v] /\ out'[v] = out[v]
      BY <1>3, StepFrame DEF local
    <2>2. Relevant(t, s)
      BY <1>1, <2>1, ProgressKept
    <2>3. InStep(t, s)
      BY <2>2 DEF Mapped
    <2>4. CASE u # t
      <3>1. pc[t] = "idle"
        BY <2>1, <2>2, <2>4 DEF OInv, Alone, Relevant
      <3> QED BY <1>1, <2>1, <2>3, <2>4, <3>1, InStepKept
    <2>5. CASE u = t
      <3>1. s \in Text
        BY <2>1, <2>2, <2>5 DEF Relevant, TInv, Typed
      <3> QED BY <1>3, <2>2, <2>3, <2>5, <3>1, LineMapped, NoLineMapped, BuildMapped, OtherMapped
    <2> QED BY <2>4, <2>5
  <1>4. CASE UNCHANGED vars
    <2>1. UNCHANGED <<pc, fn, arg, solo, lines, hit, out, middle>>
      BY <1>4 DEF vars
    <2>2. Relevant(t, s)
      BY <1>1, <2>1, ProgressKept
    <2> QED BY <1>1, <2>1, <2>2, InStepKept DEF Mapped
  <1> QED BY <1>2, <1>3, <1>4 DEF Next

(* The text: a call of the dobby build that no other overlapped hands on   *)
(* the game's string as the map wants it, for any strings, map files and   *)
(* buffer size, whatever calls came before through the same buffers.       *)
THEOREM TextReplacedAsMapped == Spec => []ReplacedAsMapped
  <1>1. Init => Mapped
    BY MappedInit
  <1>2. Mapped /\ TInv /\ HitFits /\ OInv /\ LengthSet /\ [Next]_vars => Mapped'
    BY MappedStep
  <1>3. TInv /\ Mapped => ReplacedAsMapped
    <2> SUFFICES ASSUME TInv, Mapped, NEW t \in Thread, lib = "dobby", Ended(t), Plain(arg[t]),
                        ~TakenForEmpty(t)
                 PROVE  out[t] = AsIs(Wanted(arg[t]))
      BY DEF ReplacedAsMapped
    <2>1. arg[t] \in Text \cup {<<>>}
      BY DEF TInv, Typed, Ended
    <2>2. Relevant(t, arg[t])
      BY DEF Relevant, Ended, TakenForEmpty
    <2> QED BY <2>1, <2>2 DEF Mapped, InStep, Ended
  <1> QED BY <1>1, <1>2, <1>3, TextTypes, AloneOwns, HeadersKept, PTL DEF Spec

=============================================================================
