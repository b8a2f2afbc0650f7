--------------------------- MODULE InjectorProofs ---------------------------
(***************************************************************************)
(* Proofs about Injector, for any number of threads and classes, wherever  *)
(* libil2cpp is mapped.                                                    *)
(***************************************************************************)
EXTENDS Injector, TLAPS

(* While the map is being read nothing is hooked and no other thread is in *)
(* the library; without a map nothing ever is.                             *)
Starting ==
  /\ \A th \in Thread : pc[th] \in {"read", "init"} =>
       entry = {} /\ \A u \in Thread \ {th} : pc[u] = "idle"
  /\ buffer = "none" => entry = {} /\ \A th \in Thread : pc[th] \in {"read", "idle"}

(* An address that was found, however often the base was subtracted from   *)
(* it, is never a multiple of the base: it is not NULL, and does not make  *)
(* base + address NULL either.                                             *)
Inside(a) == \E k \in Int, o \in 1 .. Base - 1 : a = k * Base + o
AddressesInside ==
  /\ aget = 0 \/ Inside(aget)
  /\ aset = 0 \/ Inside(aset)
  /\ \A th \in Thread : /\ pc[th] = "subGet" => aget # 0
                        /\ pc[th] \in {"subGet", "subSet"} => aset # 0

(* A thread that enumerates has a class.                                   *)
Enumerating == {"fetch", "test", "subGet", "subSet", "got"}
HasClass == \A th \in Thread : pc[th] \in Enumerating => cls[th] \in Class

(* A hook under way has its function, and in the dobby build its entry and *)
(* the pointer to the original before the patch.                           *)
HookReady ==
  /\ \A th \in Thread, r \in Repl :
       /\ pc[th] \in {RouteOf[r], CommitOf[r]} => tgt[th] # 0
       /\ pc[th] = CommitOf[r] /\ lib = "dobby" => old[r] # 0 /\ <<r, tgt[th]>> \in entry
  /\ \A h \in patched : old[h[1]] # 0

Shape == TypeOK /\ Starting /\ AddressesInside /\ HasClass /\ HookReady

-----------------------------------------------------------------------------
(* What holds until libil2cpp is opened twice or two threads enumerate at  *)
(* once.  One thread at most is at work:                                   *)
Quiet == {"idle", "leave"}
Active(th) == pc[th] \notin Quiet
Solo == \A th, u \in Thread : Active(th) /\ Active(u) => th = u

Only(r, a) == \A h \in entry : h[1] = r => h[2] = a
Without(R) == \A h \in entry : h[1] \notin R
Text == {"get", "set"}
FromFile == /\ aget \in {0, GetOff(1)} /\ aset \in {0, SetOff(1)}
            /\ aset # 0 => aget # 0

(* the class whose text functions a thread hooks: the one it enumerates,   *)
(* or the one of the map file,                                             *)
ClassOf(th) == IF cls[th] = 0 THEN 1 ELSE cls[th]
OfClass(c) == Only("get", Base + GetOff(c)) /\ Only("set", Base + SetOff(c))

(* and what it finds where it is: before dlopen is hooked,                 *)
AtDlopen(th) ==
  /\ pc[th] \in {"read", "init", "find", "dlopen", "dlopenR"} => entry = {}
  /\ pc[th] \in {"read", "init", "find", "dlopen", "dlopenR", "dlopenC"} =>
       /\ Without(Text \cup {"methods"}) /\ Only("dlopen", DlopenAt)
       /\ patched = {} /\ ~got /\ ~handle /\ "opened" \notin hist /\ FromFile /\ cls[th] = 0
  /\ pc[th] \in {"dlopenR", "dlopenC"} => tgt[th] = DlopenAt
  /\ pc[th] = "dlopenC" /\ lib = "dobby" => old["dlopen"] = DlopenAt

(* when libil2cpp has been opened, on the way to the hook of its methods,  *)
AtMethods(th) ==
  /\ pc[th] \in {"opened", "methods", "methodsR", "methodsC"} =>
       /\ Without(Text) /\ FromFile /\ ~got /\ cls[th] = 0
       /\ handle => base = Base /\ "opened" \in hist
       /\ ~MethodsHooked
  /\ pc[th] \in {"opened", "methods", "methodsR"} => Without({"methods"})
  /\ pc[th] = "opened" => "opened" \in hist
  /\ pc[th] \in {"methods", "methodsR", "methodsC"} => aget = 0 /\ aset = 0
  /\ pc[th] \in {"methodsR", "methodsC"} => tgt[th] = MethodsAt /\ handle
  /\ pc[th] = "methodsC" /\ lib = "dobby" => old["methods"] = MethodsAt

(* in hook_get_set,                                                        *)
HookingText == {"get", "getR", "getC", "set", "setR", "setC"}
AtText(th) ==
  /\ pc[th] \in HookingText =>
       /\ aget = GetOff(ClassOf(th)) /\ aset \in {0, SetOff(ClassOf(th))}
       /\ OfClass(ClassOf(th)) /\ ~got
       /\ cls[th] = 0 => Without({"methods"})
       /\ cls[th] # 0 => base = Base /\ aset # 0 /\ kind[th] = "set" /\ "opened" \in hist
  /\ pc[th] \in {"get", "getR"} => Without(Text)
  /\ pc[th] \in {"getC", "set", "setR"} => Without({"set"})
  /\ pc[th] \in {"getR", "getC"} => tgt[th] = Base + GetOff(ClassOf(th))
  /\ pc[th] \in {"setR", "setC"} => tgt[th] = Base + SetOff(ClassOf(th))
  /\ pc[th] = "getC" /\ lib = "dobby" => old["get"] = tgt[th]
  /\ pc[th] = "setC" /\ lib = "dobby" => old["set"] = tgt[th]

(* and in new_func_get_methods.                                            *)
AtClass(th) ==
  /\ pc[th] \in Enumerating => base = Base /\ "opened" \in hist
  /\ pc[th] \in {"fetch", "test"} /\ got => \E c \in Class : OfClass(c)
  /\ pc[th] \in {"fetch", "test"} /\ ~got =>
       /\ Without(Text)
       /\ aget = IF pc[th] = "fetch" /\ kind[th] = "get" THEN 0 ELSE Base + GetOff(cls[th])
       /\ aset = IF pc[th] = "fetch" \/ kind[th] = "get" THEN 0 ELSE Base + SetOff(cls[th])
  /\ pc[th] \in {"subGet", "subSet"} =>
       /\ Without(Text) /\ ~got /\ kind[th] = "set"
       /\ aget = IF pc[th] = "subGet" THEN Base + GetOff(cls[th]) ELSE GetOff(cls[th])
       /\ aset = Base + SetOff(cls[th])
  /\ pc[th] = "got" => OfClass(cls[th]) /\ kind[th] = "set"

(* dlopen's hook and the methods' are entered only by a thread that finds  *)
(* no other at work,                                                       *)
Entering(th) ==
  /\ DlopenHooked => "opened" \in hist
  /\ MethodsHooked => cls[th] # 0
Doing(th) == AtDlopen(th) /\ AtMethods(th) /\ AtText(th) /\ AtClass(th) /\ Entering(th)

(* and when none is at work the next finds what it needs.                  *)
Resting ==
  /\ \E c \in Class : OfClass(c)
  /\ MethodsHooked => /\ "opened" \in hist /\ base = Base
                      /\ got \/ (Without(Text) /\ aget = 0 /\ aset = 0)
  /\ DlopenHooked /\ "opened" \notin hist => Without(Text \cup {"methods"}) /\ FromFile /\ ~got

OriginalKept == \A h \in patched : old[h[1]] = h[2]
OnlyThese == Only("dlopen", DlopenAt) /\ Only("methods", MethodsAt)

Calm ==
  /\ Solo /\ OriginalKept /\ OnlyThese
  /\ \A th \in Thread : Active(th) => Doing(th)
  /\ (\A th \in Thread : ~Active(th)) => Resting

IInv == Shape /\ (Disturbed \/ Calm)

-----------------------------------------------------------------------------
(* Arithmetic of addresses: an offset of the library is inside it, and     *)
(* stays so when the base is added or subtracted.                          *)
LEMMA OffsetInside ==
  ASSUME NEW c \in Class
  PROVE  /\ GetOff(c) \in 1 .. Base - 1 /\ SetOff(c) \in 1 .. Base - 1
         /\ Inside(GetOff(c)) /\ Inside(SetOff(c))
         /\ Inside(Base + GetOff(c)) /\ Inside(Base + SetOff(c))
  <1>1. GetOff(c) \in 1 .. Base - 1 /\ SetOff(c) \in 1 .. Base - 1
    BY InjectorAssumption DEF GetOff, SetOff
  <1>2. ASSUME NEW o \in 1 .. Base - 1
        PROVE  Inside(o) /\ Inside(Base + o)
    <2>1. Base \in Int /\ o = 0 * Base + o /\ Base + o = 1 * Base + o
      BY InjectorAssumption
    <2> QED BY <2>1 DEF Inside
  <1> QED BY <1>1, <1>2

(* A displaced address taken back by the base is inside the library's file *)
(* and not a null pointer.                                                 *)
LEMMA InsideMinus ==
  ASSUME NEW a \in Int, Inside(a)
  PROVE  Inside(a - Base) /\ a # 0 /\ Base + a # 0 /\ a - Base \in Int
  <1>1. PICK k \in Int, o \in 1 .. Base - 1 : a = k * Base + o
    BY DEF Inside
  <1>2. Base \in Nat /\ Base > 0 /\ o \in Int /\ o > 0 /\ o < Base
    BY InjectorAssumption DEF DlopenAt
  <1>3. a - Base = (k - 1) * Base + o
    BY <1>1, <1>2, SMT
  <1>4. ASSUME NEW j \in Int PROVE j * Base + o # 0
    <2>1. CASE j >= 0
      <3>1. j * Base >= 0 /\ j * Base \in Int
        BY <2>1, <1>2, SMT
      <3> QED BY <3>1, <1>2
    <2>2. CASE j < 0
      <3>1. j * Base <= -Base /\ j * Base \in Int
        BY <2>2, <1>2, SMT
      <3> QED BY <3>1, <1>2
    <2> QED BY <2>1, <2>2
  <1>5. Base + a = (k + 1) * Base + o
    BY <1>1, <1>2, SMT
  <1>6. Inside(a - Base)
    BY <1>3, <1>2 DEF Inside
  <1> QED BY <1>1, <1>2, <1>4, <1>5, <1>6

(* The addresses of the two other functions that are hooked.               *)
LEMMA OtherAddresses == DlopenAt \in Nat \ {0} /\ MethodsAt \in Nat \ {0}
  BY InjectorAssumption DEF DlopenAt, MethodsAt

(* The initial states.                                                     *)
LEMMA InitShape == Init => Shape
  <1> SUFFICES ASSUME Init PROVE Shape
    OBVIOUS
  <1> USE InjectorAssumption DEF Init, NoOld, AtStart, None, GetFirst
  <1>1. TypeOK
    <2>1. pc \in [Thread -> Label] /\ tgt \in [Thread -> Int] /\ old \in [Repl -> Int]
      BY DEF Label
    <2>2. cls \in [Thread -> Class \cup {0}] /\ kind \in [Thread -> {"get", "set"}]
      OBVIOUS
    <2>3. alive \in BOOLEAN /\ loaded \in BOOLEAN /\ handle \in BOOLEAN /\ got \in BOOLEAN
      OBVIOUS
    <2>4. aget \in Int /\ aset \in Int /\ base \in {0, Base} /\ hist \subseteq Event
      OBVIOUS
    <2> QED BY <2>1, <2>2, <2>3, <2>4 DEF TypeOK
  <1>2. Starting
    BY DEF Starting
  <1>3. AddressesInside /\ HasClass
    BY DEF AddressesInside, HasClass, Enumerating
  <1>4. HookReady
    BY DEF HookReady, RouteOf, CommitOf, Repl
  <1> QED BY <1>1, <1>2, <1>3, <1>4 DEF Shape

-----------------------------------------------------------------------------
(* The four hooks alike, in either build: the thread dies, or passes on,   *)
(* or has an address to hook and is on its way to do so.                   *)
AddressOf(r, a) ==
  /\ r = "dlopen" => a = DlopenAt
  /\ r = "methods" => a = MethodsAt /\ handle
  /\ r = "get" => base # 0 /\ aget # 0 /\ a = base + aget
  /\ r = "set" => base # 0 /\ aset # 0 /\ a = base + aset

HookOf(th, r) ==
  /\ At(th, r)
  /\ \/ alive' = FALSE /\ UNCHANGED <<pc, tgt>>
     \/ UNCHANGED <<alive, tgt>> /\ Goto(th, After(th, r))
     \/ \E a \in Int : /\ AddressOf(r, a) /\ tgt' = [tgt EXCEPT ![th] = a] /\ UNCHANGED alive
                       /\ Goto(th, RouteOf[r]) \/ (lib = "inline" /\ Goto(th, CommitOf[r]))
  /\ hist' \in {hist, hist \cup {"missed"}}
  /\ UNCHANGED <<lib, file, loaded, buffer, address, entry, patched, old, iter>>

HookAction(th) ==
  \/ hook_dlopen(th) \/ hook_dlopen_inline(th) \/ hook_get_methods(th)
  \/ hook_get_methods_inline(th) \/ hook_get(th) \/ hook_set(th)

(* Each of the injector's hook calls is HookOf one of the replacements.    *)
LEMMA HookCases ==
  ASSUME TypeOK, NEW th \in Thread, HookAction(th)
  PROVE  \E r \in Repl : HookOf(th, r)
  <1> USE DEF HookOf, At, address, dobby, iter
  <1>1. Base \in Int /\ base \in Int /\ aget \in Int /\ aset \in Int /\ lib \in {"dobby", "inline"}
    BY InjectorAssumption DEF TypeOK
  <1>2. DlopenAt \in Int /\ MethodsAt \in Int
    BY OtherAddresses
  <1>3. ASSUME NEW r \in Repl, NEW a \in Int, AddressOf(r, a), alive,
               DobbyHook(th, r, a) \/ (lib = "inline" /\ registerInlineHook(th, r, a))
        PROVE  \/ alive' = FALSE /\ UNCHANGED <<pc, tgt>>
               \/ UNCHANGED <<alive, tgt>> /\ Goto(th, After(th, r))
               \/ \E b \in Int :
                    /\ AddressOf(r, b) /\ tgt' = [tgt EXCEPT ![th] = b] /\ UNCHANGED alive
                    /\ Goto(th, RouteOf[r]) \/ (lib = "inline" /\ Goto(th, CommitOf[r]))
    <2>1. CASE DobbyHook(th, r, a)
      BY <1>3, <2>1 DEF DobbyHook, Die
    <2>2. CASE lib = "inline" /\ registerInlineHook(th, r, a)
      BY <1>3, <2>2 DEF registerInlineHook
    <2> QED BY <1>3, <2>1, <2>2
  <1>4. CASE hook_dlopen(th) \/ hook_dlopen_inline(th)
    <2>1. "dlopen" \in Repl /\ AddressOf("dlopen", DlopenAt)
      BY DEF Repl, AddressOf
    <2>2. HookOf(th, "dlopen")
      BY <1>2, <1>3, <1>4, <2>1 DEF hook_dlopen, hook_dlopen_inline
    <2> QED BY <2>1, <2>2
  <1>5. CASE hook_get_methods(th) \/ hook_get_methods_inline(th)
    <2>1. "methods" \in Repl /\ (handle => AddressOf("methods", MethodsAt))
      BY DEF Repl, AddressOf
    <2>2. HookOf(th, "methods")
      <3>1. CASE handle
        BY <1>2, <1>3, <1>5, <2>1, <3>1 DEF hook_get_methods, hook_get_methods_inline
      <3>2. CASE ~handle
        BY <1>5, <3>2 DEF hook_get_methods, hook_get_methods_inline, Die
      <3> QED BY <3>1, <3>2
    <2> QED BY <2>1, <2>2
  <1>6. CASE hook_get(th)
    <2>1. "get" \in Repl /\ (base # 0 /\ aget # 0 => AddressOf("get", base + aget))
      BY DEF Repl, AddressOf
    <2>2. HookOf(th, "get")
      <3>1. CASE base # 0 /\ aget # 0
        <4> DEFINE a == base + aget
        <4>1. a \in Int /\ AddressOf("get", a) /\ alive
          BY <1>1, <1>6, <2>1, <3>1 DEF hook_get
        <4>2. DobbyHook(th, "get", a) \/ (lib = "inline" /\ registerInlineHook(th, "get", a))
          BY <1>1, <1>6, <3>1 DEF hook_get, Hook
        <4> HIDE DEF a
        <4> QED BY <1>3, <1>6, <2>1, <4>1, <4>2 DEF hook_get
      <3>2. CASE ~(base # 0 /\ aget # 0)
        BY <1>6, <3>2 DEF hook_get
      <3> QED BY <3>1, <3>2
    <2> QED BY <2>1, <2>2
  <1>7. CASE hook_set(th)
    <2>1. "set" \in Repl /\ (base # 0 /\ aset # 0 => AddressOf("set", base + aset))
      BY DEF Repl, AddressOf
    <2>2. HookOf(th, "set")
      <3>1. CASE base # 0 /\ aset # 0
        <4> DEFINE a == base + aset
        <4>1. a \in Int /\ AddressOf("set", a) /\ alive
          BY <1>1, <1>7, <2>1, <3>1 DEF hook_set
        <4>2. DobbyHook(th, "set", a) \/ (lib = "inline" /\ registerInlineHook(th, "set", a))
          BY <1>1, <1>7, <3>1 DEF hook_set, Hook
        <4> HIDE DEF a
        <4> QED BY <1>3, <1>7, <2>1, <4>1, <4>2 DEF hook_set
      <3>2. CASE ~(base # 0 /\ aset # 0)
        BY <1>7, <3>2 DEF hook_set
      <3> QED BY <3>1, <3>2
    <2> QED BY <2>1, <2>2
  <1> QED BY <1>4, <1>5, <1>6, <1>7 DEF HookAction

(* Where threads go when a hook is done, or a method was looked at.        *)
LEMMA AfterCases ==
  ASSUME TypeOK, NEW th \in Thread, NEW r \in Repl
  PROVE  /\ After(th, r) \in {"set", "idle", "leave", "got"}
         /\ After(th, r) = "set" <=> r = "get"
         /\ After(th, r) = "got" <=> r = "set" /\ cls[th] # 0
         /\ After(th, r) = "idle" => r \in {"dlopen", "methods"} \/ cls[th] = 0
  BY DEF After, Out, Repl, TypeOK

(* The steps of a hook call are labels a thread can be at.                 *)
LEMMA RouteLabels ==
  ASSUME NEW r \in Repl
  PROVE  RouteOf[r] \in Label /\ CommitOf[r] \in Label
  BY DEF RouteOf, CommitOf, Repl, Label

-----------------------------------------------------------------------------
(* A step of a thread is one of these.                                     *)
ThreadStep(th) ==
  \/ readFile(th) \/ readFileFails(th) \/ init_address_from_file(th) \/ JNI_OnLoad(th)
  \/ \E r \in Repl : \/ HookOf(th, r) \/ Dispatch(th, r) \/ Commit(th, r)
                     \/ Registered(th, r) \/ inlineHook(th, r)
  \/ OpenRouted(th) \/ Leave(th)
  \/ new_func_get_methods(th) \/ TestPair(th)
  \/ SubtractGet(th) \/ SubtractSet(th) \/ MarkGot(th)
  \/ PlainOpen(th) \/ new_func_dlopen(th) \/ UnhookDlopen(th)
  \/ \E c \in Class : Enumerate(th, c)

(* A step is one of a thread, the file appearing or the process restarting. *)
LEMMA NextCases ==
  ASSUME TypeOK, [Next]_vars
  PROVE  (\E th \in Thread : ThreadStep(th)) \/ WriteFile \/ Restart \/ UNCHANGED vars
  <1>1. ASSUME NEW th \in Thread, Step(th) PROVE ThreadStep(th)
    BY <1>1, HookCases DEF Step, HookAction, ThreadStep
  <1> QED BY <1>1 DEF Next, ThreadStep

(* Types are kept.                                                         *)
LEMMA ThreadTypes ==
  ASSUME TypeOK, HookReady, NEW th \in Thread, ThreadStep(th)
  PROVE  TypeOK'
  <1> USE DEF At, Goto, address, dobby, iter
  <1>1. pc \in [Thread -> Label] /\ cls \in [Thread -> Class \cup {0}] /\ kind \in [Thread -> {"get", "set"}]
    BY DEF TypeOK
  <1>a. \A r \in Repl : After(th, r) \in Label
    BY AfterCases DEF Label
  <1>2. ASSUME readFile(th) PROVE TypeOK'
    BY <1>2, InjectorAssumption DEF TypeOK, readFile, Label, Event
  <1>3. ASSUME readFileFails(th) PROVE TypeOK'
    BY <1>3, InjectorAssumption DEF TypeOK, readFileFails, Label, Event
  <1>4. ASSUME init_address_from_file(th) PROVE TypeOK'
    <2>1. FirstLine(buffer).get \in Int /\ FirstLine(buffer).set \in Int
      BY DEF FirstLine, GetOff, SetOff
    <2>2. Initialised \in Label
      BY DEF Initialised, Label
    <2>3. aget' \in Int /\ aset' \in Int /\ alive' \in BOOLEAN /\ pc' \in [Thread -> Label]
      <3>1. CASE buffer = "noBar"
        BY <1>4, <3>1 DEF TypeOK, init_address_from_file, Die
      <3>2. CASE buffer # "noBar"
        BY <1>4, <2>1, <2>2, <3>2 DEF TypeOK, init_address_from_file
      <3> QED BY <3>1, <3>2
    <2>4. UNCHANGED <<lib, file, loaded, buffer, base, handle, got, dobby, iter, hist>>
      BY <1>4 DEF init_address_from_file
    <2> HIDE DEF At, Goto
    <2> QED BY ONLY TypeOK, <2>3, <2>4 DEF TypeOK, dobby, iter
  <1>5. ASSUME JNI_OnLoad(th) PROVE TypeOK'
    BY <1>5, InjectorAssumption DEF TypeOK, JNI_OnLoad, FoundBase, ByAddress, Label, Event
  <1>6. ASSUME NEW r \in Repl, HookOf(th, r) PROVE TypeOK'
    <2>1. pc' \in [Thread -> Label] /\ tgt' \in [Thread -> Int] /\ alive' \in BOOLEAN
      <3>a. RouteOf[r] \in Label /\ CommitOf[r] \in Label /\ After(th, r) \in Label
        BY <1>a, RouteLabels
      <3>b. pc \in [Thread -> Label] /\ tgt \in [Thread -> Int] /\ alive \in BOOLEAN
        BY DEF TypeOK
      <3>1. CASE alive' = FALSE /\ UNCHANGED <<pc, tgt>>
        BY <3>1, <3>b
      <3>2. CASE UNCHANGED <<alive, tgt>> /\ Goto(th, After(th, r))
        BY <3>2, <3>a, <3>b
      <3>3. ASSUME NEW a \in Int, AddressOf(r, a), tgt' = [tgt EXCEPT ![th] = a], UNCHANGED alive,
                   Goto(th, RouteOf[r]) \/ (lib = "inline" /\ Goto(th, CommitOf[r]))
            PROVE  pc' \in [Thread -> Label] /\ tgt' \in [Thread -> Int] /\ alive' \in BOOLEAN
        BY <3>3, <3>a, <3>b
      <3> QED BY <1>6, <3>1, <3>2, <3>3 DEF HookOf
    <2>2. hist' \subseteq Event
      BY <1>6 DEF TypeOK, HookOf, Event
    <2>3. UNCHANGED <<lib, file, loaded, buffer, address, entry, patched, old, iter>>
      BY <1>6 DEF HookOf
    <2> QED BY <2>1, <2>2, <2>3 DEF TypeOK
  <1>7. ASSUME NEW r \in Repl, Dispatch(th, r) PROVE TypeOK'
    BY <1>7, RouteLabels, InjectorAssumption DEF TypeOK, Dispatch, Original, SelfCall, Label, Event
  <1>8. ASSUME NEW r \in Repl, Commit(th, r) PROVE TypeOK'
    <2>1. <<r, tgt[th]>> \in entry
      BY <1>8 DEF HookReady, Commit
    <2> QED BY <1>8, <1>a, <2>1 DEF TypeOK, Commit
  <1>9. ASSUME NEW r \in Repl, Registered(th, r) PROVE TypeOK'
    BY <1>9, RouteLabels, InjectorAssumption DEF TypeOK, Registered, Label, Event
  <1>10. ASSUME NEW r \in Repl, inlineHook(th, r) PROVE TypeOK'
    BY <1>10, <1>a, RouteLabels, InjectorAssumption DEF TypeOK, inlineHook, Label, Event
  <1>11. ASSUME OpenRouted(th) PROVE TypeOK'
    BY <1>11, InjectorAssumption DEF TypeOK, OpenRouted, ByAddress, Label, Event
  <1>12. ASSUME Leave(th) PROVE TypeOK'
    BY <1>12, InjectorAssumption DEF TypeOK, Leave, Die, Label, Event
  <1>13. ASSUME new_func_get_methods(th) PROVE TypeOK'
    BY <1>13, InjectorAssumption DEF TypeOK, new_func_get_methods, Label, Event
  <1>14. ASSUME TestPair(th) PROVE TypeOK'
    BY <1>14, InjectorAssumption DEF TypeOK, TestPair, Advance, Label, Event
  <1>15. ASSUME SubtractGet(th) PROVE TypeOK'
    BY <1>15, InjectorAssumption DEF TypeOK, SubtractGet, Label, Event
  <1>16. ASSUME SubtractSet(th) PROVE TypeOK'
    BY <1>16, InjectorAssumption DEF TypeOK, SubtractSet, Label, Event
  <1>17. ASSUME MarkGot(th) PROVE TypeOK'
    BY <1>17, InjectorAssumption DEF TypeOK, MarkGot, Advance, Label, Event
  <1>18. ASSUME PlainOpen(th) PROVE TypeOK'
    BY <1>18, InjectorAssumption DEF TypeOK, PlainOpen, Label, Event
  <1>19. ASSUME new_func_dlopen(th) PROVE TypeOK'
    BY <1>19, InjectorAssumption DEF TypeOK, new_func_dlopen, Label, Event
  <1>20. ASSUME UnhookDlopen(th) PROVE TypeOK'
    BY <1>20, InjectorAssumption DEF TypeOK, UnhookDlopen, Label, Event
  <1>21. ASSUME NEW c \in Class, Enumerate(th, c) PROVE TypeOK'
    BY <1>21, InjectorAssumption DEF TypeOK, Enumerate, Label, Event
  <1> QED BY <1>2, <1>3, <1>4, <1>5, <1>6, <1>7, <1>8, <1>9, <1>10, <1>11, <1>12, <1>13, <1>14, <1>15, <1>16, <1>17, <1>18, <1>19, <1>20, <1>21 DEF ThreadStep

-----------------------------------------------------------------------------
(* All threads but the one that moves stay where they are.  One that is    *)
(* past the map, or is called through a hook, leaves the map as it is and  *)
(* does not go back.                                                       *)
Onward(th) ==
  /\ pc[th] \notin {"read", "init", "idle"} \/ entry # {}
  /\ buffer' = buffer
  /\ pc' = pc \/ \E l \in Label \ {"read", "init"} : pc' = [pc EXCEPT ![th] = l]

(* Every step but those of JNI_OnLoad's start is of this kind.             *)
LEMMA StepsOnward ==
  ASSUME TypeOK, NEW th \in Thread, ThreadStep(th)
  PROVE  readFile(th) \/ readFileFails(th) \/ init_address_from_file(th) \/ PlainOpen(th) \/ Onward(th)
  <1> USE DEF At, Goto, address, dobby, iter, Onward
  <1>1. \A r \in Repl : {After(th, r), RouteOf[r], CommitOf[r]} \subseteq Label \ {"read", "init"}
    BY AfterCases, RouteLabels DEF Label, RouteOf, CommitOf, Repl
  <1>2. \A r \in Repl : {r, RouteOf[r], CommitOf[r]} \cap {"read", "init", "idle"} = {}
    BY DEF RouteOf, CommitOf, Repl
  <1>3. patched # {} => entry # {}
    BY DEF TypeOK
  <1>4. CASE JNI_OnLoad(th) \/ OpenRouted(th)
    BY <1>4 DEF JNI_OnLoad, OpenRouted, ByAddress, Label
  <1>5. ASSUME NEW r \in Repl, HookOf(th, r) PROVE Onward(th)
    BY <1>5, <1>1, <1>2 DEF HookOf
  <1>6. ASSUME NEW r \in Repl,
               Dispatch(th, r) \/ Commit(th, r) \/ Registered(th, r) \/ inlineHook(th, r)
        PROVE  Onward(th)
    BY <1>6, <1>1, <1>2 DEF Dispatch, Commit, Registered, inlineHook
  <1>7. CASE Leave(th)
    BY <1>7 DEF Leave, Label
  <1>8. CASE new_func_get_methods(th) \/ SubtractGet(th) \/ SubtractSet(th)
    BY <1>8 DEF new_func_get_methods, SubtractGet, SubtractSet, Label
  <1>9. CASE TestPair(th) \/ MarkGot(th)
    <2>1. /\ pc[th] \in {"test", "got"} /\ buffer' = buffer
          /\ \E l \in {"subGet", "fetch", "idle"} : pc' = [pc EXCEPT ![th] = l]
      BY <1>9 DEF TestPair, MarkGot, Advance
    <2> QED BY <2>1 DEF Label
  <1>10. CASE new_func_dlopen(th) \/ UnhookDlopen(th)
    BY <1>10, <1>3 DEF new_func_dlopen, UnhookDlopen, DlopenHooked, Label
  <1>11. ASSUME NEW c \in Class, Enumerate(th, c) PROVE Onward(th)
    BY <1>11, <1>3 DEF Enumerate, MethodsHooked, Label
  <1> QED BY <1>4, <1>5, <1>6, <1>7, <1>8, <1>9, <1>10, <1>11 DEF ThreadStep

(* Only JNI_OnLoad's thread is in the library while the map is read.       *)
LEMMA KeepStarting ==
  ASSUME TypeOK, Starting, NEW th \in Thread, ThreadStep(th)
  PROVE  Starting'
  <1> USE DEF At, Goto, address, dobby, iter
  <1>1. pc \in [Thread -> Label]
    BY DEF TypeOK
  <1>2. CASE readFile(th)
    <2>1. /\ pc[th] = "read" /\ pc' = [pc EXCEPT ![th] = "init"] /\ entry' = entry
          /\ buffer' # "none"
      BY <1>2 DEF readFile
    <2>2. entry = {} /\ \A u \in Thread \ {th} : pc[u] = "idle"
      BY <2>1 DEF Starting
    <2> QED BY <1>1, <2>1, <2>2 DEF Starting
  <1>3. CASE readFileFails(th)
    <2>1. /\ pc[th] = "read" /\ pc' = [pc EXCEPT ![th] = "idle"] /\ entry' = entry
          /\ buffer' = buffer
      BY <1>3 DEF readFileFails
    <2>2. entry = {} /\ \A u \in Thread \ {th} : pc[u] = "idle"
      BY <2>1 DEF Starting
    <2> QED BY <1>1, <2>1, <2>2 DEF Starting
  <1>4. CASE init_address_from_file(th)
    <2>1. /\ pc[th] = "init" /\ (pc' = pc \/ pc' = [pc EXCEPT ![th] = Initialised]) /\ entry' = entry
          /\ buffer' = buffer /\ Initialised \in {"find", "dlopen"}
      BY <1>4 DEF init_address_from_file, Initialised
    <2>2. entry = {} /\ (\A u \in Thread \ {th} : pc[u] = "idle") /\ buffer # "none"
      BY <2>1 DEF Starting
    <2> QED BY <1>1, <2>1, <2>2 DEF Starting
  <1>5. CASE PlainOpen(th)
    BY <1>5 DEF PlainOpen, Starting
  <1>6. CASE Onward(th)
    <2>1. buffer # "none" /\ \A u \in Thread : pc[u] \notin {"read", "init"}
      BY <1>6 DEF Starting, Onward
    <2>2. buffer' # "none" /\ \A u \in Thread : pc'[u] \notin {"read", "init"}
      BY <1>1, <1>6, <2>1 DEF Onward
    <2> QED BY <2>2 DEF Starting
  <1> QED BY <1>2, <1>3, <1>4, <1>5, <1>6, StepsOnward

(* A thread that enumerates keeps its class.                               *)
LEMMA KeepHasClass ==
  ASSUME TypeOK, HasClass, NEW th \in Thread, ThreadStep(th)
  PROVE  HasClass'
  <1> USE DEF At, Goto, address, dobby, iter
  <1> DEFINE Stays(l) == /\ cls' = cls /\ pc' = [pc EXCEPT ![th] = l]
                         /\ l \in Enumerating => cls[th] \in Class
             Left(l) == \E c \in Class \cup {0} :
                          /\ cls' = [cls EXCEPT ![th] = c] /\ pc' = [pc EXCEPT ![th] = l]
                          /\ l \in Enumerating => c \in Class
             Moves == (cls' = cls /\ pc' = pc) \/ \E l \in Label : Stays(l) \/ Left(l)
  <1>1. /\ pc \in [Thread -> Label] /\ cls \in [Thread -> Class \cup {0}]
        /\ pc[th] \in Enumerating => cls[th] \in Class
    BY DEF TypeOK, HasClass
  <1>2. \A r \in Repl : /\ After(th, r) \in Label
                        /\ After(th, r) \in Enumerating => cls[th] \in Class
    BY <1>1, AfterCases DEF Enumerating, Label
  <1>3. \A r \in Repl : /\ RouteOf[r] \in Label \ Enumerating
                        /\ CommitOf[r] \in Label \ Enumerating
    BY DEF RouteOf, CommitOf, Repl, Enumerating, Label
  <1>4. Moves => HasClass'
    BY <1>1 DEF HasClass
  <1>5. CASE readFile(th) \/ readFileFails(th) \/ init_address_from_file(th) \/ JNI_OnLoad(th)
    BY <1>5, <1>4 DEF readFile, readFileFails, init_address_from_file, JNI_OnLoad, Initialised,
                      ByAddress, Enumerating, Label
  <1>6. ASSUME NEW r \in Repl, HookOf(th, r) PROVE HasClass'
    BY <1>6, <1>2, <1>3, <1>4 DEF HookOf
  <1>7. ASSUME NEW r \in Repl,
               Dispatch(th, r) \/ Commit(th, r) \/ Registered(th, r) \/ inlineHook(th, r)
        PROVE  HasClass'
    BY <1>7, <1>2, <1>3, <1>4 DEF Dispatch, Commit, Registered, inlineHook
  <1>8. CASE OpenRouted(th) \/ Leave(th)
    BY <1>8, <1>4 DEF OpenRouted, ByAddress, Leave, Enumerating, Label
  <1>9. CASE new_func_get_methods(th) \/ SubtractGet(th) \/ SubtractSet(th)
    BY <1>9, <1>1, <1>4 DEF new_func_get_methods, SubtractGet, SubtractSet, Enumerating, Label
  <1>10. ASSUME pc[th] \in Enumerating, Advance(th) PROVE HasClass'
    BY <1>10, <1>1, <1>4 DEF Advance, Enumerating, Label
  <1>11. CASE TestPair(th) \/ MarkGot(th)
    BY <1>11, <1>1, <1>4, <1>10 DEF TestPair, MarkGot, Enumerating, Label
  <1>12. CASE PlainOpen(th) \/ UnhookDlopen(th)
    BY <1>12, <1>4 DEF PlainOpen, UnhookDlopen
  <1>13. CASE new_func_dlopen(th)
    BY <1>13, <1>4 DEF new_func_dlopen, Enumerating, Label
  <1>14. ASSUME NEW c \in Class, Enumerate(th, c) PROVE HasClass'
    BY <1>14, <1>4 DEF Enumerate, Label
  <1> QED BY <1>5, <1>6, <1>7, <1>8, <1>9, <1>11, <1>12, <1>13, <1>14 DEF ThreadStep

(* The addresses stay inside the library, or NULL, as the base is added    *)
(* and subtracted.                                                         *)
LEMMA KeepInside ==
  ASSUME TypeOK, Starting, AddressesInside, HasClass, NEW th \in Thread, ThreadStep(th)
  PROVE  AddressesInside'
  <1> USE DEF At, Goto, address, dobby, iter
  <1> DEFINE Later == {"subGet", "subSet"}
             Still == /\ UNCHANGED <<aget, aset>>
                      /\ pc' = pc \/ \E l \in Label \ Later : pc' = [pc EXCEPT ![th] = l]
  <1>1. /\ pc \in [Thread -> Label] /\ base \in {0, Base} /\ Base \in Int
        /\ aget \in Int /\ aset \in Int
    BY InjectorAssumption DEF TypeOK
  <1>2. Still => AddressesInside'
    BY <1>1 DEF AddressesInside
  <1>3. \A r \in Repl : {After(th, r), RouteOf[r], CommitOf[r]} \subseteq Label \ Later
    BY AfterCases, RouteLabels DEF Label, RouteOf, CommitOf, Repl
  <1>4. CASE readFile(th) \/ readFileFails(th) \/ JNI_OnLoad(th) \/ OpenRouted(th) \/ Leave(th)
    BY <1>4, <1>2 DEF readFile, readFileFails, JNI_OnLoad, OpenRouted, Leave, ByAddress, Label
  <1>5. CASE init_address_from_file(th)
    <2>1. 1 \in Class
      BY InjectorAssumption
    <2>2. /\ FirstLine(buffer).get \in {0, GetOff(1)}
          /\ FirstLine(buffer).set \in {0, SetOff(1)}
      BY DEF FirstLine
    <2>3. /\ aget' \in {aget, 0, GetOff(1)} /\ aset' \in {aset, 0, SetOff(1)}
          /\ pc' = pc \/ (\E l \in {"find", "dlopen"} : pc' = [pc EXCEPT ![th] = l])
      BY <1>5, <2>2 DEF init_address_from_file, Initialised
    <2>4. \A u \in Thread : pc[u] \notin Later
      BY <1>1, <1>5 DEF init_address_from_file, Starting
    <2>5. \A u \in Thread : pc'[u] \notin Later
      BY <1>1, <2>3, <2>4
    <2> QED BY <2>1, <2>3, <2>5, OffsetInside DEF AddressesInside
  <1>6. ASSUME NEW r \in Repl, HookOf(th, r) PROVE AddressesInside'
    BY <1>6, <1>2, <1>3 DEF HookOf
  <1>7. ASSUME NEW r \in Repl,
               Dispatch(th, r) \/ Commit(th, r) \/ Registered(th, r) \/ inlineHook(th, r)
        PROVE  AddressesInside'
    BY <1>7, <1>2, <1>3 DEF Dispatch, Commit, Registered, inlineHook
  <1>8. CASE new_func_get_methods(th)
    <2>1. cls[th] \in Class
      BY <1>8 DEF new_func_get_methods, HasClass, Enumerating
    <2>2. /\ aget' \in {aget, Base + GetOff(cls[th])} /\ aset' \in {aset, Base + SetOff(cls[th])}
          /\ pc' = [pc EXCEPT ![th] = "test"]
      BY <1>8 DEF new_func_get_methods
    <2>a. ASSUME NEW c \in Class PROVE Base + GetOff(c) # 0 /\ Base + SetOff(c) # 0
      <3>1. Base \in Nat /\ Base > 0 /\ GetOff(c) \in 1 .. Base - 1 /\ SetOff(c) \in 1 .. Base - 1
        BY OffsetInside, InjectorAssumption DEF DlopenAt
      <3> QED BY <3>1
    <2>3. aget' # 0 \/ aget' = aget
      <3>1. Base + GetOff(cls[th]) # 0
        BY <2>1, <2>a
      <3> QED BY <2>2, <3>1
    <2>4. aset' # 0 \/ aset' = aset
      <3>1. Base + SetOff(cls[th]) # 0
        BY <2>1, <2>a
      <3> QED BY <2>2, <3>1
    <2>5. Inside(Base + GetOff(cls[th])) /\ Inside(Base + SetOff(cls[th]))
      BY <2>1, OffsetInside
    <2>6. \A u \in Thread : pc'[u] \in Later => pc'[u] = pc[u]
      BY <1>1, <2>2
    <2>7. (aget' = 0 \/ Inside(aget')) /\ (aset' = 0 \/ Inside(aset'))
      BY <2>2, <2>5 DEF AddressesInside
    <2> QED BY <2>3, <2>4, <2>6, <2>7 DEF AddressesInside
  <1>9. CASE SubtractGet(th)
    <2>1. /\ aget # 0 /\ aset # 0 /\ Inside(aget) /\ aset' = aset /\ aget' = aget - base
          /\ pc' = [pc EXCEPT ![th] = "subSet"]
      BY <1>9 DEF SubtractGet, AddressesInside
    <2>2. aget' # 0 /\ Inside(aget')
      <3>1. CASE base = 0
        BY <1>1, <2>1, <3>1
      <3>2. CASE base = Base
        <4>1. Inside(aget - Base) /\ aget - Base \in Int
          BY <1>1, <2>1, InsideMinus
        <4>2. aget - Base # 0
          BY <4>1, InsideMinus
        <4> QED BY <2>1, <3>2, <4>1, <4>2
      <3> QED BY <1>1, <3>1, <3>2
    <2> QED BY <1>1, <2>1, <2>2 DEF AddressesInside
  <1>10. CASE SubtractSet(th)
    <2>1. /\ aset # 0 /\ Inside(aset) /\ aget' = aget /\ aset' = aset - base
          /\ pc' = [pc EXCEPT ![th] = "get"]
      BY <1>10 DEF SubtractSet, AddressesInside
    <2>2. aset' # 0 /\ Inside(aset')
      <3>1. CASE base = 0
        BY <1>1, <2>1, <3>1
      <3>2. CASE base = Base
        <4>1. Inside(aset - Base) /\ aset - Base \in Int
          BY <1>1, <2>1, InsideMinus
        <4>2. aset - Base # 0
          BY <4>1, InsideMinus
        <4> QED BY <2>1, <3>2, <4>1, <4>2
      <3> QED BY <1>1, <3>1, <3>2
    <2> QED BY <1>1, <2>1, <2>2 DEF AddressesInside
  <1>11. CASE TestPair(th)
    <2>1. CASE aget # 0 /\ aset # 0 /\ ~got
      BY <1>1, <1>11, <2>1 DEF TestPair, AddressesInside
    <2>2. CASE ~(aget # 0 /\ aset # 0 /\ ~got)
      BY <1>2, <1>11, <2>2 DEF TestPair, Advance, Label
    <2> QED BY <2>1, <2>2
  <1>12. CASE MarkGot(th)
    BY <1>2, <1>12 DEF MarkGot, Advance, Label
  <1>13. CASE PlainOpen(th) \/ UnhookDlopen(th)
    BY <1>13, <1>2 DEF PlainOpen, UnhookDlopen
  <1>14. CASE new_func_dlopen(th)
    BY <1>14, <1>2 DEF new_func_dlopen, Label
  <1>15. ASSUME NEW c \in Class, Enumerate(th, c) PROVE AddressesInside'
    BY <1>15, <1>2 DEF Enumerate, Label
  <1> QED BY <1>4, <1>5, <1>6, <1>7, <1>8, <1>9, <1>10, <1>11, <1>12, <1>13, <1>14, <1>15 DEF ThreadStep

(* A hook under way has what it needs: the pointer to the original is set  *)
(* before the patch, and never to NULL.                                    *)
LEMMA KeepHookReady ==
  ASSUME TypeOK, AddressesInside, HookReady, NEW th \in Thread, ThreadStep(th)
  PROVE  HookReady'
  <1> USE DEF At, Goto, address, dobby, iter
  <1> DEFINE Routing == {RouteOf[r] : r \in Repl} \cup {CommitOf[r] : r \in Repl}
             Still == /\ UNCHANGED <<lib, old, tgt>> /\ patched' \subseteq patched
                      /\ entry' = entry \/ lib = "inline"
                      /\ pc' = pc \/ \E l \in Label \ Routing : pc' = [pc EXCEPT ![th] = l]
  <1>1. /\ pc \in [Thread -> Label] /\ tgt \in [Thread -> Int] /\ old \in [Repl -> Int]
        /\ patched \subseteq entry /\ entry \subseteq Repl \X Int
        /\ lib \in {"dobby", "inline"}
    BY InjectorAssumption DEF TypeOK
  <1>2. Still => HookReady'
    <2> SUFFICES ASSUME Still PROVE HookReady'
      OBVIOUS
    <2>1. \A u \in Thread, r \in Repl :
            pc'[u] \in {RouteOf[r], CommitOf[r]} => pc'[u] = pc[u]
      BY <1>1
    <2> QED BY <2>1, <1>1 DEF HookReady
  <1>3. \A r \in Repl : {r, After(th, r)} \cap Routing = {}
    BY AfterCases DEF RouteOf, CommitOf, Repl
  <1>4. \A r, q \in Repl : /\ RouteOf[r] # CommitOf[q]
                           /\ RouteOf[r] = RouteOf[q] => r = q
                           /\ CommitOf[r] = CommitOf[q] => r = q
    BY DEF RouteOf, CommitOf, Repl
  <1>a. {"find", "get", "set", "dlopen", "methods", "idle", "opened", "leave", "fetch", "test", "init",
         "subGet", "subSet"} \subseteq Label \ Routing
    BY DEF RouteOf, CommitOf, Repl, Label
  <1>5. CASE readFile(th) \/ readFileFails(th) \/ init_address_from_file(th) \/ JNI_OnLoad(th)
    BY <1>5, <1>2, <1>a DEF readFile, readFileFails, init_address_from_file, JNI_OnLoad,
                           Initialised, ByAddress
  <1>6. ASSUME NEW r \in Repl, HookOf(th, r) PROVE HookReady'
    <2>1. CASE UNCHANGED <<pc, tgt>>
      BY <1>2, <1>6, <2>1 DEF HookOf
    <2>2. CASE UNCHANGED tgt /\ Goto(th, After(th, r))
      <3>1. After(th, r) \in Label \ Routing
        BY <1>3, AfterCases, <1>a DEF Label
      <3> QED BY <1>2, <1>6, <2>2, <3>1 DEF HookOf
    <2>3. ASSUME NEW a \in Int, AddressOf(r, a), tgt' = [tgt EXCEPT ![th] = a],
                 Goto(th, RouteOf[r]) \/ (lib = "inline" /\ Goto(th, CommitOf[r]))
          PROVE  HookReady'
      <3>1. a # 0
        <4>1. CASE r \in {"dlopen", "methods"}
          BY <2>3, <4>1, OtherAddresses DEF AddressOf
        <4>2. CASE r = "get"
          <5>1. base = Base /\ Inside(aget) /\ aget \in Int /\ a = base + aget
            BY <2>3, <4>2 DEF AddressOf, AddressesInside, TypeOK
          <5> QED BY <5>1, InsideMinus
        <4>3. CASE r = "set"
          <5>1. base = Base /\ Inside(aset) /\ aset \in Int /\ a = base + aset
            BY <2>3, <4>3 DEF AddressOf, AddressesInside, TypeOK
          <5> QED BY <5>1, InsideMinus
        <4> QED BY <4>1, <4>2, <4>3 DEF Repl
      <3>2. UNCHANGED <<lib, entry, patched, old>>
        BY <1>6 DEF HookOf
      <3>3. ASSUME NEW u \in Thread, NEW q \in Repl
            PROVE  /\ pc'[u] \in {RouteOf[q], CommitOf[q]} => tgt'[u] # 0
                   /\ pc'[u] = CommitOf[q] /\ lib = "dobby" => old[q] # 0 /\ <<q, tgt'[u]>> \in entry
        <4>1. CASE u = th
          BY <1>1, <1>4, <2>3, <3>1, <4>1
        <4>2. CASE u # th
          BY <1>1, <2>3, <4>2 DEF HookReady
        <4> QED BY <4>1, <4>2
      <3> QED BY <3>2, <3>3 DEF HookReady
    <2> QED BY <1>6, <2>1, <2>2, <2>3 DEF HookOf
  <1>7. ASSUME NEW r \in Repl, Dispatch(th, r) PROVE HookReady'
    <2>1. tgt[th] # 0 /\ Original(r, tgt[th]) # 0
      BY <1>7 DEF Dispatch, HookReady, Original, SelfCall
    <2>2. /\ UNCHANGED <<lib, patched, tgt>> /\ entry' = entry \cup {<<r, tgt[th]>>}
          /\ pc' = [pc EXCEPT ![th] = CommitOf[r]] /\ old'[r] # 0
          /\ \A q \in Repl : old[q] # 0 => old'[q] # 0
      BY <1>1, <1>7, <2>1 DEF Dispatch
    <2>3. ASSUME NEW u \in Thread, NEW q \in Repl
          PROVE  /\ pc'[u] \in {RouteOf[q], CommitOf[q]} => tgt[u] # 0
                 /\ pc'[u] = CommitOf[q] /\ lib = "dobby" => old'[q] # 0 /\ <<q, tgt[u]>> \in entry'
      <3>1. CASE u = th
        BY <1>1, <1>4, <2>1, <2>2, <3>1
      <3>2. CASE u # th
        BY <1>1, <2>2, <3>2 DEF HookReady
      <3> QED BY <3>1, <3>2
    <2> QED BY <1>1, <2>2, <2>3 DEF HookReady
  <1>8. ASSUME NEW r \in Repl, Commit(th, r) \/ inlineHook(th, r) PROVE HookReady'
    <2>1. tgt[th] # 0
      BY <1>8 DEF Commit, inlineHook, HookReady
    <2>2. /\ UNCHANGED <<lib, entry>> /\ tgt' = [tgt EXCEPT ![th] = 0]
          /\ pc' = [pc EXCEPT ![th] = After(th, r)]
      BY <1>8 DEF Commit, inlineHook
    <2>3. /\ \A q \in Repl : old[q] # 0 => old'[q] # 0
          /\ \A h \in patched' : old'[h[1]] # 0
      <3>1. CASE Commit(th, r)
        BY <3>1, <1>1 DEF Commit, HookReady
      <3>2. CASE inlineHook(th, r)
        BY <3>2, <1>1, <2>1 DEF inlineHook, HookReady
      <3> QED BY <1>8, <3>1, <3>2
    <2>4. ASSUME NEW u \in Thread, NEW q \in Repl
          PROVE  /\ pc'[u] \in {RouteOf[q], CommitOf[q]} => tgt'[u] # 0
                 /\ pc'[u] = CommitOf[q] /\ lib = "dobby" => old'[q] # 0 /\ <<q, tgt'[u]>> \in entry
      <3>1. CASE u = th
        BY <1>1, <1>3, <2>2, <3>1
      <3>2. CASE u # th
        BY <1>1, <2>2, <2>3, <3>2 DEF HookReady
      <3> QED BY <3>1, <3>2
    <2> QED BY <2>2, <2>3, <2>4 DEF HookReady
  <1>9. ASSUME NEW r \in Repl, Registered(th, r) PROVE HookReady'
    <2>1. /\ UNCHANGED <<lib, old, tgt, patched>> /\ lib = "inline"
          /\ pc[th] = RouteOf[r] /\ pc' = [pc EXCEPT ![th] = CommitOf[r]]
      BY <1>9 DEF Registered
    <2> QED BY <1>1, <2>1 DEF HookReady
  <1>10. CASE OpenRouted(th) \/ Leave(th)
    BY <1>10, <1>2, <1>a DEF OpenRouted, ByAddress, Leave
  <1>11. CASE new_func_get_methods(th) \/ SubtractGet(th) \/ SubtractSet(th)
    BY <1>11, <1>2, <1>a DEF new_func_get_methods, SubtractGet, SubtractSet
  <1>12. CASE TestPair(th) \/ MarkGot(th)
    BY <1>12, <1>2, <1>a DEF TestPair, MarkGot, Advance
  <1>13. CASE PlainOpen(th) \/ UnhookDlopen(th)
    BY <1>13, <1>2 DEF PlainOpen, UnhookDlopen
  <1>14. CASE new_func_dlopen(th)
    BY <1>14, <1>2, <1>a DEF new_func_dlopen
  <1>15. ASSUME NEW c \in Class, Enumerate(th, c) PROVE HookReady'
    BY <1>15, <1>2, <1>a DEF Enumerate
  <1> QED BY <1>5, <1>6, <1>7, <1>8, <1>9, <1>10, <1>11, <1>12, <1>13, <1>14, <1>15 DEF ThreadStep

(* The shape of the state is kept by every step, by a new map file and by  *)
(* a new start of the process.                                             *)
LEMMA NextShape ==
  ASSUME Shape, [Next]_vars
  PROVE  Shape'
  <1>1. TypeOK /\ Starting /\ AddressesInside /\ HasClass /\ HookReady
    BY DEF Shape
  <1>2. ASSUME NEW th \in Thread, ThreadStep(th) PROVE Shape'
    BY <1>1, <1>2, ThreadTypes, KeepStarting, KeepInside, KeepHasClass, KeepHookReady DEF Shape
  <1>3. CASE WriteFile
    <2>1. /\ file' \in FileKind
          /\ UNCHANGED <<lib, alive, loaded, buffer, address, dobby, pc, iter, hist>>
      BY <1>3 DEF WriteFile
    <2> USE DEF address, dobby, iter
    <2>2. TypeOK'
      BY ONLY <1>1, <2>1 DEF TypeOK, address, dobby, iter
    <2>3. Starting' /\ AddressesInside'
      BY ONLY <1>1, <2>1 DEF Starting, AddressesInside, address, dobby, iter
    <2>4. HasClass' /\ HookReady'
      BY ONLY <1>1, <2>1 DEF HasClass, HookReady, address, dobby, iter
    <2> QED BY <2>2, <2>3, <2>4 DEF Shape
  <1>4. CASE Restart
    <2>1. Init'
      BY <1>1, <1>4 DEF Restart, Init, TypeOK
    <2> QED BY <2>1, InitShape, PTL
  <1>5. CASE UNCHANGED vars
    <2>1. TypeOK'
      BY ONLY <1>1, <1>5 DEF TypeOK, vars
    <2>2. Starting' /\ AddressesInside'
      BY ONLY <1>1, <1>5 DEF Starting, AddressesInside, vars
    <2>3. HasClass' /\ HookReady'
      BY ONLY <1>1, <1>5 DEF HasClass, HookReady, vars
    <2> QED BY <2>1, <2>2, <2>3 DEF Shape
  <1> QED BY <1>1, <1>2, <1>3, <1>4, <1>5, NextCases

(* Labels, lists of installed hooks and the addresses the threads carry    *)
(* belong together: what a thread is doing says which hooks exist.         *)
THEOREM ShapeKept == Spec => []Shape
  <1>1. Init => Shape
    BY InitShape
  <1>2. Shape /\ [Next]_vars => Shape'
    BY NextShape
  <1> QED BY <1>1, <1>2, PTL DEF Spec

(* The globals of the injected library, the hook lists and the threads'    *)
(* places keep their types whatever the threads of the game do.            *)
THEOREM InjectorTypes == Spec => []TypeOK
  BY ShapeKept, PTL DEF Shape

(* inject_dobby.cpp and inject_inlinehook.cpp: a replacement that is in    *)
(* place, in whichever build and after whatever race, finds its map file   *)
(* read and an old_func_ pointer that is not NULL.                         *)
THEOREM ReplacementsReady == Spec => []ReplacementReady
  <1>1. Shape => ReplacementReady
    BY DEF Shape, TypeOK, Starting, HookReady, ReplacementReady
  <1> QED BY <1>1, ShapeKept, PTL

-----------------------------------------------------------------------------
(* Now the rest of the invariant.  The functions that are hooked are       *)
(* distinct.                                                               *)
LEMMA Apart ==
  ASSUME NEW c \in Class
  PROVE  /\ DlopenAt # MethodsAt
         /\ Base + GetOff(c) \notin {DlopenAt, MethodsAt, Base + SetOff(c)}
         /\ Base + SetOff(c) \notin {DlopenAt, MethodsAt}
  <1>1. /\ Base \in Nat /\ Base > 7 /\ c \in Nat /\ 10 * c + 5 < Base - 1
    BY InjectorAssumption DEF DlopenAt, SetOff
  <1> QED BY <1>1 DEF DlopenAt, MethodsAt, GetOff, SetOff

(* A step that changes nothing the calm is about, and one by which a       *)
(* thread only returns.                                                    *)
LEMMA CalmSame ==
  ASSUME Calm,
         UNCHANGED <<lib, aget, aset, base, handle, got, entry, patched, old, tgt, cls, kind>>,
         "opened" \in hist' <=> "opened" \in hist,
         \A u \in Thread : pc'[u] = pc[u] \/ (pc[u] \in Quiet /\ pc'[u] \in Quiet)
  PROVE  Calm'
  <1>1. \A u \in Thread : Active(u)' <=> Active(u)
    BY DEF Active
  <1>2. Solo'
    BY <1>1 DEF Calm, Solo
  <1>3. OriginalKept' /\ OnlyThese'
    BY DEF Calm, OriginalKept, OnlyThese, Only
  <1>4. ASSUME NEW u \in Thread, Active(u)' PROVE Doing(u)'
    <2>1. Doing(u) /\ pc'[u] = pc[u]
      BY <1>1, <1>4 DEF Calm, Active
    <2>2. AtDlopen(u)'
      BY <2>1 DEF Doing, AtDlopen, Without, Only, FromFile
    <2>3. AtMethods(u)'
      BY <2>1 DEF Doing, AtMethods, Without, FromFile, MethodsHooked
    <2>4. AtText(u)'
      BY <2>1 DEF Doing, AtText, Without, OfClass, Only, ClassOf
    <2>5. AtClass(u)'
      BY <2>1 DEF Doing, AtClass, Without, OfClass, Only
    <2>6. Entering(u)'
      BY <2>1 DEF Doing, Entering, DlopenHooked, MethodsHooked
    <2> QED BY <2>2, <2>3, <2>4, <2>5, <2>6 DEF Doing
  <1>5. ASSUME \A u \in Thread : ~Active(u)' PROVE Resting'
    BY <1>1, <1>5 DEF Calm, Resting, OfClass, Only, Without, FromFile, DlopenHooked, MethodsHooked
  <1> QED BY <1>2, <1>3, <1>4, <1>5 DEF Calm

(* A step of the thread that is at work: the others are not.               *)
LEMMA CalmSolo ==
  ASSUME Shape, Calm, NEW th \in Thread, Active(th), NEW l \in Label,
         pc' = [pc EXCEPT ![th] = l], OriginalKept', OnlyThese',
         l \notin Quiet => Doing(th)', l \in Quiet => Resting'
  PROVE  Calm'
  <1>1. pc \in [Thread -> Label]
    BY DEF Shape, TypeOK
  <1>2. \A u \in Thread \ {th} : ~Active(u)
    BY DEF Calm, Solo
  <1>3. pc'[th] = l /\ \A u \in Thread \ {th} : ~Active(u)'
    BY <1>1, <1>2 DEF Active
  <1> QED BY <1>3 DEF Calm, Solo, Active

(* A step of a thread that comes in when none is at work.                  *)
LEMMA CalmEntered ==
  ASSUME Shape, \A u \in Thread : ~Active(u), NEW th \in Thread, NEW l \in Label,
         pc' = [pc EXCEPT ![th] = l], OriginalKept', OnlyThese', l \notin Quiet, Doing(th)'
  PROVE  Calm'
  <1>1. pc \in [Thread -> Label]
    BY DEF Shape, TypeOK
  <1>2. pc'[th] = l /\ \A u \in Thread \ {th} : ~Active(u)'
    BY <1>1 DEF Active
  <1> QED BY <1>2 DEF Calm, Solo, Active

(* JNI_OnLoad up to the first hook.                                        *)
LEMMA CalmLoad ==
  ASSUME Shape, Calm, NEW th \in Thread,
         readFile(th) \/ readFileFails(th) \/ init_address_from_file(th) \/ JNI_OnLoad(th)
  PROVE  Calm'
  <1> USE DEF At, Goto, address, dobby, iter
  <1>1. Active(th) /\ pc[th] \in {"read", "init", "find"}
    BY DEF readFile, readFileFails, init_address_from_file, JNI_OnLoad, Active, Quiet
  <1>2. /\ entry = {} /\ patched = {} /\ ~got /\ ~handle /\ "opened" \notin hist
        /\ FromFile /\ cls[th] = 0
    BY <1>1 DEF Calm, Doing, AtDlopen
  <1>3. UNCHANGED <<entry, patched, got, handle, hist, cls, kind, old, tgt, lib>>
    BY DEF readFile, readFileFails, init_address_from_file, JNI_OnLoad
  <1>4. OriginalKept' /\ OnlyThese'
    BY <1>2, <1>3 DEF OriginalKept, OnlyThese, Only
  <1>5. FromFile'
    <2>1. CASE init_address_from_file(th)
      <3>1. GetOff(1) # 0
        BY DEF GetOff
      <3> QED BY <1>2, <2>1, <3>1 DEF init_address_from_file, FirstLine, FromFile
    <2>2. CASE readFile(th) \/ readFileFails(th) \/ JNI_OnLoad(th)
      <3>1. aget' = aget /\ aset' = aset
        BY <2>2 DEF readFile, readFileFails, JNI_OnLoad
      <3> QED BY <1>2, <3>1 DEF FromFile
    <2> QED BY <2>1, <2>2
  <1>6. pc \in [Thread -> Label] /\ aget' \in Int /\ aset' \in Int /\ 1 \in Class
    BY ThreadTypes, InjectorAssumption DEF Shape, TypeOK, ThreadStep
  <1>7. \E l \in {"read", "init", "find", "dlopen", "idle", "methods", "get"} :
           /\ pc' = [pc EXCEPT ![th] = l]
           /\ l = "methods" => aget' = 0 /\ aset' = 0
           /\ l = "get" => ~(aget' = 0 /\ aset' = 0)
    <2>1. CASE init_address_from_file(th)
      BY <2>1, <1>1, <1>6 DEF init_address_from_file, Initialised
    <2>2. CASE readFile(th) \/ readFileFails(th) \/ JNI_OnLoad(th)
      BY <2>2 DEF readFile, readFileFails, JNI_OnLoad, ByAddress
    <2> QED BY <2>1, <2>2
  <1>8. PICK l \in {"read", "init", "find", "dlopen", "idle", "methods", "get"} :
           /\ pc' = [pc EXCEPT ![th] = l]
           /\ l = "methods" => aget' = 0 /\ aset' = 0
           /\ l = "get" => ~(aget' = 0 /\ aset' = 0)
    BY <1>7
  <1>9. l \in Label /\ pc'[th] = l
    BY <1>6, <1>8 DEF Label
  <1>10. Resting'
    BY <1>2, <1>3, <1>6 DEF Resting, OfClass, Only, DlopenHooked, MethodsHooked
  <1>11. Doing(th)'
    <2>1. AtDlopen(th)'
      BY <1>2, <1>3, <1>5, <1>8, <1>9 DEF AtDlopen, Without, Only
    <2>2. AtMethods(th)'
      BY <1>2, <1>3, <1>5, <1>8, <1>9 DEF AtMethods, Without, MethodsHooked
    <2>3. AtText(th)'
      <3>1. CASE l = "get"
        <4>1. /\ pc'[th] = "get" /\ ClassOf(th)' = 1 /\ cls'[th] = 0 /\ entry' = {} /\ ~got'
              /\ aget' = GetOff(1) /\ aset' \in {0, SetOff(1)}
          BY <1>2, <1>3, <1>5, <1>8, <1>9, <3>1 DEF ClassOf, FromFile
        <4> QED BY <4>1 DEF AtText, HookingText, Without, OfClass, Only
      <3>2. CASE l # "get"
        BY <1>8, <1>9, <3>2 DEF AtText, HookingText
      <3> QED BY <3>1, <3>2
    <2>4. AtClass(th)'
      BY <1>9 DEF AtClass, Enumerating
    <2>5. Entering(th)'
      BY <1>2, <1>3 DEF Entering, DlopenHooked, MethodsHooked
    <2> QED BY <2>1, <2>2, <2>3, <2>4, <2>5 DEF Doing
  <1> QED BY <1>1, <1>4, <1>8, <1>9, <1>10, <1>11, CalmSolo

(* A thread that hooks a function of the game: which one it is, and what   *)
(* it knows of the hooks there are.                                        *)
Target(th, r) ==
  CASE r = "dlopen" -> DlopenAt
    [] r = "methods" -> MethodsAt
    [] r = "get" -> Base + GetOff(ClassOf(th))
    [] r = "set" -> Base + SetOff(ClassOf(th))

(* A thread inside the call that installs r is the active thread, aims at  *)
(* r's own address and is the only one to install there.                   *)
LEMMA AtHook ==
  ASSUME Shape, Calm, NEW th \in Thread, NEW r \in Repl,
         pc[th] \in {r, RouteOf[r], CommitOf[r]}
  PROVE  /\ Active(th) /\ Doing(th) /\ ClassOf(th) \in Class
         /\ Only(r, Target(th, r))
         /\ pc[th] \in {r, RouteOf[r]} => Without({r})
         /\ pc[th] \in {RouteOf[r], CommitOf[r]} => tgt[th] = Target(th, r)
         /\ pc[th] = CommitOf[r] /\ lib = "dobby" => old[r] = Target(th, r)
         /\ \A h \in entry : h[2] = Target(th, r) => h = <<r, h[2]>>
  <1>1. Active(th)
    BY DEF Active, Quiet, RouteOf, CommitOf, Repl
  <1>2. Doing(th) /\ Only("dlopen", DlopenAt) /\ Only("methods", MethodsAt)
    BY <1>1 DEF Calm, OnlyThese
  <1>3. ClassOf(th) \in Class
    BY InjectorAssumption DEF ClassOf, Shape, TypeOK
  <1>4. entry \subseteq Repl \X Int
    BY DEF Shape, TypeOK
  <1> DEFINE c == ClassOf(th)
  <1>5. /\ DlopenAt # MethodsAt
        /\ Base + GetOff(c) \notin {DlopenAt, MethodsAt, Base + SetOff(c)}
        /\ Base + SetOff(c) \notin {DlopenAt, MethodsAt}
    BY <1>3, Apart
  <1> HIDE DEF c
  <1>6. CASE r = "dlopen"
    <2>1. pc[th] \in {"dlopen", "dlopenR", "dlopenC"} /\ Target(th, r) = DlopenAt
      BY <1>6 DEF RouteOf, CommitOf, Target
    <2>2. /\ Without(Text \cup {"methods"})
          /\ pc[th] \in {"dlopen", "dlopenR"} => entry = {}
          /\ pc[th] \in {"dlopenR", "dlopenC"} => tgt[th] = DlopenAt
          /\ pc[th] = "dlopenC" /\ lib = "dobby" => old["dlopen"] = DlopenAt
      BY <1>2, <2>1 DEF Doing, AtDlopen
    <2>3. \A h \in entry : h = <<"dlopen", h[2]>>
      BY <1>4, <2>2 DEF Without, Text, Repl
    <2> QED BY <1>1, <1>2, <1>3, <1>6, <2>1, <2>2, <2>3 DEF RouteOf, CommitOf, Without
  <1>7. CASE r = "methods"
    <2>1. pc[th] \in {"methods", "methodsR", "methodsC"} /\ Target(th, r) = MethodsAt
      BY <1>7 DEF RouteOf, CommitOf, Target
    <2>2. /\ Without(Text)
          /\ pc[th] \in {"methods", "methodsR"} => Without({"methods"})
          /\ pc[th] \in {"methodsR", "methodsC"} => tgt[th] = MethodsAt
          /\ pc[th] = "methodsC" /\ lib = "dobby" => old["methods"] = MethodsAt
      BY <1>2, <2>1 DEF Doing, AtMethods
    <2>3. \A h \in entry : h[2] = MethodsAt => h = <<"methods", h[2]>>
      BY <1>2, <1>4, <1>5, <2>2 DEF Without, Text, Repl, Only
    <2> QED BY <1>1, <1>2, <1>3, <1>7, <2>1, <2>2, <2>3 DEF RouteOf, CommitOf
  <1>8. CASE r \in Text
    <2>1. pc[th] \in HookingText /\ c = ClassOf(th)
      BY <1>8 DEF RouteOf, CommitOf, HookingText, Text, c
    <2>2. /\ Only("get", Base + GetOff(c)) /\ Only("set", Base + SetOff(c))
          /\ pc[th] \in {"get", "getR"} => Without({"get"})
          /\ pc[th] \in {"set", "setR"} => Without({"set"})
          /\ pc[th] \in {"getR", "getC"} => tgt[th] = Base + GetOff(c)
          /\ pc[th] \in {"setR", "setC"} => tgt[th] = Base + SetOff(c)
          /\ pc[th] = "getC" /\ lib = "dobby" => old["get"] = tgt[th]
          /\ pc[th] = "setC" /\ lib = "dobby" => old["set"] = tgt[th]
      BY <1>2, <2>1 DEF Doing, AtText, OfClass, Without, Text
    <2>3. \A h \in entry : /\ h[2] = Base + GetOff(c) => h = <<"get", h[2]>>
                           /\ h[2] = Base + SetOff(c) => h = <<"set", h[2]>>
      BY <1>2, <1>4, <1>5, <2>2 DEF Repl, Only
    <2>4. CASE r = "get"
      <3>1. Target(th, r) = Base + GetOff(c) /\ RouteOf[r] = "getR" /\ CommitOf[r] = "getC"
        BY <2>1, <2>4 DEF Target, RouteOf, CommitOf
      <3> QED BY <1>1, <1>2, <1>3, <2>2, <2>3, <2>4, <3>1
    <2>5. CASE r = "set"
      <3>1. Target(th, r) = Base + SetOff(c) /\ RouteOf[r] = "setR" /\ CommitOf[r] = "setC"
        BY <2>1, <2>5 DEF Target, RouteOf, CommitOf
      <3> QED BY <1>1, <1>2, <1>3, <2>2, <2>3, <2>5, <3>1
    <2> QED BY <1>8, <2>4, <2>5 DEF Text
  <1> QED BY <1>6, <1>7, <1>8 DEF Repl, Text

(* hook_dlopen, hook_get_methods and hook_get_set, up to the hook itself.  *)
LEMMA CalmHook ==
  ASSUME Shape, Calm, NEW th \in Thread, NEW r \in Repl, HookOf(th, r)
  PROVE  Calm'
  <1> USE DEF At, Goto, address, dobby, iter
  <1>1. /\ UNCHANGED <<lib, aget, aset, base, handle, got, entry, patched, old, cls, kind>>
        /\ pc[th] = r /\ ("opened" \in hist' <=> "opened" \in hist)
    BY DEF HookOf
  <1>2. /\ Active(th) /\ Doing(th) /\ ClassOf(th) \in Class /\ Without({r})
        /\ pc \in [Thread -> Label] /\ tgt \in [Thread -> Int] /\ base \in {0, Base} /\ Base # 0
        /\ cls[th] \in Class \cup {0} /\ 1 \in Class /\ lib \in {"dobby", "inline"}
    <2>1. Active(th) /\ Doing(th) /\ ClassOf(th) \in Class /\ Without({r})
      BY <1>1, AtHook
    <2> QED BY <2>1, InjectorAssumption DEF Shape, TypeOK, DlopenAt
  <1>3. OriginalKept' /\ OnlyThese'
    BY <1>1 DEF Calm, OriginalKept, OnlyThese, Only
  <1>4. CASE UNCHANGED <<pc, tgt>>
    BY <1>1, <1>4, CalmSame
  <1> DEFINE Placed == /\ \E a \in Int : AddressOf(r, a) /\ tgt' = [tgt EXCEPT ![th] = a]
                       /\ \/ pc' = [pc EXCEPT ![th] = RouteOf[r]]
                          \/ lib = "inline" /\ pc' = [pc EXCEPT ![th] = CommitOf[r]]
             Passed == tgt' = tgt /\ pc' = [pc EXCEPT ![th] = After(th, r)]
             Goal == \E l \in Label : /\ pc' = [pc EXCEPT ![th] = l]
                                      /\ l \notin Quiet => Doing(th)'
                                      /\ l \in Quiet => Resting'
  <1>5. ASSUME Passed \/ Placed PROVE Goal
    <2>1. CASE r = "dlopen"
      <3>1. /\ entry = {} /\ patched = {} /\ ~got /\ ~handle /\ "opened" \notin hist
            /\ FromFile /\ cls[th] = 0
        BY <1>1, <1>2, <2>1 DEF Doing, AtDlopen
      <3>2. CASE Passed
        <4>1. "idle" \in Label \cap Quiet /\ After(th, r) = "idle"
          BY <2>1 DEF After, Label, Quiet
        <4>2. Resting'
          BY <1>1, <1>2, <3>1 DEF Resting, OfClass, Only, DlopenHooked, MethodsHooked
        <4> QED BY <3>2, <4>1, <4>2
      <3>3. CASE Placed
        <4>1. PICK l \in {"dlopenR", "dlopenC"} : pc' = [pc EXCEPT ![th] = l]
          BY <2>1, <3>3 DEF RouteOf, CommitOf
        <4>2. /\ l \in Label /\ pc'[th] = l /\ tgt'[th] = DlopenAt
              /\ l = "dlopenC" => lib = "inline"
          BY <1>2, <2>1, <3>3, <4>1 DEF Label, AddressOf, RouteOf
        <4>3. AtDlopen(th)'
          BY <1>1, <3>1, <4>2 DEF AtDlopen, Without, Only, FromFile
        <4>4. AtMethods(th)' /\ AtText(th)' /\ AtClass(th)' /\ Entering(th)'
          BY <1>1, <3>1, <4>1, <4>2 DEF AtMethods, AtText, HookingText, AtClass, Enumerating, Entering,
                                   DlopenHooked, MethodsHooked
        <4> QED BY <4>1, <4>2, <4>3, <4>4 DEF Doing, Quiet
      <3> QED BY <1>5, <3>2, <3>3
    <2>2. CASE r = "methods"
      <3>1. /\ Without(Text) /\ FromFile /\ ~got /\ cls[th] = 0
            /\ handle => base = Base /\ "opened" \in hist
            /\ ~MethodsHooked /\ Without({"methods"}) /\ aget = 0 /\ aset = 0
            /\ DlopenHooked => "opened" \in hist
        BY <1>1, <1>2, <2>2 DEF Doing, AtMethods, Entering
      <3>2. CASE Passed
        <4>1. After(th, r) \in Label \cap Quiet
          BY <2>2 DEF After, Out, Label, Quiet
        <4>2. Resting'
          BY <1>1, <1>2, <3>1 DEF Resting, OfClass, Only, DlopenHooked, MethodsHooked, Without, Text
        <4> QED BY <3>2, <4>1, <4>2
      <3>3. CASE Placed
        <4>1. PICK l \in {"methodsR", "methodsC"} : pc' = [pc EXCEPT ![th] = l]
          BY <2>2, <3>3 DEF RouteOf, CommitOf
        <4>2. /\ l \in Label /\ pc'[th] = l /\ tgt'[th] = MethodsAt /\ handle
              /\ l = "methodsC" => lib = "inline"
          BY <1>2, <2>2, <3>3, <4>1 DEF Label, AddressOf, RouteOf
        <4>3. AtMethods(th)'
          BY <1>1, <3>1, <4>2 DEF AtMethods, Without, FromFile, MethodsHooked
        <4>4. AtDlopen(th)' /\ AtText(th)' /\ AtClass(th)' /\ Entering(th)'
          BY <1>1, <3>1, <4>1, <4>2 DEF AtDlopen, AtText, HookingText, AtClass, Enumerating, Entering,
                                   DlopenHooked, MethodsHooked
        <4> QED BY <4>1, <4>2, <4>3, <4>4 DEF Doing, Quiet
      <3> QED BY <1>5, <3>2, <3>3
    <2>3. CASE r \in Text
      <3>0. PICK c \in Class : c = ClassOf(th)
        BY <1>2
      <3>1. /\ aget = GetOff(c) /\ aset \in {0, SetOff(c)}
            /\ OfClass(c) /\ ~got
            /\ cls[th] = 0 => Without({"methods"})
            /\ cls[th] # 0 => base = Base /\ aset # 0 /\ kind[th] = "set" /\ "opened" \in hist
            /\ DlopenHooked => "opened" \in hist
            /\ MethodsHooked => cls[th] # 0
            /\ Without({"set"}) /\ (r = "get" => Without(Text))
        <4>1. AtText(th) /\ Entering(th) /\ pc[th] \in HookingText
          BY <1>1, <1>2, <2>3 DEF Doing, HookingText, Text
        <4>2. Without({"set"}) /\ (r = "get" => Without(Text))
          BY <1>1, <1>2, <2>3, <4>1 DEF AtText, Without, Text
        <4> QED BY <3>0, <4>1, <4>2 DEF AtText, Entering
      <3>2. ClassOf(th)' = c
        BY <1>1, <3>0 DEF ClassOf
      <3>3. /\ aget' = GetOff(c) /\ aset' \in {0, SetOff(c)} /\ OfClass(c)' /\ ~got'
            /\ cls'[th] = 0 => Without({"methods"})'
            /\ cls'[th] # 0 => base' = Base /\ aset' # 0 /\ kind'[th] = "set" /\ "opened" \in hist'
            /\ Without({"set"})' /\ (r = "get" => Without(Text)')
            /\ Entering(th)'
        BY <1>1, <3>1 DEF OfClass, Only, Without, Entering, DlopenHooked, MethodsHooked
      <3>4. CASE Passed /\ r = "set" /\ cls[th] = 0
        <4>1. After(th, r) \in Label \cap Quiet
          BY <3>4 DEF After, Out, Label, Quiet
        <4>2. Resting'
          <5>1. \E d \in Class : OfClass(d)'
            <6> WITNESS c \in Class
            <6> QED BY <3>3
          <5>2. ~MethodsHooked' /\ (DlopenHooked' => "opened" \in hist')
            BY <1>1, <3>1, <3>4 DEF MethodsHooked, DlopenHooked
          <5> QED BY <5>1, <5>2 DEF Resting
        <4> QED BY <3>4, <4>1, <4>2
      <3>5. CASE Passed /\ ~(r = "set" /\ cls[th] = 0)
        <4>1. PICK l \in {"set", "got"} : /\ pc' = [pc EXCEPT ![th] = l]
                                          /\ l = "got" => cls[th] # 0
          BY <2>3, <3>5 DEF After, Text
        <4>2. l \in Label /\ pc'[th] = l /\ l \notin Quiet
          BY <1>2, <4>1 DEF Label, Quiet
        <4>3. AtDlopen(th)' /\ AtMethods(th)'
          BY <4>1, <4>2 DEF AtDlopen, AtMethods
        <4>4. AtText(th)'
          BY <3>2, <3>3, <4>1, <4>2 DEF AtText
        <4>5. AtClass(th)'
          <5>1. l = "got" => c = cls'[th] /\ cls'[th] # 0
            BY <1>1, <3>0, <4>1 DEF ClassOf
          <5> QED BY <3>3, <4>1, <4>2, <5>1 DEF AtClass, Enumerating
        <4> QED BY <3>3, <4>1, <4>2, <4>3, <4>4, <4>5 DEF Doing
      <3>6. CASE Placed
        <4>1. PICK l \in {RouteOf[r], CommitOf[r]} : pc' = [pc EXCEPT ![th] = l]
          BY <3>6
        <4>2. /\ l \in {"getR", "getC", "setR", "setC"} /\ pc'[th] = l /\ l \in Label /\ l \notin Quiet
              /\ l \in {"getR", "getC"} <=> r = "get"
              /\ l \in {"getC", "setC"} => lib = "inline"
          BY <1>2, <2>3, <3>6, <4>1 DEF RouteOf, CommitOf, Label, Quiet, Text
        <4>3. PICK a \in Int : AddressOf(r, a) /\ tgt' = [tgt EXCEPT ![th] = a]
          BY <3>6
        <4>4. /\ tgt'[th] = a
              /\ r = "get" => a = Base + GetOff(c)
              /\ r = "set" => a = Base + SetOff(c)
          <5>1. aget = GetOff(c) /\ aset \in {0, SetOff(c)}
            BY <1>1, <3>3
          <5> QED BY <1>2, <4>3, <5>1 DEF AddressOf
        <4>5. AtDlopen(th)' /\ AtMethods(th)' /\ AtClass(th)'
          BY <4>2 DEF AtDlopen, AtMethods, AtClass, Enumerating
        <4>6. AtText(th)'
          BY <1>1, <2>3, <3>2, <3>3, <4>2, <4>4 DEF AtText, Text
        <4> QED BY <3>3, <4>1, <4>2, <4>5, <4>6 DEF Doing
      <3> QED BY <1>5, <3>4, <3>5, <3>6
    <2> QED BY <2>1, <2>2, <2>3 DEF Repl, Text
  <1>6. Goal => Calm'
    BY <1>2, <1>3, CalmSolo
  <1> QED BY <1>4, <1>5, <1>6 DEF HookOf

(* DobbyHook's dispatch and registerInlineHook's new item.                 *)
LEMMA CalmPlace ==
  ASSUME Shape, Calm, NEW th \in Thread, NEW r \in Repl, Dispatch(th, r) \/ Registered(th, r)
  PROVE  Calm'
  <1> USE DEF At, Goto, address, dobby, iter
  <1>1. /\ UNCHANGED <<lib, aget, aset, base, handle, got, patched, tgt, cls, kind, hist>>
        /\ pc[th] = RouteOf[r] /\ pc' = [pc EXCEPT ![th] = CommitOf[r]]
        /\ entry' = entry \cup {<<r, tgt[th]>>}
    BY DEF Dispatch, Registered
  <1>2. /\ Active(th) /\ Doing(th) /\ ClassOf(th) \in Class /\ Without({r})
        /\ tgt[th] = Target(th, r) /\ Only(r, Target(th, r))
    BY <1>1, AtHook
  <1>3. /\ pc \in [Thread -> Label] /\ patched \subseteq entry /\ old \in [Repl -> Int]
        /\ tgt[th] \in Int
    BY DEF Shape, TypeOK
  <1>4. PICK T \in Int : T = tgt[th]
    BY <1>3
  <1>5. PICK c \in Class : c = ClassOf(th)
    BY <1>2
  <1>6. ClassOf(th)' = c
    BY <1>1, <1>5 DEF ClassOf
  <1>7. /\ lib = "dobby" => old'[r] = T
        /\ \A q \in Repl : q # r => old'[q] = old[q]
    <2>1. Original(r, tgt[th]) = T
      BY <1>2, <1>3, <1>4 DEF Original, Without
    <2> QED BY <1>3, <2>1 DEF Dispatch, Registered
  <1>8. OriginalKept'
    <2>1. \A h \in patched : h[1] # r /\ h[1] \in Repl
      BY <1>2, <1>3 DEF Without, Shape, TypeOK
    <2> QED BY <1>1, <1>7, <2>1 DEF Calm, OriginalKept
  <1>9. OnlyThese'
    <2>1. /\ r = "dlopen" => tgt[th] = DlopenAt
          /\ r = "methods" => tgt[th] = MethodsAt
      BY <1>2 DEF Target
    <2> QED BY <1>1, <2>1 DEF Calm, OnlyThese, Only
  <1>10. CASE r = "dlopen"
    <2>1. /\ Without(Text \cup {"methods"}) /\ Only("dlopen", DlopenAt)
          /\ patched = {} /\ ~got /\ ~handle /\ "opened" \notin hist /\ FromFile /\ cls[th] = 0
          /\ tgt[th] = DlopenAt
      BY <1>1, <1>2, <1>10 DEF Doing, AtDlopen, RouteOf
    <2>2. pc' = [pc EXCEPT ![th] = "dlopenC"] /\ pc'[th] = "dlopenC" /\ "dlopenC" \in Label \ Quiet
      BY <1>1, <1>3, <1>10 DEF CommitOf, Label, Quiet
    <2>3. Without(Text \cup {"methods"})' /\ Only("dlopen", DlopenAt)' /\ FromFile'
      BY <1>1, <1>10, <2>1 DEF Without, Only, FromFile, Text
    <2>4. lib' = "dobby" => old'["dlopen"] = DlopenAt
      BY <1>1, <1>4, <1>7, <1>10, <2>1
    <2>5. AtDlopen(th)'
      BY <1>1, <2>1, <2>2, <2>3, <2>4 DEF AtDlopen
    <2>6. AtMethods(th)' /\ AtText(th)' /\ AtClass(th)'
      BY <2>2 DEF AtMethods, AtText, HookingText, AtClass, Enumerating
    <2>7. Entering(th)'
      BY <1>1, <2>1 DEF Entering, DlopenHooked, MethodsHooked
    <2> QED BY <1>2, <1>8, <1>9, <2>2, <2>5, <2>6, <2>7, CalmSolo DEF Doing
  <1>11. CASE r = "methods"
    <2>1. /\ Without(Text) /\ FromFile /\ ~got /\ cls[th] = 0 /\ handle
          /\ base = Base /\ "opened" \in hist
          /\ ~MethodsHooked /\ aget = 0 /\ aset = 0 /\ tgt[th] = MethodsAt
      BY <1>1, <1>2, <1>11 DEF Doing, AtMethods, RouteOf
    <2>2. pc' = [pc EXCEPT ![th] = "methodsC"] /\ pc'[th] = "methodsC" /\ "methodsC" \in Label \ Quiet
      BY <1>1, <1>3, <1>11 DEF CommitOf, Label, Quiet
    <2>3. Without(Text)' /\ FromFile' /\ ~MethodsHooked'
      BY <1>1, <1>11, <2>1 DEF Without, FromFile, Text, MethodsHooked
    <2>4. lib' = "dobby" => old'["methods"] = MethodsAt
      BY <1>1, <1>4, <1>7, <1>11, <2>1
    <2>5. AtMethods(th)'
      BY <1>1, <2>1, <2>2, <2>3, <2>4 DEF AtMethods
    <2>6. AtDlopen(th)' /\ AtText(th)' /\ AtClass(th)'
      BY <2>2 DEF AtDlopen, AtText, HookingText, AtClass, Enumerating
    <2>7. Entering(th)'
      BY <1>1, <2>1, <2>3 DEF Entering, DlopenHooked
    <2> QED BY <1>2, <1>8, <1>9, <2>2, <2>5, <2>6, <2>7, CalmSolo DEF Doing
  <1>12. CASE r \in Text
    <2>1. /\ aget = GetOff(c) /\ aset \in {0, SetOff(c)} /\ OfClass(c) /\ ~got
          /\ cls[th] = 0 => Without({"methods"})
          /\ cls[th] # 0 => base = Base /\ aset # 0 /\ kind[th] = "set" /\ "opened" \in hist
          /\ DlopenHooked => "opened" \in hist
          /\ MethodsHooked => cls[th] # 0
      BY <1>1, <1>2, <1>5, <1>12 DEF Doing, AtText, Entering, HookingText, Text, RouteOf
    <2>2. /\ T = tgt[th]
          /\ r = "get" => T = Base + GetOff(c) /\ Without({"set"})
          /\ r = "set" => T = Base + SetOff(c)
      <3>1. r = "get" => Without({"set"})
        BY <1>1, <1>2 DEF Doing, AtText, Without, Text, RouteOf
      <3> QED BY <1>2, <1>4, <1>5, <3>1 DEF Target
    <2>3. PICK l \in {"getC", "setC"} : /\ l = CommitOf[r] /\ (l = "getC" <=> r = "get")
                                       /\ (l = "setC" <=> r = "set")
      BY <1>12 DEF CommitOf, Text
    <2>4. l \in Label /\ l \notin Quiet /\ pc' = [pc EXCEPT ![th] = l] /\ pc'[th] = l
      BY <1>1, <1>3, <2>3 DEF Label, Quiet
    <2>5. /\ aget' = GetOff(c) /\ aset' \in {0, SetOff(c)} /\ OfClass(c)' /\ ~got'
          /\ cls'[th] = 0 => Without({"methods"})'
          /\ cls'[th] # 0 => base' = Base /\ aset' # 0 /\ kind'[th] = "set" /\ "opened" \in hist'
          /\ r = "get" => Without({"set"})'
          /\ tgt'[th] = T
      <3>1. /\ OfClass(c)'
            /\ Without({"methods"}) => Without({"methods"})'
            /\ r = "get" => Without({"set"})'
        BY <1>1, <1>4, <1>12, <2>1, <2>2 DEF OfClass, Only, Without, Text
      <3> QED BY <1>1, <1>4, <2>1, <3>1
    <2>6. AtText(th)'
      BY <1>1, <1>6, <1>7, <2>2, <2>3, <2>4, <2>5 DEF AtText
    <2>7. AtDlopen(th)' /\ AtMethods(th)' /\ AtClass(th)'
      BY <2>4 DEF AtDlopen, AtMethods, AtClass, Enumerating
    <2>8. Entering(th)'
      BY <1>1, <2>1 DEF Entering, DlopenHooked, MethodsHooked
    <2> QED BY <1>2, <1>8, <1>9, <2>4, <2>6, <2>7, <2>8, CalmSolo DEF Doing
  <1> QED BY <1>10, <1>11, <1>12 DEF Repl, Text

(* DobbyHook's commit and inlineHook.                                      *)
LEMMA CalmPatch ==
  ASSUME Shape, Calm, NEW th \in Thread, NEW r \in Repl, Commit(th, r) \/ inlineHook(th, r)
  PROVE  Calm'
  <1> USE DEF At, Goto, address, dobby, iter
  <1>1. /\ UNCHANGED <<lib, aget, aset, base, handle, got, entry, cls, kind, hist>>
        /\ pc[th] = CommitOf[r] /\ pc' = [pc EXCEPT ![th] = After(th, r)]
    BY DEF Commit, inlineHook
  <1>2. /\ Active(th) /\ Doing(th) /\ ClassOf(th) \in Class
        /\ tgt[th] = Target(th, r) /\ Only(r, Target(th, r))
        /\ lib = "dobby" => old[r] = tgt[th]
        /\ \A h \in entry : h[2] = tgt[th] => h = <<r, tgt[th]>>
    <2>1. pc[th] \in {r, RouteOf[r], CommitOf[r]} /\ pc[th] \in {RouteOf[r], CommitOf[r]}
      BY <1>1
    <2>2. \A h \in entry : h[2] = Target(th, r) => h = <<r, h[2]>>
      BY <2>1, AtHook
    <2>3. tgt[th] = Target(th, r)
      BY <2>1, AtHook
    <2>4. \A h \in entry : h[2] = tgt[th] => h = <<r, tgt[th]>>
      BY <2>2, <2>3
    <2> QED BY <1>1, <2>1, <2>4, AtHook
  <1>3. /\ pc \in [Thread -> Label] /\ patched \subseteq entry /\ old \in [Repl -> Int]
        /\ tgt[th] \in Int /\ cls[th] \in Class \cup {0} /\ 1 \in Class
        /\ After(th, r) \in Label
    BY InjectorAssumption, AfterCases DEF Shape, TypeOK, Label
  <1>4. PICK T \in Int : T = tgt[th]
    BY <1>3
  <1>5. PICK c \in Class : c = ClassOf(th)
    BY <1>2
  <1>6. ClassOf(th)' = c
    BY <1>1, <1>5 DEF ClassOf
  <1>7. \/ old' = old /\ patched' = patched
        \/ /\ old'[r] = T /\ \A q \in Repl : q # r => old'[q] = old[q]
           /\ patched' = patched \cup {<<r, T>>}
    <2>1. CASE Commit(th, r)
      BY <1>2, <1>4, <2>1 DEF Commit
    <2>2. CASE inlineHook(th, r)
      <3>1. \A h \in entry : h[2] = tgt[th] => h = <<r, T>> /\ h[1] = r
        BY <1>2, <1>4
      <3> QED BY <1>3, <1>4, <2>2, <3>1 DEF inlineHook
    <2> QED BY <2>1, <2>2
  <1>8. OriginalKept'
    <2>1. \A h \in patched : h[1] \in Repl /\ (h[1] = r => h[2] = T)
      BY <1>2, <1>3, <1>4 DEF Only, Shape, TypeOK
    <2> QED BY <1>7, <2>1 DEF Calm, OriginalKept
  <1>9. OnlyThese'
    BY <1>1 DEF Calm, OnlyThese, Only
  <1>10. /\ DlopenHooked' => DlopenHooked \/ r = "dlopen"
         /\ MethodsHooked' => MethodsHooked \/ r = "methods"
    BY <1>7 DEF DlopenHooked, MethodsHooked
  <1>11. CASE r = "dlopen"
    <2>1. /\ Without(Text \cup {"methods"}) /\ ~got /\ FromFile /\ patched = {}
      BY <1>1, <1>2, <1>11 DEF Doing, AtDlopen, CommitOf
    <2>2. After(th, r) = "idle" /\ "idle" \in Quiet
      BY <1>11 DEF After, Quiet
    <2>3. /\ Without(Text \cup {"methods"})' /\ ~got' /\ FromFile' /\ ~MethodsHooked'
          /\ OfClass(1)'
      BY <1>1, <1>10, <1>11, <2>1 DEF Without, FromFile, MethodsHooked, OfClass, Only, Text
    <2>4. Resting'
      <3>1. \E d \in Class : OfClass(d)'
        BY <1>3, <2>3
      <3> QED BY <2>3, <3>1 DEF Resting
    <2> QED BY <1>1, <1>2, <1>3, <1>8, <1>9, <2>2, <2>4, CalmSolo
  <1>12. CASE r = "methods"
    <2>1. /\ Without(Text) /\ handle /\ base = Base /\ "opened" \in hist /\ aget = 0 /\ aset = 0
      BY <1>1, <1>2, <1>12 DEF Doing, AtMethods, CommitOf
    <2>2. After(th, r) \in Quiet
      BY <1>12 DEF After, Out, Quiet
    <2>3. Without(Text)' /\ OfClass(1)'
      BY <1>1, <2>1 DEF Without, OfClass, Only, Text
    <2>4. Resting'
      <3>1. \E d \in Class : OfClass(d)'
        BY <1>3, <2>3
      <3> QED BY <1>1, <2>1, <2>3, <3>1 DEF Resting
    <2> QED BY <1>1, <1>2, <1>3, <1>8, <1>9, <2>2, <2>4, CalmSolo
  <1>13. CASE r \in Text
    <2>1. /\ aget = GetOff(c) /\ aset \in {0, SetOff(c)} /\ OfClass(c) /\ ~got
          /\ cls[th] = 0 => Without({"methods"})
          /\ cls[th] # 0 => base = Base /\ aset # 0 /\ kind[th] = "set" /\ "opened" \in hist
          /\ DlopenHooked => "opened" \in hist
          /\ MethodsHooked => cls[th] # 0
          /\ r = "get" => Without({"set"})
      BY <1>1, <1>2, <1>5, <1>13 DEF Doing, AtText, Entering, HookingText, Text, CommitOf
    <2>2. /\ OfClass(c)' /\ (cls'[th] = 0 => Without({"methods"})') /\ (r = "get" => Without({"set"})')
          /\ Entering(th)'
      BY <1>1, <1>10, <1>13, <2>1 DEF OfClass, Only, Without, Entering, Text
    <2>3. CASE r = "set" /\ cls[th] = 0
      <3>1. After(th, r) \in Quiet
        BY <2>3 DEF After, Out, Quiet
      <3>2. Resting'
        <4>1. \E d \in Class : OfClass(d)'
          BY <2>2
        <4>2. ~MethodsHooked' /\ (DlopenHooked' => "opened" \in hist')
          BY <1>1, <1>10, <2>1, <2>3
        <4> QED BY <4>1, <4>2 DEF Resting
      <3> QED BY <1>1, <1>2, <1>3, <1>8, <1>9, <3>1, <3>2, CalmSolo
    <2>4. CASE ~(r = "set" /\ cls[th] = 0)
      <3>1. PICK l \in {"set", "got"} : /\ pc' = [pc EXCEPT ![th] = l]
                                        /\ l = "got" => cls[th] # 0
                                        /\ l = "set" => r = "get"
        BY <1>1, <1>13, <2>4 DEF After, Text
      <3>2. l \in Label /\ pc'[th] = l /\ l \notin Quiet
        BY <1>3, <3>1 DEF Label, Quiet
      <3>3. AtDlopen(th)' /\ AtMethods(th)'
        BY <3>1, <3>2 DEF AtDlopen, AtMethods
      <3>4. AtText(th)'
        BY <1>1, <1>6, <2>1, <2>2, <3>1, <3>2 DEF AtText, HookingText
      <3>5. AtClass(th)'
        <4>1. l = "got" => c = cls'[th]
          BY <1>1, <1>5, <3>1 DEF ClassOf
        <4> QED BY <1>1, <2>1, <2>2, <3>1, <3>2, <4>1 DEF AtClass, Enumerating
      <3> QED BY <1>2, <1>8, <1>9, <2>2, <3>1, <3>2, <3>3, <3>4, <3>5, CalmSolo DEF Doing
    <2> QED BY <2>3, <2>4
  <1> QED BY <1>11, <1>12, <1>13 DEF Repl, Text

(* new_func_dlopen after the load: which hooks come next.                  *)
LEMMA CalmRouted ==
  ASSUME Shape, Calm, NEW th \in Thread, OpenRouted(th)
  PROVE  Calm'
  <1> USE DEF At, Goto, address, dobby, iter
  <1>1. /\ UNCHANGED <<lib, aget, aset, base, handle, got, entry, patched, old, tgt, cls, kind, hist>>
        /\ pc[th] = "opened" /\ pc' = [pc EXCEPT ![th] = ByAddress]
    BY DEF OpenRouted
  <1>2. Active(th) /\ Doing(th) /\ pc \in [Thread -> Label] /\ 1 \in Class
    BY <1>1, InjectorAssumption DEF Calm, Active, Quiet, Shape, TypeOK
  <1>3. OriginalKept' /\ OnlyThese'
    BY <1>1 DEF Calm, OriginalKept, OnlyThese, Only
  <1>4. /\ Without(Text) /\ FromFile /\ ~got /\ cls[th] = 0
        /\ handle => base = Base /\ "opened" \in hist
        /\ ~MethodsHooked /\ Without({"methods"}) /\ "opened" \in hist
    BY <1>1, <1>2 DEF Doing, AtMethods
  <1>5. PICK l \in {"methods", "get"} :
          /\ pc' = [pc EXCEPT ![th] = l]
          /\ l = "methods" => aget = 0 /\ aset = 0
          /\ l = "get" => ~(aget = 0 /\ aset = 0)
    BY <1>1 DEF ByAddress
  <1>6. l \in Label /\ l \notin Quiet /\ pc'[th] = l
    BY <1>2, <1>5 DEF Label, Quiet
  <1>7. AtDlopen(th)' /\ AtClass(th)'
    BY <1>6, <1>5 DEF AtDlopen, AtClass, Enumerating
  <1>8. AtMethods(th)'
    BY <1>1, <1>4, <1>5, <1>6 DEF AtMethods, Without, FromFile, MethodsHooked
  <1>9. AtText(th)'
    <2>1. CASE l = "get"
      <3>1. /\ ClassOf(th)' = 1 /\ aget' = GetOff(1) /\ aset' \in {0, SetOff(1)} /\ cls'[th] = 0
        BY <1>1, <1>4, <1>5, <2>1 DEF ClassOf, FromFile
      <3>2. OfClass(1)' /\ Without(Text)' /\ Without({"methods"})' /\ ~got'
        BY <1>1, <1>4 DEF OfClass, Only, Without, Text
      <3> QED BY <1>6, <2>1, <3>1, <3>2 DEF AtText, HookingText
    <2>2. CASE l = "methods"
      BY <1>6, <2>2 DEF AtText, HookingText
    <2> QED BY <2>1, <2>2
  <1>10. Entering(th)'
    BY <1>1, <1>4 DEF Entering, MethodsHooked
  <1> QED BY <1>2, <1>3, <1>5, <1>6, <1>7, <1>8, <1>9, <1>10, CalmSolo DEF Doing

(* new_func_get_methods, up to the hooks and after them.                   *)
LEMMA CalmMethods ==
  ASSUME Shape, Calm, NEW th \in Thread,
         new_func_get_methods(th) \/ TestPair(th) \/ SubtractGet(th) \/ SubtractSet(th) \/ MarkGot(th)
  PROVE  Calm'
  <1> USE DEF At, Goto, address, dobby, iter
  <1>1. /\ UNCHANGED <<lib, base, handle, entry, patched, old, tgt, hist>>
        /\ pc[th] \in {"fetch", "test", "subGet", "subSet", "got"}
    BY DEF new_func_get_methods, TestPair, SubtractGet, SubtractSet, MarkGot
  <1>2. /\ Active(th) /\ Doing(th) /\ pc \in [Thread -> Label] /\ cls[th] \in Class
        /\ cls \in [Thread -> Class \cup {0}] /\ kind \in [Thread -> {"get", "set"}]
        /\ Class \subseteq Nat \ {0} /\ Base \in Nat /\ Base > 0
    BY <1>1, InjectorAssumption DEF Calm, Active, Quiet, Shape, TypeOK, HasClass, Enumerating, DlopenAt
  <1>3. PICK c \in Class : c = cls[th]
    BY <1>2
  <1>4. c # 0 /\ GetOff(c) \in Nat \ {0} /\ SetOff(c) \in Nat \ {0}
    BY <1>2 DEF GetOff, SetOff
  <1>5. OriginalKept' /\ OnlyThese'
    BY <1>1 DEF Calm, OriginalKept, OnlyThese, Only
  <1>6. /\ base = Base /\ "opened" \in hist
        /\ pc[th] \in {"fetch", "test"} /\ got => \E d \in Class : OfClass(d)
        /\ pc[th] \in {"fetch", "test"} /\ ~got =>
            /\ Without(Text)
            /\ aget = IF pc[th] = "fetch" /\ kind[th] = "get" THEN 0 ELSE Base + GetOff(c)
            /\ aset = IF pc[th] = "fetch" \/ kind[th] = "get" THEN 0 ELSE Base + SetOff(c)
        /\ pc[th] \in {"subGet", "subSet"} =>
             /\ Without(Text) /\ ~got /\ kind[th] = "set"
             /\ aget = IF pc[th] = "subGet" THEN Base + GetOff(c) ELSE GetOff(c)
             /\ aset = Base + SetOff(c)
        /\ pc[th] = "got" => OfClass(c) /\ kind[th] = "set"
    BY <1>1, <1>2, <1>3 DEF Doing, AtClass, Enumerating
  <1>7. /\ Without(Text) => Without(Text)'
        /\ \A d \in Class : OfClass(d) => OfClass(d)'
        /\ Without(Text) => OfClass(c)'
    BY <1>1 DEF Without, OfClass, Only, Text
  <1>8. (MethodsHooked => cls'[th] # 0) => Entering(th)'
    BY <1>1, <1>6 DEF Entering, DlopenHooked, MethodsHooked
  <1>9. \A l \in {"fetch", "test", "subGet", "subSet", "get"} :
          pc'[th] = l => /\ AtDlopen(th)' /\ AtMethods(th)'
                         /\ l # "get" => AtText(th)'
                         /\ l = "get" => AtClass(th)'
    BY DEF AtDlopen, AtMethods, AtText, HookingText, AtClass, Enumerating
  <1>a. {"fetch", "test", "subGet", "subSet", "get"} \subseteq Label \ Quiet /\ "idle" \in Label \cap Quiet
    BY DEF Label, Quiet
  <1>10. CASE new_func_get_methods(th)
    <2>1. /\ pc[th] = "fetch" /\ pc' = [pc EXCEPT ![th] = "test"] /\ pc'[th] = "test"
          /\ got' = got /\ cls' = cls /\ kind' = kind
          /\ aget' = IF kind[th] = "get" THEN Base + GetOff(c) ELSE aget
          /\ aset' = IF kind[th] = "set" THEN Base + SetOff(c) ELSE aset
      BY <1>2, <1>3, <1>10 DEF new_func_get_methods
    <2>2. kind[th] \in {"get", "set"}
      BY <1>2
    <2>3. got => \E d \in Class : OfClass(d)'
      BY <1>6, <1>7, <2>1
    <2>4. AtClass(th)'
      BY <1>1, <1>3, <1>6, <1>7, <2>1, <2>2, <2>3 DEF AtClass, Enumerating
    <2>5. Entering(th)'
      BY <1>3, <1>4, <1>8, <2>1
    <2> QED BY <1>2, <1>5, <1>9, <1>a, <2>1, <2>4, <2>5, CalmSolo DEF Doing
  <1>11. CASE SubtractGet(th)
    <2>1. /\ pc[th] = "subGet" /\ pc' = [pc EXCEPT ![th] = "subSet"] /\ pc'[th] = "subSet"
          /\ got' = got /\ cls' = cls /\ kind' = kind /\ aget' = aget - base /\ aset' = aset
      BY <1>2, <1>11 DEF SubtractGet
    <2>2. aget' = GetOff(c)
      BY <1>2, <1>4, <1>6, <2>1
    <2>3. AtClass(th)'
      BY <1>1, <1>3, <1>6, <1>7, <2>1, <2>2 DEF AtClass, Enumerating
    <2>4. Entering(th)'
      BY <1>3, <1>4, <1>8, <2>1
    <2> QED BY <1>2, <1>5, <1>9, <1>a, <2>1, <2>3, <2>4, CalmSolo DEF Doing
  <1>12. CASE SubtractSet(th)
    <2>1. /\ pc[th] = "subSet" /\ pc' = [pc EXCEPT ![th] = "get"] /\ pc'[th] = "get"
          /\ got' = got /\ cls' = cls /\ kind' = kind /\ aset' = aset - base /\ aget' = aget
      BY <1>2, <1>12 DEF SubtractSet
    <2>2. aset' = SetOff(c) /\ aget' = GetOff(c)
      BY <1>2, <1>4, <1>6, <2>1
    <2>3. ClassOf(th)' = c /\ cls'[th] # 0 /\ aset' # 0 /\ base' = Base
      BY <1>1, <1>3, <1>4, <1>6, <2>1, <2>2 DEF ClassOf
    <2>4. AtText(th)'
      BY <1>1, <1>6, <1>7, <2>1, <2>2, <2>3 DEF AtText, HookingText
    <2>5. Entering(th)'
      BY <1>8, <2>3
    <2> QED BY <1>2, <1>5, <1>9, <1>a, <2>1, <2>4, <2>5, CalmSolo DEF Doing
  <1>13. CASE TestPair(th)
    <2>1. pc[th] = "test" /\ UNCHANGED <<aget, aset, got>>
      BY <1>13 DEF TestPair
    <2>2. CASE aget # 0 /\ aset # 0 /\ ~got
      <3>1. /\ pc' = [pc EXCEPT ![th] = "subGet"] /\ pc'[th] = "subGet" /\ cls' = cls /\ kind' = kind
        BY <1>2, <1>13, <2>2 DEF TestPair
      <3>2. kind[th] = "set"
        BY <1>2, <1>6, <2>1, <2>2
      <3>3. AtClass(th)'
        BY <1>1, <1>3, <1>6, <1>7, <2>1, <2>2, <3>1, <3>2 DEF AtClass, Enumerating
      <3>4. Entering(th)'
        BY <1>3, <1>4, <1>8, <3>1
      <3> QED BY <1>2, <1>5, <1>9, <1>a, <3>1, <3>3, <3>4, CalmSolo DEF Doing
    <2>3. CASE ~(aget # 0 /\ aset # 0 /\ ~got) /\ kind[th] = "get"
      <3>1. /\ pc' = [pc EXCEPT ![th] = "fetch"] /\ pc'[th] = "fetch" /\ cls' = cls
            /\ kind' = [kind EXCEPT ![th] = "set"] /\ kind'[th] = "set"
        BY <1>2, <1>13, <2>3 DEF TestPair, Advance
      <3>2. got => \E d \in Class : OfClass(d)'
        BY <1>6, <1>7, <2>1
      <3>3. AtClass(th)'
        BY <1>1, <1>3, <1>6, <1>7, <2>1, <2>3, <3>1, <3>2 DEF AtClass, Enumerating
      <3>4. Entering(th)'
        BY <1>3, <1>4, <1>8, <3>1
      <3> QED BY <1>2, <1>5, <1>9, <1>a, <3>1, <3>3, <3>4, CalmSolo DEF Doing
    <2>4. CASE ~(aget # 0 /\ aset # 0 /\ ~got) /\ kind[th] # "get"
      <3>1. pc' = [pc EXCEPT ![th] = "idle"]
        BY <1>2, <1>13, <2>4 DEF TestPair, Advance
      <3>2. got
        <4>1. ~got => aget = Base + GetOff(c) /\ aset = Base + SetOff(c)
          BY <1>6, <2>1, <2>4
        <4> QED BY <1>2, <1>4, <2>4, <4>1
      <3>3. \E d \in Class : OfClass(d)'
        BY <1>6, <1>7, <2>1, <3>2
      <3>4. Resting'
        BY <1>1, <1>6, <2>1, <3>2, <3>3 DEF Resting
      <3> QED BY <1>2, <1>5, <1>a, <3>1, <3>4, CalmSolo
    <2> QED BY <2>2, <2>3, <2>4
  <1>14. CASE MarkGot(th)
    <2>1. pc[th] = "got" /\ kind[th] = "set" /\ got' = TRUE /\ OfClass(c)
      BY <1>6, <1>14 DEF MarkGot
    <2>2. pc' = [pc EXCEPT ![th] = "idle"]
      BY <1>14, <2>1 DEF MarkGot, Advance
    <2>3. \E d \in Class : OfClass(d)'
      BY <1>7, <2>1
    <2>4. Resting'
      BY <1>1, <1>6, <2>1, <2>3 DEF Resting
    <2> QED BY <1>2, <1>5, <1>a, <2>2, <2>4, CalmSolo
  <1> QED BY <1>10, <1>11, <1>12, <1>13, <1>14

(* What a thread of the game does from outside: it loads a library, calls  *)
(* dlopen's or the methods' replacement, or unhooks dlopen.                *)
LEMMA CalmOutside ==
  ASSUME Shape, Calm, ~Disturbed', NEW th \in Thread,
         \/ PlainOpen(th) \/ Leave(th) \/ new_func_dlopen(th) \/ UnhookDlopen(th)
         \/ \E c \in Class : Enumerate(th, c)
  PROVE  Calm'
  <1> USE DEF At, Goto, address, dobby, iter
  <1>1. /\ pc \in [Thread -> Label] /\ cls \in [Thread -> Class \cup {0}]
        /\ kind \in [Thread -> {"get", "set"}] /\ patched \subseteq entry
        /\ 1 \in Class /\ Class \subseteq Nat \ {0}
    BY InjectorAssumption DEF Shape, TypeOK
  <1>2. CASE PlainOpen(th)
    <2>1. /\ UNCHANGED <<lib, aget, aset, base, handle, got, entry, patched, old, tgt, cls, kind, pc>>
          /\ "opened" \in hist' <=> "opened" \in hist
      BY <1>2 DEF PlainOpen
    <2> QED BY <2>1, CalmSame
  <1>3. CASE Leave(th)
    <2>1. UNCHANGED <<lib, aget, aset, base, handle, got, entry, patched, old, tgt, cls, kind, hist>>
      BY <1>3 DEF Leave
    <2>2. \A u \in Thread : pc'[u] = pc[u] \/ (pc[u] \in Quiet /\ pc'[u] \in Quiet)
      BY <1>1, <1>3 DEF Leave, Quiet
    <2> QED BY <2>1, <2>2, CalmSame
  <1>4. CASE new_func_dlopen(th)
    <2>1. /\ UNCHANGED <<lib, aget, aset, got, entry, patched, old, tgt, kind>>
          /\ DlopenHooked /\ (handle' => base' = Base)
          /\ pc' = [pc EXCEPT ![th] = "opened"] /\ cls' = [cls EXCEPT ![th] = 0]
          /\ hist' = hist \cup {IF "opened" \in hist THEN "reopened" ELSE "opened"}
      BY <1>4 DEF new_func_dlopen
    <2>2. "opened" \notin hist /\ "opened" \in hist'
      BY <2>1 DEF Disturbed
    <2>3. \A u \in Thread : ~Active(u)
      BY <2>1, <2>2 DEF Calm, Doing, Entering
    <2>4. Without(Text \cup {"methods"}) /\ FromFile /\ ~got
      BY <2>1, <2>2, <2>3 DEF Calm, Resting
    <2>5. OriginalKept' /\ OnlyThese'
      BY <2>1 DEF Calm, OriginalKept, OnlyThese, Only
    <2>6. pc'[th] = "opened" /\ "opened" \in Label \ Quiet /\ cls'[th] = 0
      BY <1>1, <2>1 DEF Label, Quiet
    <2>7. Without(Text)' /\ Without({"methods"})' /\ ~MethodsHooked' /\ FromFile'
      BY <1>1, <2>1, <2>4 DEF Without, Text, MethodsHooked, FromFile
    <2>8. AtMethods(th)' /\ Entering(th)'
      BY <2>1, <2>2, <2>4, <2>6, <2>7 DEF AtMethods, Entering
    <2>9. AtDlopen(th)' /\ AtText(th)' /\ AtClass(th)'
      BY <2>6 DEF AtDlopen, AtText, HookingText, AtClass, Enumerating
    <2> QED BY <2>1, <2>3, <2>5, <2>6, <2>8, <2>9, CalmEntered DEF Doing
  <1>5. CASE UnhookDlopen(th)
    <2>1. /\ UNCHANGED <<lib, aget, aset, base, handle, got, old, tgt, cls, kind, pc, hist>>
          /\ entry' \subseteq entry /\ patched' \subseteq patched
          /\ MethodsHooked' <=> MethodsHooked
          /\ ~DlopenHooked'
      BY <1>5 DEF UnhookDlopen, MethodsHooked, DlopenHooked
    <2>2. Solo' /\ OriginalKept' /\ OnlyThese' /\ \A u \in Thread : Active(u)' <=> Active(u)
      BY <2>1 DEF Calm, Solo, Active, OriginalKept, OnlyThese, Only
    <2>3. /\ \A R \in {Text, {"methods"}, {"set"}, Text \cup {"methods"}} : Without(R) => Without(R)'
          /\ \A c \in Class : OfClass(c) => OfClass(c)'
          /\ Only("dlopen", DlopenAt)'
      BY <2>1, <2>2 DEF OnlyThese, Without, OfClass, Only
    <2>4. ASSUME NEW u \in Thread, Active(u)' PROVE Doing(u)'
      <3>1. Doing(u)
        BY <2>2, <2>4 DEF Calm
      <3>2. AtDlopen(u)'
        BY <2>1, <2>3, <3>1 DEF Doing, AtDlopen, FromFile
      <3>3. AtMethods(u)'
        BY <2>1, <2>3, <3>1 DEF Doing, AtMethods, FromFile
      <3>4. AtText(u)'
        <4>1. ClassOf(u)' = ClassOf(u) /\ ClassOf(u) \in Class
          BY <1>1, <2>1 DEF ClassOf
        <4>2. PICK c \in Class : c = ClassOf(u)
          BY <4>1
        <4>3. /\ pc[u] \in HookingText => OfClass(c) /\ (cls[u] = 0 => Without({"methods"}))
              /\ pc[u] \in {"get", "getR"} => Without(Text)
              /\ pc[u] \in {"getC", "set", "setR"} => Without({"set"})
          BY <3>1, <4>2 DEF Doing, AtText
        <4>4. /\ pc[u] \in HookingText => OfClass(c)' /\ (cls[u] = 0 => Without({"methods"})')
              /\ pc[u] \in {"get", "getR"} => Without(Text)'
              /\ pc[u] \in {"getC", "set", "setR"} => Without({"set"})'
          BY <2>3, <4>3
        <4> QED BY <2>1, <3>1, <4>1, <4>2, <4>4 DEF Doing, AtText
      <3>5. AtClass(u)'
        <4>1. cls[u] \in Class \cup {0}
          BY <1>1
        <4>2. pc[u] \in Enumerating => cls[u] \in Class
          BY DEF Shape, HasClass
        <4>3. /\ pc[u] \in {"fetch", "test"} /\ got => \E c \in Class : OfClass(c)'
              /\ pc[u] \in {"fetch", "test"} /\ ~got => Without(Text)'
              /\ pc[u] \in {"subGet", "subSet"} => Without(Text)'
          BY <2>3, <3>1 DEF Doing, AtClass
        <4>4. pc[u] = "got" => OfClass(cls[u])'
          <5>1. SUFFICES ASSUME pc[u] = "got" PROVE OfClass(cls[u])'
            OBVIOUS
          <5>2. PICK c \in Class : c = cls[u]
            BY <4>2, <5>1 DEF Enumerating
          <5>3. OfClass(c)'
            BY <2>3, <3>1, <5>1, <5>2 DEF Doing, AtClass
          <5> QED BY <2>1, <5>2, <5>3 DEF OfClass, Only
        <4> QED BY <2>1, <3>1, <4>3, <4>4 DEF Doing, AtClass
      <3>6. Entering(u)'
        BY <2>1, <3>1 DEF Doing, Entering
      <3> QED BY <3>2, <3>3, <3>4, <3>5, <3>6 DEF Doing
    <2>5. ASSUME \A u \in Thread : ~Active(u)' PROVE Resting'
      <3>1. Resting
        BY <2>2, <2>5 DEF Calm
      <3> QED BY <2>1, <2>3, <3>1 DEF Resting
    <2> QED BY <2>2, <2>4, <2>5 DEF Calm
  <1>6. ASSUME NEW c \in Class, Enumerate(th, c) PROVE Calm'
    <2>1. /\ UNCHANGED <<lib, aget, aset, base, handle, got, entry, patched, old, tgt>>
          /\ MethodsHooked
          /\ pc' = [pc EXCEPT ![th] = "fetch"] /\ cls' = [cls EXCEPT ![th] = c]
          /\ kind' = [kind EXCEPT ![th] = "get"]
          /\ hist' = IF \E u \in Thread : cls[u] # 0 THEN hist \cup {"raced"} ELSE hist
      BY <1>6 DEF Enumerate
    <2>2. (\A u \in Thread : cls[u] = 0) /\ hist' = hist
      BY <2>1 DEF Disturbed
    <2>3. \A u \in Thread : ~Active(u)
      BY <2>1, <2>2 DEF Calm, Doing, Entering
    <2>4. /\ \E d \in Class : OfClass(d)
          /\ "opened" \in hist /\ base = Base
          /\ got \/ (Without(Text) /\ aget = 0 /\ aset = 0)
      BY <2>1, <2>3 DEF Calm, Resting
    <2>5. OriginalKept' /\ OnlyThese'
      BY <2>1 DEF Calm, OriginalKept, OnlyThese, Only
    <2>6. pc'[th] = "fetch" /\ "fetch" \in Label \ Quiet /\ cls'[th] = c /\ kind'[th] = "get" /\ c # 0
      BY <1>1, <2>1 DEF Label, Quiet
    <2>7. (\E d \in Class : OfClass(d)') /\ (Without(Text) => Without(Text)')
      BY <2>1, <2>4 DEF OfClass, Only, Without
    <2>8. AtClass(th)' /\ Entering(th)'
      BY <2>1, <2>2, <2>4, <2>6, <2>7 DEF AtClass, Enumerating, Entering
    <2>9. AtDlopen(th)' /\ AtText(th)' /\ AtMethods(th)'
      BY <2>6 DEF AtDlopen, AtText, HookingText, AtMethods
    <2> QED BY <2>1, <2>3, <2>5, <2>6, <2>8, <2>9, CalmEntered DEF Doing
  <1> QED BY <1>2, <1>3, <1>4, <1>5, <1>6

(* A process that begins is calm.                                          *)
LEMMA InitCalm == Init => Calm
  <1> SUFFICES ASSUME Init PROVE Calm
    OBVIOUS
  <1>1. /\ entry = {} /\ patched = {} /\ hist = {} /\ ~got /\ ~handle /\ aget = 0 /\ aset = 0
        /\ cls = [th \in Thread |-> 0] /\ Main \in Thread
        /\ pc = [th \in Thread |-> IF th = Main THEN "read" ELSE "idle"]
    BY InjectorAssumption DEF Init, None, AtStart
  <1>2. Active(Main) /\ \A th \in Thread : Active(th) => th = Main
    BY <1>1 DEF Active, Quiet
  <1>3. OriginalKept /\ OnlyThese
    BY <1>1 DEF OriginalKept, OnlyThese, Only
  <1>4. Doing(Main)
    <2>1. pc[Main] = "read" /\ cls[Main] = 0
      BY <1>1
    <2>2. AtDlopen(Main)
      BY <1>1, <2>1 DEF AtDlopen, Without, Only, FromFile
    <2>3. AtMethods(Main) /\ AtText(Main) /\ AtClass(Main) /\ Entering(Main)
      BY <1>1, <2>1 DEF AtMethods, AtText, HookingText, AtClass, Enumerating, Entering, DlopenHooked,
                        MethodsHooked
    <2> QED BY <2>2, <2>3 DEF Doing
  <1> QED BY <1>1, <1>2, <1>3, <1>4 DEF Calm, Solo

(* The calm lasts until it is disturbed.                                   *)
LEMMA NextCalm ==
  ASSUME Shape, Calm, ~Disturbed', NEW th \in Thread, ThreadStep(th)
  PROVE  Calm'
  BY CalmLoad, CalmHook, CalmPlace, CalmPatch, CalmRouted, CalmMethods, CalmOutside DEF ThreadStep

(* Only a new process forgets that it was disturbed.                       *)
LEMMA DisturbedStays ==
  ASSUME NEW th \in Thread, ThreadStep(th), Disturbed
  PROVE  Disturbed'
  <1> USE DEF At, Goto, address, dobby, iter
  <1>1. CASE hist' = hist
    BY <1>1 DEF Disturbed
  <1>2. CASE hist \subseteq hist'
    BY <1>2 DEF Disturbed
  <1>3. ASSUME NEW r \in Repl,
               HookOf(th, r) \/ Dispatch(th, r) \/ Commit(th, r) \/ Registered(th, r)
                 \/ inlineHook(th, r)
        PROVE  hist \subseteq hist'
    BY <1>3 DEF HookOf, Dispatch, Commit, Registered, inlineHook
  <1>4. CASE PlainOpen(th) \/ new_func_dlopen(th) \/ \E c \in Class : Enumerate(th, c)
    BY <1>2, <1>4 DEF PlainOpen, new_func_dlopen, Enumerate
  <1>5. CASE readFile(th) \/ readFileFails(th) \/ init_address_from_file(th) \/ JNI_OnLoad(th)
    BY <1>1, <1>5 DEF readFile, readFileFails, init_address_from_file, JNI_OnLoad
  <1>6. CASE OpenRouted(th) \/ Leave(th) \/ UnhookDlopen(th)
    BY <1>1, <1>6 DEF OpenRouted, Leave, UnhookDlopen
  <1>7. CASE new_func_get_methods(th) \/ TestPair(th) \/ SubtractGet(th) \/ SubtractSet(th) \/ MarkGot(th)
    BY <1>1, <1>7 DEF new_func_get_methods, TestPair, SubtractGet, SubtractSet, MarkGot
  <1> QED BY <1>2, <1>3, <1>4, <1>5, <1>6, <1>7 DEF ThreadStep

(* The inductive invariant.                                                *)
THEOREM CalmUntilDisturbed == Spec => []IInv
  <1>1. Init => IInv
    BY InitShape, InitCalm DEF IInv
  <1>2. ASSUME IInv, [Next]_vars PROVE IInv'
    <2>1. Shape /\ (Disturbed \/ Calm) /\ TypeOK /\ Shape'
      BY <1>2, NextShape DEF IInv, Shape
    <2>2. ASSUME NEW th \in Thread, ThreadStep(th) PROVE Disturbed' \/ Calm'
      BY <2>1, <2>2, NextCalm, DisturbedStays
    <2>3. CASE WriteFile \/ UNCHANGED vars
      <3>1. /\ UNCHANGED <<lib, aget, aset, base, handle, got, entry, patched, old, tgt, cls, kind>>
            /\ hist' = hist /\ pc' = pc
        BY <2>3 DEF WriteFile, vars, address, dobby, iter
      <3>2. Calm => Calm'
        BY <3>1, CalmSame
      <3> QED BY <2>1, <3>1, <3>2 DEF Disturbed, IInv
    <2>4. CASE Restart
      <3>1. Init'
        BY <2>1, <2>4 DEF Restart, Init, TypeOK
      <3>2. Calm'
        BY <3>1, InitCalm, PTL
      <3> QED BY <2>1, <3>2 DEF IInv
    <2> QED BY <1>2, <2>1, <2>2, <2>3, <2>4, NextCases DEF IInv
  <1> QED BY <1>1, <1>2, PTL DEF Spec

(* In the calm all text hooks are on functions of one class.               *)
LEMMA SomeClass ==
  ASSUME Shape, Calm
  PROVE  \E c \in Class : OfClass(c)
  <1>1. CASE \A th \in Thread : ~Active(th)
    BY <1>1 DEF Calm, Resting
  <1>2. ASSUME NEW th \in Thread, Active(th) PROVE \E c \in Class : OfClass(c)
    <2>1. Doing(th) /\ 1 \in Class /\ ClassOf(th) \in Class
      BY <1>2, InjectorAssumption DEF Calm, ClassOf, Shape, TypeOK
    <2>2. Without(Text) => OfClass(1)
      BY DEF Without, OfClass, Only, Text
    <2>3. CASE pc[th] \in HookingText
      BY <2>1, <2>3 DEF Doing, AtText
    <2>4. CASE pc[th] \in Enumerating
      <3>1. cls[th] \in Class
        BY <2>4 DEF Shape, HasClass
      <3> QED BY <2>1, <2>2, <2>4, <3>1 DEF Doing, AtClass, Enumerating
    <2>5. CASE pc[th] \in {"read", "init", "find", "dlopen", "dlopenR", "dlopenC"}
      BY <2>1, <2>5 DEF Doing, AtDlopen, Without, OfClass, Only, Text
    <2>6. CASE pc[th] \in {"opened", "methods", "methodsR", "methodsC"}
      BY <2>1, <2>2, <2>6 DEF Doing, AtMethods
    <2>7. pc[th] \in Label \ Quiet
      BY <1>2 DEF Active, Shape, TypeOK
    <2> QED BY <2>3, <2>4, <2>5, <2>6, <2>7 DEF Label, Quiet, HookingText, Enumerating
  <1> QED BY <1>1, <1>2

(* new_func_dlopen, new_func_get_methods and hook_get_set: the text hooks  *)
(* land on text functions of UnityEngine.UI unless libil2cpp was opened    *)
(* twice or two threads enumerated methods at once, however many threads   *)
(* and classes there are.                                                  *)
THEOREM WildNeedsDisturbance == Spec => []WildHookNeedsDisturbance
  <1>1. Shape /\ Calm => WildHookNeedsDisturbance
    BY SomeClass DEF OfClass, Only, GetAddr, SetAddr, WildHookNeedsDisturbance
  <1>2. IInv => WildHookNeedsDisturbance
    BY <1>1 DEF IInv, WildHookNeedsDisturbance
  <1> QED BY <1>2, CalmUntilDisturbed, PTL

(* hook_get_set and old_func_get, old_func_set: undisturbed, each          *)
(* replacement calls the original of the function it replaced, and the two *)
(* text functions belong to one class.                                     *)
THEOREM OneClassIsHooked == Spec => []OneClassHooked
  <1>1. Shape /\ Calm => OneClassHooked
    <2> SUFFICES ASSUME Shape, Calm PROVE OneClassHooked
      OBVIOUS
    <2>1. PICK c \in Class : OfClass(c)
      BY SomeClass
    <2>2. GetOff(c) \in Int /\ SetOff(c) = GetOff(c) + 5 /\ Base \in Int
      BY InjectorAssumption DEF GetOff, SetOff
    <2>3. ASSUME NEW g \in entry, NEW s \in entry, g[1] = "get", s[1] = "set"
          PROVE  s[2] = g[2] + 5
      <3>1. g[2] = Base + GetOff(c) /\ s[2] = Base + SetOff(c)
        BY <2>1, <2>3 DEF OfClass, Only
      <3> QED BY <2>2, <3>1
    <2> QED BY <2>3 DEF Calm, OriginalKept, OneClassHooked
  <1>2. IInv => OneClassHooked
    BY <1>1 DEF IInv, OneClassHooked
  <1> QED BY <1>2, CalmUntilDisturbed, PTL

=============================================================================
