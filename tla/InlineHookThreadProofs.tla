----------------------- MODULE InlineHookThreadProofs -----------------------
(***************************************************************************)
(* Proofs about the threads of InlineHook: how freeze() moves them, and    *)
(* what keeps them out of a half-written function or an unmapped           *)
(* trampoline, for any functions, layouts, threads and pages.              *)
(***************************************************************************)
EXTENDS InlineHookProofs

-----------------------------------------------------------------------------
(* The boundary tables.                                                    *)
(*                                                                         *)
(* relocateInstruction adds the number of copied instructions to count;    *)
(* when it starts from zero and at most four are copied, the two ranges of *)
(* cells it fills do not meet.                                             *)
LEMMA RelocatedCells ==
  ASSUME NEW b \in BoundaryTable, NEW t \in Target
  PROVE  /\ Relocated(b, t)[CountCell] = b[CountCell] + Len(OrigOffs[t])
         /\ b[CountCell] = 0 /\ Len(OrigOffs[t]) <= OrigLen =>
              \A k \in 0 .. Len(OrigOffs[t]) - 1 :
                /\ Relocated(b, t)[k] = OrigOffs[t][k + 1]
                /\ Relocated(b, t)[OrigLen + k] = TrampOffs[t][k + 1]
  <1>0. Len(OrigOffs[t]) \in Nat /\ b[CountCell] \in Nat
    BY InlineHookAssumption DEF Offset, BoundaryTable, Cell, CountCell, OrigLen, TrampLen
  <1> DEFINE n == Len(OrigOffs[t])
  <1>1. CountCell \in Cell /\ CountCell = 24 /\ OrigLen = 4 /\ Cell = 0 .. 24
    BY DEF Cell, CountCell, OrigLen, TrampLen
  <1>2. Relocated(b, t)[CountCell] = b[CountCell] + n
    BY <1>1 DEF Relocated, Stored
  <1>3. ASSUME b[CountCell] = 0, n <= OrigLen, NEW k \in 0 .. n - 1
        PROVE  /\ Relocated(b, t)[k] = OrigOffs[t][k + 1]
               /\ Relocated(b, t)[OrigLen + k] = TrampOffs[t][k + 1]
    <2> HIDE DEF n
    <2>1. /\ k \in Cell /\ k # CountCell /\ k - 0 \in 0 .. n - 1 /\ k - 0 + 1 = k + 1
          /\ OrigLen + k \in Cell /\ OrigLen + k # CountCell
          /\ OrigLen + k - 0 \notin 0 .. n - 1
          /\ OrigLen + k - OrigLen - 0 \in 0 .. n - 1
          /\ OrigLen + k - OrigLen - 0 + 1 = k + 1
      BY <1>0, <1>1, <1>3 DEF n
    <2>2. Relocated(b, t)[k] = OrigOffs[t][k + 1]
      BY <2>1, <1>3 DEF Relocated, Stored, n
    <2>3. Relocated(b, t)[OrigLen + k] = TrampOffs[t][k + 1]
      <3>1. PICK j \in Cell : j = OrigLen + k
        BY <2>1
      <3>2. /\ j # CountCell /\ j - b[CountCell] \notin 0 .. n - 1
            /\ j - OrigLen - b[CountCell] = k /\ k \in 0 .. n - 1
        BY <3>1, <1>0, <1>1, <1>3 DEF n
      <3>3. Relocated(b, t)[j] = TrampOffs[t][j - OrigLen - b[CountCell] + 1]
        BY <3>1, <3>2 DEF Relocated, Stored, n
      <3> QED BY <3>1, <3>2, <3>3
    <2> QED BY <2>2, <2>3
  <1> QED BY <1>2, <1>3

(* Every item after a step has the function and the table of an item       *)
(* before it.                                                              *)
TablesKept ==
  \A i \in Used' : \E j \in Used : /\ item'[i].target = item[j].target
                                   /\ item'[i].bnd = item[j].bnd

(* Only a registration makes a table: hooking changes the status, deleting *)
(* moves a whole item.                                                     *)
LEMMA OnlyRegisterMakesTables ==
  ASSUME TypeInv, [Next]_vars, \A t \in Target : ~registerInlineHook(t)
  PROVE  TablesKept
  <1>0. pos \in Int /\ size \in Int
    BY DEF TypeInv, TypeOK
  <1>1. ASSUME UNCHANGED registry PROVE TablesKept
    BY <1>1 DEF registry, TablesKept, Used
  <1>2. ASSUME NEW i \in Used, PatchEntry(i), size' = size PROVE TablesKept
    <2>1. i \in Slot /\ Used' = Used /\ Used \subseteq Slot
      BY <1>2, InlineHookAssumption DEF Used, Slot, TypeInv, TypeOK
    <2>2. \A j \in Slot : item'[j].target = item[j].target /\ item'[j].bnd = item[j].bnd
      BY <2>1, <1>2 DEF PatchEntry, Patched, TypeInv, TypeOK, Item
    <2> QED BY <2>1, <2>2 DEF TablesKept
  <1>3. ASSUME pos \in Used, DeleteItem(pos) PROVE TablesKept
    <2>1. /\ Used \subseteq Slot /\ size - 1 \in Used /\ Used' \subseteq Used
          /\ item' = [item EXCEPT ![pos] = item[size - 1]]
      BY <1>3, InlineHookAssumption DEF Used, Slot, TypeInv, TypeOK, DeleteItem
    <2>2. \A j \in Used' : item'[j] = item[j] \/ item'[j] = item[size - 1]
      BY <2>1 DEF TypeInv, TypeOK
    <2> QED BY <2>1, <2>2 DEF TablesKept
  <1>4. CASE doInlineHook
    <2>1. pos \in Used
      BY <1>4, <1>0 DEF doInlineHook, TypeInv, PosReal, Used, TypeOK
    <2> QED BY <1>4, <2>1, <1>2 DEF doInlineHook
  <1>5. CASE DoHookAllItem
    <2>1. pos \in Used
      BY <1>5, <1>0 DEF DoHookAllItem, TypeInv, TypeOK, Used
    <2> QED BY <1>5, <2>1, <1>1, <1>2 DEF DoHookAllItem, registry
  <1>6. CASE DoFree \/ DoFreeAllItem
    <2>1. pos \in Used
      BY <1>6, <1>0 DEF DoFree, DoFreeAllItem, TypeInv, TypeOK, PosReal, Used
    <2> QED BY <1>6, <2>1, <1>3 DEF DoFree, DoFreeAllItem
  <1>7. ASSUME NEW t \in Target, ApiStart(t) PROVE TablesKept
    BY <1>7, <1>1 DEF ApiStart, RegisterRefused, RegisterFault, inlineHookRefused,
                      inlineHook, inlineUnHookRefused, inlineUnHook
  <1>8. ASSUME NEW th \in Thread, Attach(th) \/ AttachFails(th) \/ ThreadStep(th)
        PROVE TablesKept
    BY <1>8, <1>1 DEF Attach, AttachFails, ThreadStep, Call, EnterMalloc, LeaveMalloc,
                      ExecOrig, ExecNew, ExecTramp, ExecCallee, Goto, Die
  <1>9. CASE DoRestore \/ DoUnHookAllItem \/ unFreeze \/ inlineHookAll \/ inlineUnHookAll
    BY <1>9, <1>1 DEF DoRestore, DoUnHookAllItem, unFreeze, inlineHookAll, inlineUnHookAll
  <1>10. CASE (\E t \in Target : Reload(t)) \/ UNCHANGED vars
    BY <1>10, <1>1 DEF Reload, vars, registry
  <1> QED BY <1>4, <1>5, <1>6, <1>7, <1>8, <1>9, <1>10 DEF Next, ApiStep

(* What a registration adds, and that it leaves the other items alone.     *)
LEMMA RegisterAdds ==
  ASSUME TypeInv, NEW t \in Target, registerInlineHook(t)
  PROVE  /\ size \in Slot /\ size \notin Used /\ Used' = Used \cup {size}
         /\ \A i \in Used : item'[i] = item[i]
         /\ item'[size].target = t
         /\ item'[size].bnd = Relocated(item[size].bnd, t)
         /\ item[size].bnd \in BoundaryTable
         /\ item[size].bnd[CountCell] = 0 \/ "reused" \in hist'
  <1>1. PICK p \in Page :
          item' = [item EXCEPT ![size] =
                     [target |-> t, saved |-> mem[t], tramp |-> p,
                      bnd |-> Relocated(item[size].bnd, t),
                      status |-> "REGISTERED"]]
    BY DEF registerInlineHook, AddItem
  <1>2. /\ size \in Slot /\ Used' = Used \cup {size} /\ size \notin Used
        /\ Used \subseteq Slot
    BY InlineHookAssumption DEF TypeInv, TypeOK, Slot, Used, registerInlineHook, AddItem
  <1>3. item[size].bnd \in BoundaryTable
    BY <1>2 DEF TypeInv, TypeOK, Item
  <1>4. item[size].bnd[CountCell] = 0 \/ "reused" \in hist'
    BY DEF registerInlineHook, AddItem
  <1> QED BY <1>1, <1>2, <1>3, <1>4 DEF TypeInv, TypeOK

(* No step spoils an exact table or makes an inexact one in a new slot.    *)
LEMMA FirstUseStep ==
  ASSUME TypeInv, FirstUseIsExact, [Next]_vars
  PROVE  FirstUseIsExact'
  <1> DEFINE Exact(b, t) ==
        LET n == Len(OrigOffs[t])
        IN b[CountCell] = n /\ n <= OrigLen =>
             /\ b[CountCell] = n
             /\ \A k \in 0 .. b[CountCell] - 1 : /\ b[k] = OrigOffs[t][k + 1]
                                                 /\ b[OrigLen + k] = TrampOffs[t][k + 1]
  <1>1. FirstUseIsExact <=> \A i \in Used : Exact(item[i].bnd, item[i].target)
    BY DEF FirstUseIsExact, BoundariesExact, Count, OrigBoundary, TrampBoundary
  <1>2. FirstUseIsExact' <=> \A i \in Used' : Exact(item'[i].bnd, item'[i].target)
    BY DEF FirstUseIsExact, BoundariesExact, Count, OrigBoundary, TrampBoundary
  <1>3. CASE TablesKept
    <2> HIDE DEF Exact
    <2> QED BY <1>1, <1>2, <1>3 DEF TablesKept
  <1>4. ASSUME NEW t \in Target, registerInlineHook(t) PROVE FirstUseIsExact'
    <2>1. Exact(item'[size].bnd, item'[size].target)
      <3> DEFINE b == item[size].bnd
                 n == Len(OrigOffs[t])
      <3>1. /\ item'[size].target = t /\ item'[size].bnd = Relocated(b, t)
            /\ b \in BoundaryTable
        BY <1>4, RegisterAdds
      <3>2. b[CountCell] \in Nat /\ n \in Nat
        BY <3>1, InlineHookAssumption
        DEF Offset, BoundaryTable, Cell, CountCell, OrigLen, TrampLen
      <3>3. /\ Relocated(b, t)[CountCell] = b[CountCell] + n
            /\ b[CountCell] = 0 /\ n <= OrigLen =>
              \A k \in 0 .. n - 1 :
                /\ Relocated(b, t)[k] = OrigOffs[t][k + 1]
                /\ Relocated(b, t)[OrigLen + k] = TrampOffs[t][k + 1]
        BY <3>1, RelocatedCells
      <3>4. Relocated(b, t)[CountCell] = n => b[CountCell] = 0
        BY <3>2, <3>3
      <3> QED BY <3>1, <3>3, <3>4
    <2> HIDE DEF Exact
    <2> QED BY <1>1, <1>2, <1>4, <2>1, RegisterAdds
  <1> QED BY <1>3, <1>4, OnlyRegisterMakesTables

(* relocateInstruction numbers the boundaries of an item exactly when its  *)
(* slot was not used before and four instructions at most are copied; no   *)
(* later call, deletion or move of items spoils such a table.              *)
THEOREM FirstUseExact == Spec => []FirstUseIsExact
  <1>1. Init => FirstUseIsExact
    BY DEF Init, FirstUseIsExact, Used
  <1>2. TypeInv /\ FirstUseIsExact /\ [Next]_vars => FirstUseIsExact'
    BY FirstUseStep
  <1> QED BY <1>1, <1>2, InvariantHolds, PTL DEF Spec
-----------------------------------------------------------------------------
(* Where freeze() sends the threads.                                       *)

(* The items whose tables the call in progress looks a thread up in.       *)
Searched == IF call \in {"hook", "unhook"} THEN {pos} ELSE Used

(* Entry k of item i takes a thread from l to l2.                          *)
Taken(i, k, l, l2) ==
  LET t == item[i].target
  IN \/ /\ Enabling
        /\ l.at = "orig" /\ l.fn = t /\ l.off = OrigOffs[t][k]
        /\ l2 = InTramp(item[i].tramp, TrampOffs[t][k])
     \/ /\ ~Enabling
        /\ l.at = "tramp" /\ l.pg = item[i].tramp /\ l.off = TrampOffs[t][k]
        /\ l2 = InOrig(t, OrigOffs[t][k])

(* With exact tables a thread is left where it is because no copied        *)
(* instruction of a searched item starts there, or it goes from one end of *)
(* a copied instruction's entry to the other.                              *)
LEMMA MoveCases ==
  ASSUME TypeInv, Freezing, \A i \in Used : BoundariesExact(i),
         NEW l \in Location, NEW l2 \in processThreadPC(l)
  PROVE  /\ Searched \subseteq Used
         /\ \/ /\ l2 = l
               /\ \A i \in Searched : \A k \in 1 .. Len(OrigOffs[item[i].target]) :
                    LET t == item[i].target
                    IN /\ Enabling =>
                            ~(l.at = "orig" /\ l.fn = t /\ l.off = OrigOffs[t][k])
                       /\ ~Enabling =>
                            ~(l.at = "tramp" /\ l.pg = item[i].tramp
                                             /\ l.off = TrampOffs[t][k])
            \/ \E i \in Searched : \E k \in 1 .. Len(OrigOffs[item[i].target]) :
                 Taken(i, k, l, l2)
  <1>1. Searched \subseteq Used
    BY DEF Searched, TypeInv, TypeOK, PosReal, Used
  <1>2. ASSUME NEW i \in Searched
        PROVE  LET t == item[i].target
               IN /\ Len(OrigOffs[t]) \in Nat /\ Count(i) = Len(OrigOffs[t])
                  /\ \A k \in 0 .. Len(OrigOffs[t]) - 1 :
                       /\ OrigBoundary(i, k) = OrigOffs[t][k + 1]
                       /\ TrampBoundary(i, k) = TrampOffs[t][k + 1]
    <2>1. i \in Used /\ item[i].target \in Target /\ BoundariesExact(i)
      BY <1>1 DEF TypeInv, ItemsReal
    <2> QED BY <2>1, InlineHookAssumption DEF BoundariesExact, Offset
  <1>3. CASE Candidates(l) = {}
    <2>1. l2 = l
      BY <1>3 DEF processThreadPC
    <2>2. ASSUME NEW i \in Searched, NEW k \in 1 .. Len(OrigOffs[item[i].target])
          PROVE  /\ Enabling => ~(/\ l.at = "orig" /\ l.fn = item[i].target
                                  /\ l.off = OrigOffs[item[i].target][k])
                 /\ ~Enabling => ~(/\ l.at = "tramp" /\ l.pg = item[i].tramp
                                   /\ l.off = TrampOffs[item[i].target][k])
      <3>1. Matches(i, l) = {}
        BY <1>3 DEF Candidates, Searched
      <3>2. /\ k - 1 \in 0 .. Len(OrigOffs[item[i].target]) - 1
            /\ k - 1 \in 0 .. Count(i) - 1 /\ k - 1 + 1 = k
        BY <1>2
      <3>3. /\ OrigBoundary(i, k - 1) = OrigOffs[item[i].target][k]
            /\ TrampBoundary(i, k - 1) = TrampOffs[item[i].target][k]
        BY <1>2, <3>2
      <3> QED BY <3>1, <3>2, <3>3 DEF Matches, EnableMatches, DisableMatches
    <2> QED BY <1>1, <2>1, <2>2
  <1>4. CASE Candidates(l) # {}
    <2>1. PICK i \in Slot, k \in 0 .. TrampLen - 1 :
            FirstMatch(i, k, l) /\ l2 = Landing(i, k)
      BY <1>4 DEF processThreadPC
    <2>2. i \in Searched /\ k \in Matches(i, l)
      BY <2>1 DEF FirstMatch, IsFirst, Candidates, Searched
    <2>3. k \in 0 .. Len(OrigOffs[item[i].target]) - 1
      BY <2>2, <1>2 DEF Matches, EnableMatches, DisableMatches
    <2>4. /\ OrigBoundary(i, k) = OrigOffs[item[i].target][k + 1]
          /\ TrampBoundary(i, k) = TrampOffs[item[i].target][k + 1]
      BY <2>2, <2>3, <1>2
    <2>5. k + 1 \in 1 .. Len(OrigOffs[item[i].target])
      BY <2>2, <2>3, <1>2
    <2>6. Taken(i, k + 1, l, l2)
      BY <2>1, <2>2, <2>4 DEF Taken, Landing, Matches, EnableMatches, DisableMatches
    <2> QED BY <1>1, <2>2, <2>5, <2>6
  <1> QED BY <1>3, <1>4

(* The trampoline offset of a copied instruction identifies it.            *)
LEMMA ProgressInTrampoline ==
  ASSUME NEW p \in Page, NEW t \in Target, page[p] = t, NEW l, l.at = "tramp", l.pg = p,
         NEW k \in 1 .. Len(OrigOffs[t]), l.off = TrampOffs[t][k]
  PROVE  Progress(l) = OrigOffs[t][k]
  <1> DEFINE S == {j \in 1 .. Len(TrampOffs[t]) : TrampOffs[t][j] = l.off}
  <1>1. Len(TrampOffs[t]) = Len(OrigOffs[t])
    BY InlineHookAssumption
  <1>2. S = {k}
    BY <1>1, LayoutAssumption
  <1>3. (CHOOSE j \in S : TRUE) = k
    BY <1>2
  <1> QED BY <1>2, <1>3 DEF Progress

(* The move of one thread keeps its progress.                              *)
LEMMA AttachKeepsProgress ==
  ASSUME TypeInv, RegInv, NEW th \in Thread, Attach(th), \A i \in Used : BoundariesExact(i)
  PROVE  Progress(pc'[th]) = Progress(pc[th])
  <1>1. PICK l2 \in processThreadPC(pc[th]) : pc' = [pc EXCEPT ![th] = l2]
    BY DEF Attach
  <1>2. pc'[th] = l2 /\ pc[th] \in Location /\ Freezing
    BY <1>1 DEF TypeInv, TypeOK, Attach
  <1>3. CASE l2 = pc[th]
    BY <1>2, <1>3
  <1>4. ASSUME NEW i \in Used, NEW k \in 1 .. Len(OrigOffs[item[i].target]),
               Taken(i, k, pc[th], l2)
        PROVE  Progress(l2) = Progress(pc[th])
    <2> DEFINE t == item[i].target
    <2>1. t \in Target /\ item[i].tramp \in Page /\ page[item[i].tramp] = t
      BY <1>2 DEF TypeInv, ItemsReal, RegInv, TrampolinesOwned, HalfUnhooked, Freezing
    <2>2. CASE Enabling
      <3>1. /\ pc[th].at = "orig" /\ pc[th].off = OrigOffs[t][k]
            /\ l2 = InTramp(item[i].tramp, TrampOffs[t][k])
        BY <1>4, <2>2 DEF Taken
      <3>2. Progress(l2) = OrigOffs[t][k]
        BY <2>1, <3>1, ProgressInTrampoline DEF InTramp
      <3> QED BY <3>1, <3>2 DEF Progress
    <2>3. CASE ~Enabling
      <3>1. /\ pc[th].at = "tramp" /\ pc[th].pg = item[i].tramp
            /\ pc[th].off = TrampOffs[t][k] /\ l2 = InOrig(t, OrigOffs[t][k])
        BY <1>4, <2>3 DEF Taken
      <3>2. Progress(pc[th]) = OrigOffs[t][k]
        BY <2>1, <3>1, ProgressInTrampoline
      <3> QED BY <3>1, <3>2 DEF Progress, InOrig
    <2> QED BY <2>2, <2>3
  <1>5. \/ l2 = pc[th]
        \/ \E i \in Used : \E k \in 1 .. Len(OrigOffs[item[i].target]) :
             Taken(i, k, pc[th], l2)
    BY <1>2, MoveCases
  <1> QED BY <1>2, <1>3, <1>4, <1>5

(* freeze() moves a thread between a function and its trampoline without   *)
(* repeating or skipping an instruction, when every table is exact.        *)
THEOREM MovesKeepProgress == Spec => MoveKeepsProgress
  <1>1. TypeInv /\ RegInv /\ [Next]_vars =>
          [\A th \in Thread :
             Attach(th) /\ (\A i \in Used : BoundariesExact(i))
               => Progress(pc'[th]) = Progress(pc[th])]_vars
    BY AttachKeepsProgress
  <1> QED BY <1>1, InvariantHolds, PTL DEF Spec, MoveKeepsProgress
-----------------------------------------------------------------------------
(* Why no thread is lost.                                                  *)
(*                                                                         *)
(* Every function can be hooked, and none of the four disturbances has     *)
(* happened.                                                               *)
Undisturbed == hist = {} /\ \A t \in Target : Hookable(t)

(* A call that is past its freeze holds every thread.                      *)
AllHeld ==
  /\ call # "idle" => todo \cup frozen = Thread
  /\ call \in {"hooked", "unhookFree", "unhooked", "unhookAllFree"} => todo = {}
  /\ call \in {"hookAll", "unhookAll"} /\ todo # {} => pos = 0

(* The functions a call is about to patch, and those it is about to        *)
(* restore or has just restored.                                           *)
Copied(t) == {OrigOffs[t][k] : k \in 1 .. Len(OrigOffs[t])}
BeingHooked(t) ==
  \E i \in Used : item[i].target = t /\ (call = "hookAll" \/ (call = "hook" /\ i = pos))
BeingUnhooked(t) ==
  \E i \in Used : /\ item[i].target = t
                  /\ \/ call \in {"unhook", "unhookFree"} /\ i = pos
                     \/ call \in {"unhookAll", "unhookAllFree"} /\ i >= pos

(* A thread in a function is at an instruction of it, not under the jump   *)
(* unless it is held until the jump is gone; one that is held until a jump *)
(* is there is past the copied instructions.                               *)
InFunction(held, l) ==
  l.at = "orig" =>
    /\ l.off \in Boundaries(l.fn)
    /\ InsideJump(l.fn, l.off) => held /\ BeingUnhooked(l.fn)
    /\ held /\ BeingHooked(l.fn) => l.off \notin Copied(l.fn)

(* One in a trampoline is at an instruction of it, one in a function it    *)
(* called returns to such an instruction or past the jump, and one in a    *)
(* replacement finds the trampoline through *proto_addr.                   *)
InTrampoline(l) ==
  l.at \in {"tramp", "callee"} /\ l.pg # NoPage =>
    page[l.pg] \in Target /\ l.off \in TrampStarts(page[l.pg])
Returning(l) ==
  l.at = "callee" /\ l.pg = NoPage =>
    l.off \in Boundaries(l.fn) /\ l.off >= PatchLen[l.fn]
Replaced(l) ==
  l.at = "new" /\ l.fn \in WantsProto =>
    proto[l.fn] \in Page /\ page[proto[l.fn]] = l.fn

SafeAt(held, l) ==
  InFunction(held, l) /\ InTrampoline(l) /\ Returning(l) /\ Replaced(l)

ThreadsSafe ==
  /\ AllHeld
  /\ \A i \in Used : BoundariesExact(i)
  /\ \A th \in Thread : SafeAt(th \in frozen, pc[th])
  /\ fault \in {"none", "register"}

ThreadInv == Undisturbed => ThreadsSafe

(* A step that leaves the registry, the code and the call alone and sends  *)
(* one thread to a safe place.                                             *)
LEMMA GotoSafe ==
  ASSUME TypeInv, ThreadsSafe, NEW th \in Thread, th \notin frozen, NEW l,
         SafeAt(FALSE, l), Goto(th, l)
  PROVE  ThreadsSafe'
  <1>1. /\ pc' = [pc EXCEPT ![th] = l]
        /\ UNCHANGED <<item, size, mem, icache, page, proto, call, arg, pos, todo,
                       frozen, fault>>
    BY DEF Goto, registry, code, api, TypeInv, TypeOK
  <1>2. AllHeld' /\ (\A i \in Used : BoundariesExact(i))'
        /\ fault' \in {"none", "register"}
    BY <1>1 DEF ThreadsSafe, AllHeld, Used, BoundariesExact, Count, OrigBoundary,
                TrampBoundary
  <1>3. ASSUME NEW x \in Thread PROVE SafeAt(x \in frozen, pc[x])'
    <2>1. \/ x # th /\ pc'[x] = pc[x] /\ SafeAt(x \in frozen, pc[x])
          \/ x \notin frozen /\ pc'[x] = l /\ SafeAt(x \in frozen, l)
      BY <1>1 DEF ThreadsSafe, TypeInv, TypeOK, SafeAt, InFunction
    <2> QED BY <1>1, <2>1 DEF SafeAt, InFunction, InTrampoline, Returning, Replaced,
              InsideJump, BeingHooked, BeingUnhooked, Used
  <1> QED BY <1>2, <1>3 DEF ThreadsSafe

(* A function whose jump a running thread executes is hooked, and its      *)
(* *proto_addr leads to its trampoline.                                    *)
LEMMA JumpIsHooked ==
  ASSUME TypeInv, RegInv, AllHeld, hist = {}, NEW th \in Thread, th \notin frozen,
         NEW t \in WantsProto, icache[t] = "jump"
  PROVE  proto[t] \in Page /\ page[proto[t]] = t
  <1>1. \A i : ~HalfUnhooked(i)
    BY DEF HalfUnhooked, AllHeld
  <1>2. t \in Target
    BY InlineHookAssumption
  <1>3. mem[t] = "jump"
    BY <1>1, <1>2 DEF RegInv, StaleOnlyWhenMoved
  <1>4. PICK i \in Used : item[i].target = t /\ item[i].status = "HOOKED"
    BY <1>2, <1>3 DEF RegInv, PatchMatchesStatus
  <1>5. proto[t] = item[i].tramp
    BY <1>1, <1>4 DEF RegInv, ProtoLive
  <1> QED BY <1>1, <1>4, <1>5 DEF RegInv, TrampolinesOwned

(* Offsets are natural numbers, and a thread's function is a function.     *)
LEMMA LayoutTypes ==
  ASSUME NEW t \in Target
  PROVE  /\ Boundaries(t) \subseteq Nat /\ TrampStarts(t) \subseteq Nat
         /\ PatchLen[t] \in Nat /\ Resume[t] \in Boundaries(t)
         /\ Resume[t] >= PatchLen[t] /\ 0 \in Boundaries(t) /\ 0 \in TrampStarts(t)
         /\ \A k \in 1 .. Len(OrigOffs[t]) : /\ OrigOffs[t][k] \in Boundaries(t)
                                             /\ TrampOffs[t][k] \in TrampStarts(t)
         /\ \A o \in Boundaries(t) : o \in Copied(t) \/ o = Resume[t]
  BY OffsetTypes, InlineHookAssumption, LayoutAssumption
  DEF Boundaries, TrampStarts, Copied, Offset

(* Instruction by instruction, a running thread goes from a safe place to  *)
(* a safe place: it never fetches bytes under a jump, never returns there, *)
(* and never runs a trampoline that is gone.                               *)
LEMMA ThreadStepSafe ==
  ASSUME TypeInv, RegInv, Undisturbed, ThreadsSafe, NEW th \in Thread, ThreadStep(th)
  PROVE  ThreadsSafe'
  <1>1. th \notin frozen
    BY DEF ThreadStep, Call, EnterMalloc, LeaveMalloc, ExecOrig, ExecNew, ExecTramp,
           ExecCallee, Running
  <1>2. pc[th] \in Location /\ LocationReal(pc[th]) /\ SafeAt(FALSE, pc[th])
    BY <1>1 DEF TypeInv, TypeOK, ThreadsReal, ThreadsSafe, SafeAt, InFunction
  <1>3. ASSUME NEW l, SafeAt(FALSE, l), Goto(th, l) PROVE ThreadsSafe'
    BY <1>1, <1>3, GotoSafe
  <1>4. SafeAt(FALSE, Out) /\ SafeAt(FALSE, Malloc)
    BY DEF SafeAt, InFunction, InTrampoline, Returning, Replaced, Out, Malloc
  <1>5. ASSUME NEW t \in Target, NEW o \in Boundaries(t), ~InsideJump(t, o)
        PROVE  SafeAt(FALSE, InOrig(t, o))
    BY <1>5 DEF SafeAt, InFunction, InTrampoline, Returning, Replaced, InOrig
  <1>6. ASSUME NEW p \in Page, page[p] \in Target, NEW o \in TrampStarts(page[p])
        PROVE  SafeAt(FALSE, InTramp(p, o)) /\ SafeAt(FALSE, Callee(InTramp(p, o)))
    BY <1>6, InlineHookAssumption
    DEF SafeAt, InFunction, InTrampoline, Returning, Replaced, InTramp, Callee
  <1>7. CASE EnterMalloc(th) \/ LeaveMalloc(th)
    BY <1>3, <1>4, <1>7 DEF EnterMalloc, LeaveMalloc
  <1>8. ASSUME NEW t \in Target, Call(th, t) PROVE ThreadsSafe'
    <2>1. 0 \in Boundaries(t) /\ ~InsideJump(t, 0)
      BY LayoutTypes, InlineHookAssumption DEF InsideJump, Offset
    <2> QED BY <2>1, <1>3, <1>5, <1>8 DEF Call
  <1>9. CASE ExecOrig(th)
    <2> DEFINE t == pc[th].fn
               o == pc[th].off
    <2>1. /\ t \in Target /\ o \in Boundaries(t) /\ ~InsideJump(t, o)
          /\ Boundaries(t) \subseteq Nat /\ PatchLen[t] \in Nat
      BY <1>2, <1>9, LayoutTypes DEF ExecOrig, LocationReal, SafeAt, InFunction
    <2> HIDE DEF t, o
    <2>2. CASE EntryJump(t, o) /\ Goto(th, InNew(t))
      <3>1. t \in WantsProto => proto[t] \in Page /\ page[proto[t]] = t
        BY <1>1, <2>2, JumpIsHooked DEF EntryJump, ThreadsSafe, Undisturbed
      <3>2. SafeAt(FALSE, InNew(t))
        BY <3>1 DEF SafeAt, InFunction, InTrampoline, Returning, Replaced, InNew
      <3> QED BY <2>2, <3>2, <1>3
    <2>3. ASSUME Intact(t, o), NEW o2 \in Boundaries(t), IsNext(o2, o, Boundaries(t)),
                 Goto(th, IF o \in CallOffs[t] THEN Callee(InOrig(t, o2))
                                               ELSE InOrig(t, o2))
          PROVE  ThreadsSafe'
      <3>1. CASE o \in CallOffs[t]
        <4>1. o2 >= PatchLen[t]
          BY <2>1, <2>3, <3>1 DEF Undisturbed, Hookable
        <4>2. SafeAt(FALSE, Callee(InOrig(t, o2)))
          BY <2>3, <4>1 DEF SafeAt, InFunction, InTrampoline, Returning, Replaced,
                            InOrig, Callee
        <4> QED BY <2>3, <3>1, <4>2, <1>3
      <3>2. CASE o \notin CallOffs[t]
        <4>1. ~InsideJump(t, o2)
          BY <2>1, <2>3 DEF Intact, EntryJump, InsideJump, IsNext
        <4> QED BY <2>1, <2>3, <3>2, <4>1, <1>3, <1>5
      <3> QED BY <3>1, <3>2
    <2>4. CASE Goto(th, Out)
      BY <2>4, <1>3, <1>4
    <2>5. EntryJump(t, o) \/ Intact(t, o)
      BY <2>1 DEF Intact
    <2> QED BY <1>9, <2>2, <2>3, <2>4, <2>5 DEF ExecOrig, t, o
  <1>10. CASE ExecNew(th)
    <2> DEFINE t == pc[th].fn
    <2>1. t \in Target /\ (t \in WantsProto => proto[t] \in Page /\ page[proto[t]] = t)
      BY <1>2, <1>10 DEF ExecNew, LocationReal, SafeAt, Replaced
    <2> HIDE DEF t
    <2>2. CASE t \in WantsProto /\ Goto(th, InTramp(proto[t], 0))
      BY <2>1, <2>2, <1>3, <1>6, LayoutTypes
    <2>3. CASE Goto(th, Out)
      BY <2>3, <1>3, <1>4
    <2>4. ~(t \in WantsProto /\ (proto[t] = NoPage \/ page[proto[t]] # t))
      BY <2>1, InlineHookAssumption
    <2> QED BY <1>10, <2>2, <2>3, <2>4 DEF ExecNew, t
  <1>11. CASE ExecTramp(th)
    <2> DEFINE p == pc[th].pg
               t == page[p]
               o == pc[th].off
    <2>1. p \in Page /\ t \in Target /\ o \in TrampStarts(t)
      BY <1>2, <1>11, InlineHookAssumption
      DEF ExecTramp, LocationReal, SafeAt, InTrampoline
    <2> HIDE DEF o
    <2>2. ASSUME NEW o2 \in TrampStarts(t),
                 Goto(th, IF o \in TrampCalls[t] THEN Callee(InTramp(p, o2))
                                                 ELSE InTramp(p, o2))
          PROVE  ThreadsSafe'
      <3>1. SafeAt(FALSE, InTramp(p, o2)) /\ SafeAt(FALSE, Callee(InTramp(p, o2)))
        BY <2>1, <1>6
      <3> QED BY <2>2, <3>1, <1>3
    <2>3. CASE Goto(th, InOrig(t, Resume[t]))
      <3>1. Resume[t] \in Boundaries(t) /\ ~InsideJump(t, Resume[t])
        BY <2>1, LayoutTypes DEF InsideJump
      <3> QED BY <2>1, <2>3, <3>1, <1>3, <1>5
    <2>4. ~(t = NoFn \/ (t # NoFn /\ o \notin TrampStarts(t)))
      BY <2>1, InlineHookAssumption
    <2> QED BY <1>11, <2>2, <2>3, <2>4 DEF ExecTramp, o
  <1>12. CASE ExecCallee(th)
    <2> DEFINE l == pc[th]
    <2>1. CASE l.pg = NoPage
      <3>1. /\ l.fn \in Target /\ l.off \in Boundaries(l.fn) /\ l.off >= PatchLen[l.fn]
            /\ PatchLen[l.fn] \in Nat /\ l.off \in Nat
        BY <1>2, <1>12, <2>1, LayoutTypes, InlineHookAssumption
        DEF ExecCallee, LocationReal, SafeAt, Returning
      <3>2. ~InsideJump(l.fn, l.off)
        BY <3>1 DEF InsideJump
      <3> QED BY <1>12, <2>1, <3>1, <3>2, <1>3, <1>5 DEF ExecCallee, ReturnTo
    <2>2. CASE l.pg # NoPage
      <3>1. l.pg \in Page /\ page[l.pg] \in Target /\ l.off \in TrampStarts(page[l.pg])
        BY <1>2, <1>12, <2>2, InlineHookAssumption
        DEF ExecCallee, LocationReal, SafeAt, InTrampoline
      <3> QED BY <1>12, <2>2, <3>1, <1>3, <1>6 DEF ExecCallee, ReturnTo
    <2> QED BY <2>1, <2>2
  <1> QED BY <1>7, <1>8, <1>9, <1>10, <1>11, <1>12 DEF ThreadStep

(* Tables that were exact stay exact in a step that makes none.            *)
LEMMA ExactKept ==
  ASSUME \A i \in Used : BoundariesExact(i), TablesKept
  PROVE  (\A i \in Used : BoundariesExact(i))'
  BY DEF TablesKept, BoundariesExact, Count, OrigBoundary, TrampBoundary

(* Outside doInlineUnHook's calls no thread is under a jump.               *)
LEMMA NoneInside ==
  ASSUME ThreadsSafe, \A t \in Target : ~BeingUnhooked(t), TypeInv,
         NEW th \in Thread, pc[th].at = "orig"
  PROVE  ~InsideJump(pc[th].fn, pc[th].off)
  BY DEF ThreadsSafe, SafeAt, InFunction, TypeInv, ThreadsReal, LocationReal

(* registerInlineHook: the page it maps was free, so no thread was in it;  *)
(* the table it makes is exact because the slot is new.                    *)
LEMMA RegisterSafe ==
  ASSUME TypeInv, ThreadsSafe, Undisturbed, Undisturbed',
         NEW t \in Target, registerInlineHook(t)
  PROVE  ThreadsSafe'
  <1>1. /\ call = "idle" /\ UNCHANGED <<mem, icache, proto, pc, call, arg, pos, todo,
                                        frozen, fault>>
    BY DEF registerInlineHook, api
  <1>2. PICK p \in Page : page[p] = NoFn /\ page' = [page EXCEPT ![p] = t]
    BY DEF registerInlineHook, AddItem
  <1>3. \A q \in Page : page[q] \in Target => page'[q] = page[q]
    BY <1>2, InlineHookAssumption DEF TypeInv, TypeOK
  <1>4. AllHeld' /\ fault' \in {"none", "register"}
    BY <1>1 DEF ThreadsSafe, AllHeld
  <1>5. (\A i \in Used : BoundariesExact(i))'
    <2>0. PICK j \in Slot : j = size
      BY RegisterAdds
    <2>1. BoundariesExact(j)'
      <3> DEFINE b == item[size].bnd
      <3>1. b \in BoundaryTable /\ b[CountCell] = 0 /\ Len(OrigOffs[t]) <= OrigLen
        BY RegisterAdds DEF Undisturbed, Hookable
      <3>2. Len(OrigOffs[t]) \in Nat
        BY InlineHookAssumption DEF Offset
      <3>3. /\ Relocated(b, t)[CountCell] = Len(OrigOffs[t])
            /\ \A k \in 0 .. Len(OrigOffs[t]) - 1 :
                 /\ Relocated(b, t)[k] = OrigOffs[t][k + 1]
                 /\ Relocated(b, t)[OrigLen + k] = TrampOffs[t][k + 1]
        BY <3>1, <3>2, RelocatedCells
      <3>4. item'[j].target = t /\ item'[j].bnd = Relocated(b, t)
        BY <2>0, RegisterAdds
      <3> QED BY <3>3, <3>4 DEF BoundariesExact, Count, OrigBoundary, TrampBoundary
    <2> QED BY <2>0, <2>1, RegisterAdds
        DEF ThreadsSafe, BoundariesExact, Count, OrigBoundary, TrampBoundary
  <1>6. ASSUME NEW th \in Thread PROVE SafeAt(th \in frozen, pc[th])'
    <2>1. SafeAt(th \in frozen, pc[th]) /\ LocationReal(pc[th])
      BY DEF ThreadsSafe, TypeInv, ThreadsReal
    <2>2. InFunction(th \in frozen, pc[th])'
      BY <1>1, <2>1 DEF SafeAt, InFunction, InsideJump, BeingHooked, BeingUnhooked
    <2>3. InTrampoline(pc[th])'
      BY <1>1, <1>3, <2>1 DEF SafeAt, InTrampoline, LocationReal
    <2>4. Returning(pc[th])'
      BY <1>1, <2>1 DEF SafeAt, Returning
    <2>5. Replaced(pc[th])'
      BY <1>1, <1>3, <2>1 DEF SafeAt, Replaced, LocationReal
    <2> QED BY <2>2, <2>3, <2>4, <2>5 DEF SafeAt
  <1> QED BY <1>4, <1>5, <1>6 DEF ThreadsSafe

(* The start of freeze(), with a child that will attach every thread; and  *)
(* the return of the call.                                                 *)
LEMMA CallSafe ==
  ASSUME TypeInv, ThreadsSafe, \A t \in Target : ~BeingUnhooked(t), AllHeld',
         frozen' = {}, UNCHANGED <<registry, code, pc, fault>>
  PROVE  ThreadsSafe'
  <1>1. UNCHANGED <<item, size, mem, icache, page, proto, pc, fault>>
    BY DEF registry, code
  <1>2. (\A i \in Used : BoundariesExact(i))'
    BY <1>1 DEF ThreadsSafe, Used, BoundariesExact, Count, OrigBoundary, TrampBoundary
  <1>3. ASSUME NEW th \in Thread PROVE SafeAt(th \in frozen, pc[th])'
    <2>1. SafeAt(th \in frozen, pc[th])
          /\ (pc[th].at = "orig" => ~InsideJump(pc[th].fn, pc[th].off))
      BY NoneInside DEF ThreadsSafe
    <2> QED BY <1>1, <2>1 DEF SafeAt, InFunction, InTrampoline, Returning, Replaced,
              InsideJump
  <1> QED BY <1>1, <1>2, <1>3 DEF ThreadsSafe

(* Before a freeze no thread is under a jump, so none is when it runs on.  *)
LEMMA FreezeSafe ==
  ASSUME TypeInv, ThreadsSafe, Undisturbed', call = "idle",
         NEW kind \in {"hook", "unhook", "hookAll", "unhookAll"}, NEW t, NEW i,
         kind \in {"hookAll", "unhookAll"} => i = 0,
         freeze(kind, t, i), UNCHANGED <<registry, code, pc, fault>>
  PROVE  ThreadsSafe'
  <1>1. call' = kind /\ pos' = i /\ frozen' = {} /\ todo' = Thread
    BY DEF freeze, Undisturbed
  <1>2. AllHeld'
    BY <1>1 DEF AllHeld
  <1>3. \A u \in Target : ~BeingUnhooked(u)
    BY DEF BeingUnhooked
  <1> QED BY <1>1, <1>2, <1>3, CallSafe

(* When a call returns, nothing it restored is still under a jump.         *)
LEMMA UnfreezeSafe ==
  ASSUME TypeInv, ThreadsSafe, unFreeze
  PROVE  ThreadsSafe'
  <1>1. \A u \in Target : ~BeingUnhooked(u)
    BY DEF unFreeze, BeingUnhooked, Used, TypeInv, TypeOK
  <1>2. AllHeld'
    BY DEF unFreeze, AllHeld
  <1> QED BY <1>1, <1>2, CallSafe DEF unFreeze

(* The child of freeze() leaves a held thread past the copied instructions *)
(* of a function about to be patched, or in its trampoline; and brings it  *)
(* back to a function about to be restored.                                *)
LEMMA AttachSafe ==
  ASSUME TypeInv, RegInv, Undisturbed, ThreadsSafe, NEW th \in Thread, Attach(th)
  PROVE  ThreadsSafe'
  <1>1. PICK l2 \in processThreadPC(pc[th]) : pc' = [pc EXCEPT ![th] = l2]
    BY DEF Attach
  <1>2. /\ pc'[th] = l2 /\ \A x \in Thread : x # th => pc'[x] = pc[x]
        /\ pc[th] \in Location /\ LocationReal(pc[th]) /\ SafeAt(th \in frozen, pc[th])
        /\ th \in todo /\ todo' = todo \ {th} /\ frozen' = frozen \cup {th}
        /\ Freezing
        /\ UNCHANGED <<item, size, mem, icache, page, proto, call, arg, pos, fault>>
    BY <1>1 DEF TypeInv, TypeOK, ThreadsReal, ThreadsSafe, Attach, registry, code
  <1>3. AllHeld' /\ fault' \in {"none", "register"}
    BY <1>2 DEF ThreadsSafe, AllHeld, Freezing
  <1>4. (\A i \in Used : BoundariesExact(i))'
    BY <1>2 DEF ThreadsSafe, Used, BoundariesExact, Count, OrigBoundary, TrampBoundary
  <1>5. ASSUME NEW x \in Thread, x # th PROVE SafeAt(x \in frozen, pc[x])'
    <2>1. SafeAt(x \in frozen, pc[x]) /\ (x \in frozen' <=> x \in frozen)
      BY <1>2, <1>5 DEF ThreadsSafe
    <2> QED BY <2>1, <1>2, <1>5 DEF SafeAt, InFunction, InTrampoline, Returning, Replaced,
              InsideJump, BeingHooked, BeingUnhooked, Used
  <1>6. SafeAt(TRUE, l2)
    <2>0. Searched \subseteq Used
      BY <1>2, MoveCases DEF ThreadsSafe
    <2>1. ASSUME l2 = pc[th],
                 \A i \in Searched : \A k \in 1 .. Len(OrigOffs[item[i].target]) :
                   Enabling => ~(/\ pc[th].at = "orig" /\ pc[th].fn = item[i].target
                                 /\ pc[th].off = OrigOffs[item[i].target][k])
          PROVE  SafeAt(TRUE, l2)
      <3>1. ASSUME BeingHooked(l2.fn), l2.at = "orig" PROVE l2.off \notin Copied(l2.fn)
        <4>1. PICK i \in Searched : item[i].target = l2.fn
          BY <3>1 DEF BeingHooked, Searched
        <4>2. Enabling
          BY <3>1 DEF BeingHooked, Enabling
        <4> QED BY <2>1, <3>1, <4>1, <4>2 DEF Copied
      <3> QED BY <1>2, <2>1, <3>1 DEF SafeAt, InFunction
    <2>2. ASSUME NEW i \in Searched, NEW k \in 1 .. Len(OrigOffs[item[i].target]),
                 Taken(i, k, pc[th], l2)
          PROVE  SafeAt(TRUE, l2)
      <3>0. PICK t \in Target, p \in Page :
              t = item[i].target /\ p = item[i].tramp /\ page[p] = t
        BY <1>2, <2>0 DEF TypeInv, ItemsReal, RegInv, TrampolinesOwned, HalfUnhooked,
                          Freezing
      <3>1. CASE Enabling
        <4>1. l2 = InTramp(p, TrampOffs[t][k]) /\ TrampOffs[t][k] \in TrampStarts(t)
          BY <2>2, <3>0, <3>1, LayoutTypes DEF Taken
        <4> QED BY <4>1, <3>0
            DEF SafeAt, InFunction, InTrampoline, Returning, Replaced, InTramp
      <3>2. CASE ~Enabling
        <4>1. l2 = InOrig(t, OrigOffs[t][k]) /\ OrigOffs[t][k] \in Boundaries(t)
          BY <2>2, <3>0, <3>2, LayoutTypes DEF Taken
        <4>2. BeingUnhooked(t)
          <5>1. call \in {"unhook", "unhookAll"}
            BY <1>2, <3>2 DEF Freezing, Enabling
          <5>2. call = "unhookAll" => pos = 0
            BY <1>2 DEF ThreadsSafe, AllHeld
          <5>3. i \in Used /\ i >= 0 /\ (call = "unhook" => i = pos)
            BY <2>0 DEF Searched, Used
          <5> QED BY <3>0, <5>1, <5>2, <5>3 DEF BeingUnhooked
        <4>3. ~BeingHooked(t)
          BY <3>2 DEF BeingHooked, Enabling
        <4> QED BY <4>1, <4>2, <4>3
            DEF SafeAt, InFunction, InTrampoline, Returning, Replaced, InOrig
      <3> QED BY <3>1, <3>2
    <2>3. \/ l2 = pc[th] /\ \A i \in Searched : \A k \in 1 .. Len(OrigOffs[item[i].target]) :
               Enabling => ~(/\ pc[th].at = "orig" /\ pc[th].fn = item[i].target
                             /\ pc[th].off = OrigOffs[item[i].target][k])
          \/ \E i \in Searched : \E k \in 1 .. Len(OrigOffs[item[i].target]) :
               Taken(i, k, pc[th], l2)
      BY <1>2, MoveCases DEF ThreadsSafe
    <2> QED BY <2>1, <2>2, <2>3
  <1>7. SafeAt(th \in frozen, pc[th])'
    BY <1>2, <1>6 DEF SafeAt, InFunction, InTrampoline, Returning, Replaced,
              InsideJump, BeingHooked, BeingUnhooked, Used
  <1> QED BY <1>3, <1>4, <1>5, <1>7 DEF ThreadsSafe

(* The jump is written while every thread is held, and those in the        *)
(* function are past the bytes it overwrites.                              *)
LEMMA PatchSafe ==
  ASSUME TypeInv, RegInv, ThreadsSafe, NEW i \in Used, PatchEntry(i), todo = {},
         \/ call = "hook" /\ i = pos /\ call' = "hooked"
         \/ call = "hookAll" /\ call' = "hookAll",
         UNCHANGED <<size, pc, arg, todo, frozen, fault>>, TablesKept
  PROVE  ThreadsSafe'
  <1>1. PICK t \in Target, p \in Page :
          t = item[i].target /\ p = item[i].tramp /\ page[p] = t
    BY DEF TypeInv, ItemsReal, RegInv, TrampolinesOwned, HalfUnhooked
  <1>2. /\ icache' = [icache EXCEPT ![t] = "jump"] /\ page' = page
        /\ proto' = IF t \in WantsProto THEN [proto EXCEPT ![t] = p] ELSE proto
        /\ proto \in [Target -> Page \cup {NoPage}] /\ icache \in [Target -> Bytes]
    BY <1>1 DEF PatchEntry, Patched, ProtoSet, Flushed, TypeInv, TypeOK
  <1>3. \A j \in Slot : item'[j].target = item[j].target
    BY InlineHookAssumption DEF PatchEntry, Patched, TypeInv, TypeOK, Item, Used, Slot
  <1>4. Used' = Used /\ Used \subseteq Slot
    BY InlineHookAssumption DEF Used, Slot, TypeInv, TypeOK
  <1>5. frozen = Thread
    BY DEF ThreadsSafe, AllHeld
  <1>6. AllHeld' /\ (\A j \in Used : BoundariesExact(j))' /\ fault' \in {"none", "register"}
    BY ExactKept DEF ThreadsSafe, AllHeld
  <1>7. ASSUME NEW th \in Thread PROVE SafeAt(th \in frozen, pc[th])'
    <2> DEFINE l == pc[th]
    <2>1. /\ SafeAt(TRUE, l) /\ LocationReal(l) /\ pc' = pc /\ th \in frozen'
          /\ l \in Location
      BY <1>5 DEF ThreadsSafe, SafeAt, InFunction, TypeInv, TypeOK, ThreadsReal
    <2>2. ASSUME l.at = "orig"
          PROVE  ~InsideJump(l.fn, l.off)' /\ (BeingHooked(l.fn)' => l.off \notin Copied(l.fn))
      <3>1. l.fn \in Target /\ l.off \in Boundaries(l.fn) /\ ~InsideJump(l.fn, l.off)
        BY <2>1, <2>2 DEF LocationReal, SafeAt, InFunction, BeingUnhooked
      <3>2. BeingHooked(l.fn) => l.off \notin Copied(l.fn)
        BY <2>1, <2>2 DEF SafeAt, InFunction
      <3>3. BeingHooked(l.fn)' => BeingHooked(l.fn)
        BY <1>3, <1>4, <2>1 DEF BeingHooked
      <3>4. CASE l.fn = t
        <4>1. BeingHooked(t)
          BY <1>1 DEF BeingHooked
        <4>2. l.off = Resume[t] /\ Resume[t] >= PatchLen[t]
              /\ Resume[t] \in Nat /\ PatchLen[t] \in Nat
          BY <3>1, <3>2, <3>4, <4>1, LayoutTypes
        <4>3. ~InsideJump(l.fn, l.off)'
          BY <2>1, <3>4, <4>2 DEF InsideJump
        <4> QED BY <3>2, <3>3, <4>3
      <3>5. CASE l.fn # t
        <4>1. ~InsideJump(l.fn, l.off)'
          BY <1>2, <2>1, <3>1, <3>5 DEF InsideJump
        <4> QED BY <3>2, <3>3, <4>1
      <3> QED BY <3>4, <3>5
    <2>3. InFunction(th \in frozen, l)'
      BY <2>1, <2>2 DEF SafeAt, InFunction
    <2>4. InTrampoline(l)' /\ Returning(l)'
      BY <1>2, <2>1 DEF SafeAt, InTrampoline, Returning
    <2>5. Replaced(l)'
      <3>1. CASE l.fn = t
        BY <1>1, <1>2, <2>1, <3>1 DEF Replaced
      <3>2. CASE l.fn # t
        BY <1>2, <2>1, <3>2 DEF SafeAt, Replaced, LocationReal
      <3> QED BY <3>1, <3>2
    <2> QED BY <2>3, <2>4, <2>5 DEF SafeAt
  <1> QED BY <1>6, <1>7 DEF ThreadsSafe

(* The saved bytes come back while every thread is held; none of them is   *)
(* in the replacement or in the trampoline that is unmapped.               *)
LEMMA RestoreSafe ==
  ASSUME TypeInv, RegInv, ThreadsSafe, Undisturbed', pos \in Used, RestoreEntry(pos),
         \/ call = "unhook" /\ call' = "unhookFree"
         \/ call = "unhookAll" /\ call' = "unhookAllFree",
         todo = {}, UNCHANGED <<registry, pc, arg, pos, todo, frozen, fault>>
  PROVE  ThreadsSafe'
  <1>1. PICK t \in Target, p \in Page :
          t = item[pos].target /\ p = item[pos].tramp /\ page[p] = t
    BY DEF TypeInv, ItemsReal, RegInv, TrampolinesOwned, HalfUnhooked
  <1>2. /\ page' = [page EXCEPT ![p] = NoFn] /\ page \in [Page -> Target \cup {NoFn}]
        /\ UNCHANGED <<item, size, icache, proto, pc>>
    BY <1>1 DEF RestoreEntry, TypeInv, TypeOK, registry
  <1>3. ~StillInside(pos)
    BY DEF RestoreEntry, Undisturbed
  <1>4. frozen = Thread /\ frozen' = Thread
    BY DEF ThreadsSafe, AllHeld
  <1>5. AllHeld' /\ fault' \in {"none", "register"}
    BY DEF ThreadsSafe, AllHeld
  <1>6. (\A j \in Used : BoundariesExact(j))'
    BY <1>2 DEF ThreadsSafe, Used, BoundariesExact, Count, OrigBoundary, TrampBoundary
  <1>7. ASSUME NEW th \in Thread PROVE SafeAt(th \in frozen, pc[th])'
    <2> DEFINE l == pc[th]
    <2>1. SafeAt(TRUE, l) /\ LocationReal(l) /\ pc' = pc /\ th \in frozen'
      BY <1>2, <1>4 DEF ThreadsSafe, SafeAt, InFunction, TypeInv, ThreadsReal
    <2>2. InFunction(th \in frozen, l)'
      BY <1>2, <2>1 DEF SafeAt, InFunction, InsideJump, BeingHooked, BeingUnhooked, Used
    <2>3. InTrampoline(l)' /\ Returning(l)'
      <3>1. l.at \in {"tramp", "callee"} => l.pg # p
        BY <1>1, <1>3 DEF StillInside
      <3>2. l.at \in {"tramp", "callee"} /\ l.pg # NoPage => page'[l.pg] = page[l.pg]
        BY <1>2, <2>1, <3>1 DEF LocationReal
      <3> QED BY <2>1, <3>2 DEF SafeAt, InTrampoline, Returning
    <2>4. Replaced(l)'
      <3> SUFFICES ASSUME l.at = "new", l.fn \in WantsProto
                   PROVE  proto[l.fn] \in Page /\ page'[proto[l.fn]] = l.fn
        BY <1>2, <2>1 DEF Replaced
      <3>1. proto[l.fn] \in Page /\ page[proto[l.fn]] = l.fn
        BY <2>1 DEF SafeAt, Replaced
      <3>2. l.fn # t
        BY <1>1, <1>3 DEF StillInside
      <3>3. proto[l.fn] # p
        BY <1>1, <3>1, <3>2
      <3> QED BY <1>2, <3>1, <3>3
    <2> QED BY <2>2, <2>3, <2>4 DEF SafeAt
  <1> QED BY <1>5, <1>6, <1>7 DEF ThreadsSafe

(* inlineUnHookAll steps over an item that is not hooked: its function has *)
(* no jump in memory and none in the cache.                                *)
LEMMA SkipSafe ==
  ASSUME TypeInv, RegInv, ThreadsSafe, hist = {}, pos \in Used,
         item[pos].status # "HOOKED", call = "unhookAll", call' = "unhookAll",
         todo = {}, pos' = pos + 1,
         UNCHANGED <<registry, code, pc, arg, todo, frozen, fault>>
  PROVE  ThreadsSafe'
  <1>1. UNCHANGED <<item, size, mem, icache, page, proto, pc>>
    BY DEF registry, code
  <1>2. AllHeld' /\ fault' \in {"none", "register"}
    BY DEF ThreadsSafe, AllHeld
  <1>3. (\A j \in Used : BoundariesExact(j))'
    BY <1>1 DEF ThreadsSafe, Used, BoundariesExact, Count, OrigBoundary, TrampBoundary
  <1>4. PICK t \in Target : t = item[pos].target
    BY DEF TypeInv, ItemsReal
  <1>5. icache[t] # "jump"
    <2>1. mem[t] # "jump"
      BY <1>4 DEF RegInv, PatchMatchesStatus, OneItemPerTarget
    <2>2. icache[t] = mem[t]
      BY DEF RegInv, StaleOnlyWhenMoved, HalfUnhooked
    <2> QED BY <2>1, <2>2
  <1>6. ASSUME NEW u \in Target, BeingUnhooked(u), u # t PROVE BeingUnhooked(u)'
    BY <1>1, <1>4, <1>6 DEF BeingUnhooked, Used, TypeInv, TypeOK
  <1>7. ASSUME NEW th \in Thread PROVE SafeAt(th \in frozen, pc[th])'
    <2> DEFINE l == pc[th]
    <2>1. SafeAt(th \in frozen, l) /\ LocationReal(l)
      BY DEF ThreadsSafe, TypeInv, ThreadsReal
    <2>2. InFunction(th \in frozen, l)'
      <3> SUFFICES ASSUME l.at = "orig" PROVE InFunction(th \in frozen, l)'
        BY <1>1 DEF InFunction
      <3>1. l.fn \in Target /\ l.off \in Boundaries(l.fn)
        BY <2>1 DEF LocationReal, SafeAt, InFunction
      <3>2. InsideJump(l.fn, l.off)' => InsideJump(l.fn, l.off) /\ l.fn # t
        BY <1>1, <1>5 DEF InsideJump
      <3>3. InsideJump(l.fn, l.off) => th \in frozen /\ BeingUnhooked(l.fn)
        BY <2>1 DEF SafeAt, InFunction
      <3>4. BeingUnhooked(l.fn) /\ l.fn # t => BeingUnhooked(l.fn)'
        BY <1>1, <1>6, <3>1 DEF BeingUnhooked
      <3>5. ~BeingHooked(l.fn)'
        BY DEF BeingHooked
      <3> QED BY <1>1, <3>1, <3>2, <3>3, <3>4, <3>5 DEF InFunction
    <2>3. (InTrampoline(l) /\ Returning(l) /\ Replaced(l))'
      BY <1>1, <2>1 DEF SafeAt, InTrampoline, Returning, Replaced
    <2> QED BY <2>2, <2>3 DEF SafeAt
  <1> QED BY <1>2, <1>3, <1>7 DEF ThreadsSafe

(* deleteInlineHookItem and the flush: the item was the last one, so it is *)
(* its own function that is flushed.                                       *)
LEMMA DeleteSafe ==
  ASSUME TypeInv, RegInv, ThreadsSafe, hist = {}, pos \in Used, DeleteItem(pos),
         \/ call = "unhookFree" /\ call' = "unhooked"
         \/ call = "unhookAllFree" /\ call' = "unhookAll",
         UNCHANGED <<pc, arg, pos, todo, frozen, fault>>, TablesKept
  PROVE  ThreadsSafe'
  <1>1. pos = size - 1 /\ todo = {}
    BY DEF RegInv, CallKnows, ThreadsSafe, AllHeld
  <1>2. PICK t \in Target : t = item[pos].target
    BY DEF TypeInv, ItemsReal
  <1>3. /\ icache' = [icache EXCEPT ![t] = mem[t]] /\ UNCHANGED <<page, proto, pc>>
        /\ icache \in [Target -> Bytes]
    BY <1>1, <1>2 DEF DeleteItem, TypeInv, TypeOK
  <1>4. AllHeld' /\ (\A j \in Used : BoundariesExact(j))' /\ fault' \in {"none", "register"}
    BY <1>1, ExactKept DEF ThreadsSafe, AllHeld
  <1>5. mem[t] # "jump"
    BY <1>2 DEF RegInv, PatchMatchesStatus, OneItemPerTarget, HalfUnhooked
  <1>6. \A u \in Target : BeingUnhooked(u) => u = t
    BY <1>1, <1>2 DEF BeingUnhooked, Used, TypeInv, TypeOK
  <1>7. ASSUME NEW th \in Thread PROVE SafeAt(th \in frozen, pc[th])'
    <2> DEFINE l == pc[th]
    <2>1. SafeAt(th \in frozen, l) /\ LocationReal(l)
      BY DEF ThreadsSafe, TypeInv, ThreadsReal
    <2>2. InFunction(th \in frozen, l)'
      <3> SUFFICES ASSUME l.at = "orig" PROVE InFunction(th \in frozen, l)'
        BY <1>3 DEF InFunction
      <3>1. l.fn \in Target /\ l.off \in Boundaries(l.fn)
        BY <2>1 DEF LocationReal, SafeAt, InFunction
      <3>2. InsideJump(l.fn, l.off) => l.fn = t
        BY <1>6, <2>1, <3>1 DEF SafeAt, InFunction
      <3>3. ~InsideJump(l.fn, l.off)'
        BY <1>3, <1>5, <3>1, <3>2 DEF InsideJump
      <3>4. ~BeingHooked(l.fn)'
        BY DEF BeingHooked
      <3> QED BY <1>3, <3>1, <3>3, <3>4 DEF InFunction
    <2>3. (InTrampoline(l) /\ Returning(l) /\ Replaced(l))'
      BY <1>3, <2>1 DEF SafeAt, InTrampoline, Returning, Replaced
    <2> QED BY <2>2, <2>3 DEF SafeAt
  <1> QED BY <1>4, <1>7 DEF ThreadsSafe

(* A cache line is reloaded only over the jump of a function that has been *)
(* restored.                                                               *)
LEMMA ReloadSafe ==
  ASSUME TypeInv, RegInv, ThreadsSafe, NEW t \in Target, Reload(t)
  PROVE  ThreadsSafe'
  <1>1. /\ UNCHANGED <<item, size, mem, page, proto, pc, call, arg, pos, todo, frozen, fault>>
        /\ icache' = [icache EXCEPT ![t] = mem[t]] /\ icache[t] # mem[t]
        /\ icache \in [Target -> Bytes]
    BY DEF Reload, registry, api, TypeInv, TypeOK
  <1>2. mem[t] = "orig"
    BY <1>1 DEF RegInv, StaleOnlyWhenMoved
  <1>3. \A u \in Target : icache'[u] = "jump" => icache[u] = "jump"
    BY <1>1, <1>2
  <1>4. AllHeld' /\ fault' \in {"none", "register"} /\ (\A i \in Used : BoundariesExact(i))'
    BY <1>1 DEF ThreadsSafe, AllHeld, Used, BoundariesExact, Count, OrigBoundary,
                TrampBoundary
  <1>5. ASSUME NEW th \in Thread PROVE SafeAt(th \in frozen, pc[th])'
    <2>1. SafeAt(th \in frozen, pc[th]) /\ LocationReal(pc[th])
      BY DEF ThreadsSafe, TypeInv, ThreadsReal
    <2>2. InFunction(th \in frozen, pc[th])'
      BY <1>1, <1>3, <2>1 DEF SafeAt, InFunction, LocationReal, InsideJump, BeingHooked,
                BeingUnhooked, Used
    <2>3. (InTrampoline(pc[th]) /\ Returning(pc[th]) /\ Replaced(pc[th]))'
      BY <1>1, <2>1 DEF SafeAt, InTrampoline, Returning, Replaced
    <2> QED BY <2>2, <2>3 DEF SafeAt
  <1> QED BY <1>4, <1>5 DEF ThreadsSafe

(* A step that changes neither threads, code nor call; the process may     *)
(* have died in registerInlineHook.                                        *)
LEMMA FrameSafe ==
  ASSUME ThreadsSafe, UNCHANGED <<registry, code, pc, api>>,
         fault' \in {"none", "register"}
  PROVE  ThreadsSafe'
  <1>1. UNCHANGED <<item, size, mem, icache, page, proto, pc, call, arg, pos, todo, frozen>>
    BY DEF registry, code, api
  <1>2. AllHeld' /\ (\A i \in Used : BoundariesExact(i))'
    BY <1>1 DEF ThreadsSafe, AllHeld, Used, BoundariesExact, Count, OrigBoundary,
                TrampBoundary
  <1>3. ASSUME NEW th \in Thread PROVE SafeAt(th \in frozen, pc[th])'
    BY <1>1 DEF ThreadsSafe, SafeAt, InFunction, InTrampoline, Returning, Replaced,
                InsideJump, BeingHooked, BeingUnhooked, Used
  <1> QED BY <1>2, <1>3 DEF ThreadsSafe

(* Disturbances are never forgotten.                                       *)
LEMMA HistGrows == [Next]_vars => hist \subseteq hist'
  BY DEF Next, ApiStart, RegisterRefused, registerInlineHook, AddItem, RegisterFault,
         inlineHookRefused, inlineHook, inlineUnHookRefused, inlineUnHook, freeze,
         inlineHookAll, inlineUnHookAll, ApiStep, Attach, AttachFails, doInlineHook,
         DoHookAllItem, DoRestore, DoUnHookAllItem, RestoreEntry, DoFree, DoFreeAllItem,
         unFreeze, ThreadStep, Call, EnterMalloc, LeaveMalloc, ExecOrig, ExecNew,
         ExecTramp, ExecCallee, Goto, Die, Reload, vars

(* Every step of an undisturbed library keeps every thread safe.           *)
LEMMA NextSafe ==
  ASSUME TypeInv, RegInv, ThreadInv, [Next]_vars
  PROVE  ThreadInv'
  <1> SUFFICES ASSUME Undisturbed' PROVE ThreadsSafe'
    BY DEF ThreadInv
  <1>1. hist = {} /\ Undisturbed /\ ThreadsSafe
    BY HistGrows DEF Undisturbed, ThreadInv, Hookable, Boundaries, IsNext
  <1>0. pos \in Int /\ pos >= 0 /\ size \in Int /\ fault \in {"none", "register"}
    BY <1>1 DEF TypeInv, TypeOK, ThreadsSafe
  <1>2. ASSUME NEW t \in Target, ApiStart(t) PROVE ThreadsSafe'
    <2>1. CASE RegisterRefused(t) \/ inlineHookRefused(t) \/ inlineUnHookRefused(t)
               \/ RegisterFault(t)
      BY <2>1, <1>0, <1>1, FrameSafe
      DEF RegisterRefused, inlineHookRefused, inlineUnHookRefused, RegisterFault
    <2>2. CASE registerInlineHook(t)
      BY <2>2, <1>1, RegisterSafe
    <2>3. CASE inlineHook(t) \/ inlineUnHook(t)
      <3>1. PICK i \in Used, kind \in {"hook", "unhook"} : freeze(kind, t, i)
        BY <2>3 DEF inlineHook, inlineUnHook
      <3> QED BY <2>3, <3>1, <1>1, FreezeSafe DEF inlineHook, inlineUnHook
    <2> QED BY <1>2, <2>1, <2>2, <2>3 DEF ApiStart
  <1>3. CASE inlineHookAll \/ inlineUnHookAll
    <2>1. PICK kind \in {"hookAll", "unhookAll"} : freeze(kind, NoFn, 0)
      BY <1>3 DEF inlineHookAll, inlineUnHookAll
    <2> QED BY <1>1, <1>3, <2>1, FreezeSafe DEF inlineHookAll, inlineUnHookAll
  <1>4. ASSUME NEW th \in Thread, Attach(th) \/ AttachFails(th) PROVE ThreadsSafe'
    BY <1>1, <1>4, AttachSafe DEF AttachFails, Undisturbed
  <1>5. ASSUME ~\E t \in Target : registerInlineHook(t) PROVE TablesKept
    BY <1>5, OnlyRegisterMakesTables
  <1>6. CASE doInlineHook
    <2>1. pos \in Used
      BY <1>6, <1>0 DEF doInlineHook, TypeInv, PosReal, Used
    <2>2. TablesKept
      BY <1>6, <1>5 DEF doInlineHook, registerInlineHook
    <2> QED BY <1>1, <1>6, <2>1, <2>2, PatchSafe DEF doInlineHook
  <1>7. CASE DoHookAllItem
    <2>1. pos \in Used
      BY <1>7, <1>0 DEF DoHookAllItem, TypeInv, TypeOK, Used
    <2>2. CASE PatchEntry(pos)
      <3>1. TablesKept
        BY <1>7, <1>5 DEF DoHookAllItem, registerInlineHook
      <3> QED BY <1>1, <1>7, <2>1, <2>2, <3>1, PatchSafe DEF DoHookAllItem
    <2>3. CASE UNCHANGED <<item, code>>
      <3>1. /\ UNCHANGED <<item, size, mem, icache, page, proto, pc, call, arg, todo,
                           frozen, fault>>
            /\ call = "hookAll" /\ todo = {}
        BY <1>7, <2>3 DEF DoHookAllItem, code
      <3>2. AllHeld' /\ (\A i \in Used : BoundariesExact(i))'
        BY <1>1, <3>1 DEF ThreadsSafe, AllHeld, Used, BoundariesExact, Count,
                  OrigBoundary, TrampBoundary
      <3>3. ASSUME NEW th \in Thread PROVE SafeAt(th \in frozen, pc[th])'
        BY <1>1, <3>1 DEF ThreadsSafe, SafeAt, InFunction, InTrampoline, Returning,
                  Replaced, InsideJump, BeingHooked, BeingUnhooked, Used
      <3> QED BY <1>0, <3>1, <3>2, <3>3 DEF ThreadsSafe
    <2> QED BY <1>7, <2>2, <2>3 DEF DoHookAllItem
  <1>8. CASE DoRestore
    <2>1. pos \in Used
      BY <1>8, <1>0 DEF DoRestore, TypeInv, PosReal, Used
    <2> QED BY <1>1, <1>8, <2>1, RestoreSafe DEF DoRestore
  <1>9. CASE DoUnHookAllItem
    <2>1. pos \in Used
      BY <1>9, <1>0 DEF DoUnHookAllItem, TypeInv, TypeOK, Used
    <2>2. CASE item[pos].status = "HOOKED"
      BY <1>1, <1>9, <2>1, <2>2, RestoreSafe DEF DoUnHookAllItem
    <2>3. CASE item[pos].status # "HOOKED"
      BY <1>1, <1>9, <2>1, <2>3, SkipSafe DEF DoUnHookAllItem
    <2> QED BY <2>2, <2>3
  <1>10. CASE DoFree \/ DoFreeAllItem
    <2>1. pos \in Used
      BY <1>10, <1>0 DEF DoFree, DoFreeAllItem, TypeInv, PosReal, Used
    <2>2. TablesKept
      BY <1>10, <1>5 DEF DoFree, DoFreeAllItem, registerInlineHook
    <2> QED BY <1>1, <1>10, <2>1, <2>2, DeleteSafe DEF DoFree, DoFreeAllItem
  <1>11. CASE unFreeze
    BY <1>1, <1>11, UnfreezeSafe
  <1>12. ASSUME NEW th \in Thread, ThreadStep(th) PROVE ThreadsSafe'
    BY <1>1, <1>12, ThreadStepSafe
  <1>13. ASSUME NEW t \in Target, Reload(t) PROVE ThreadsSafe'
    BY <1>1, <1>13, ReloadSafe
  <1>14. CASE UNCHANGED vars
    BY <1>0, <1>1, <1>14, FrameSafe DEF vars, registry, code, api
  <1> QED BY <1>2, <1>3, <1>4, <1>6, <1>7, <1>8, <1>9, <1>10, <1>11, <1>12, <1>13, <1>14
          DEF Next, ApiStep

(* Initially every thread is outside the functions of interest.            *)
LEMMA InitSafe == Init => ThreadInv
  BY DEF Init, ThreadInv, ThreadsSafe, AllHeld, SafeAt, InFunction, InTrampoline,
         Returning, Replaced, Out, Used

(* While no freeze misses a thread, no slot is reused, no unhook moves     *)
(* another item and none happens over a thread that is still inside, every *)
(* thread is where the library can move it or leave it.                    *)
THEOREM ThreadsStaySafe == Spec => []ThreadInv
  <1>1. TypeInv /\ RegInv /\ ThreadInv /\ [Next]_vars => ThreadInv'
    BY NextSafe
  <1> QED BY <1>1, InitSafe, InvariantHolds, PTL DEF Spec

(* No thread is ever sent into the middle of a patch, to an unmapped       *)
(* trampoline or to another function's original, unless one of the four    *)
(* disturbances happened first or a function was not hookable.             *)
THEOREM NoThreadLost == Spec => []FaultNeedsDisturbance
  <1>1. ThreadInv => FaultNeedsDisturbance
    BY DEF ThreadInv, Undisturbed, ThreadsSafe, FaultNeedsDisturbance
  <1> QED BY <1>1, ThreadsStaySafe, PTL

=============================================================================
