-------------------------- MODULE InlineHookProofs --------------------------
(***************************************************************************)
(* Proofs about InlineHook, for any functions, threads, pages, table size  *)
(* and instruction layout.                                                 *)
(***************************************************************************)
EXTENDS InlineHook, TLAPS

(* The items in use are initialised.                                       *)
ItemsReal == \A i \in Used : item[i].target \in Target /\ item[i].tramp \in Page

(* A thread inside a function, a replacement or a trampoline names it.     *)
LocationReal(l) ==
  /\ l.at \in {"orig", "new"} => l.fn \in Target
  /\ l.at = "tramp" => l.pg \in Page
  /\ l.at = "callee" => l.pg \in Page \/ (l.fn \in Target /\ l.pg = NoPage)
ThreadsReal == \A th \in Thread : LocationReal(pc[th])

(* A call that works on one item has found it in the registry.             *)
PosReal == call \in {"hook", "hooked", "unhook", "unhookFree", "unhookAllFree"}
             => pos < size

TypeInv == TypeOK /\ ItemsReal /\ ThreadsReal /\ PosReal

-----------------------------------------------------------------------------
(* The boundary table keeps its type when relocateInstruction stores into  *)
(* it, whatever its count was.                                             *)
LEMMA StoredType ==
  ASSUME NEW b \in BoundaryTable, NEW t \in Target
  PROVE Relocated(b, t) \in BoundaryTable
  <1> DEFINE o == OrigOffs[t]
             p == TrampOffs[t]
             c == b[CountCell]
  <1>1. o \in Seq(Nat) /\ p \in Seq(Nat) /\ Len(p) = Len(o)
    BY InlineHookAssumption DEF Offset
  <1>2. c \in Nat
    BY DEF BoundaryTable, Cell, CountCell, OrigLen, TrampLen
  <1>3. ASSUME NEW k \in Cell
        PROVE  (IF k = CountCell THEN b[CountCell] + Len(o)
                ELSE IF k - c \in 0 .. Len(o) - 1 THEN o[k - c + 1]
                ELSE IF k - OrigLen - c \in 0 .. Len(o) - 1 THEN p[k - OrigLen - c + 1]
                ELSE b[k]) \in Nat
    <2> HIDE DEF o, p
    <2>1. k \in Int /\ OrigLen \in Int
      BY DEF Cell, CountCell, OrigLen, TrampLen
    <2>2. CASE k = CountCell
      BY <1>1, <1>2, <2>2 DEF c
    <2>3. CASE k # CountCell /\ k - c \in 0 .. Len(o) - 1
      <3>1. k - c + 1 \in 1 .. Len(o)
        BY <1>1, <1>2, <2>1, <2>3
      <3>2. o[k - c + 1] \in Nat
        BY <3>1, <1>1
      <3> QED BY <3>2, <2>3
    <2>4. CASE k # CountCell /\ ~(k - c \in 0 .. Len(o) - 1)
               /\ k - OrigLen - c \in 0 .. Len(o) - 1
      <3>1. k - OrigLen - c + 1 \in 1 .. Len(p)
        <4> HIDE DEF c
        <4>1. Len(o) = Len(p) /\ Len(o) \in Nat /\ k - OrigLen - c \in 0 .. Len(o) - 1
          BY <1>1, <2>4
        <4> QED BY <4>1, <1>2, <2>1
      <3>2. p[k - OrigLen - c + 1] \in Nat
        BY <3>1, <1>1
      <3> QED BY <3>2, <2>4
    <2>5. CASE k # CountCell /\ ~(k - c \in 0 .. Len(o) - 1)
               /\ ~(k - OrigLen - c \in 0 .. Len(o) - 1)
      BY <2>5 DEF BoundaryTable
    <2> QED BY <2>2, <2>3, <2>4, <2>5
  <1> QED BY <1>3 DEF Relocated, Stored, BoundaryTable

(* Initial states are well typed.                                          *)
LEMMA InitType == Init => TypeInv
  <1> SUFFICES ASSUME Init PROVE TypeInv
    OBVIOUS
  <1> USE InlineHookAssumption
  <1>1. EmptyItem \in Item
    BY DEF EmptyItem, Item, BoundaryTable, Cell, CountCell, OrigLen, TrampLen, Bytes, Status
  <1>2. Out \in Location
    BY DEF Out, Location, Offset
  <1>3. TypeOK
    BY <1>1, <1>2 DEF Init, TypeOK, Bytes, Slot, Disturbance
  <1>4. ItemsReal /\ ThreadsReal /\ PosReal
    BY DEF Init, ItemsReal, ThreadsReal, PosReal, LocationReal, Used, Out
  <1> QED BY <1>3, <1>4 DEF TypeInv

(* A location built by the model is a location that names its function.    *)
LEMMA LocationTypes ==
  /\ Out \in Location /\ LocationReal(Out)
  /\ Malloc \in Location /\ LocationReal(Malloc)
  /\ \A t \in Target, o \in Nat :
       /\ InOrig(t, o) \in Location /\ LocationReal(InOrig(t, o))
       /\ Callee(InOrig(t, o)) \in Location /\ LocationReal(Callee(InOrig(t, o)))
  /\ \A t \in Target : InNew(t) \in Location /\ LocationReal(InNew(t))
  /\ \A p \in Page, o \in Nat :
       /\ InTramp(p, o) \in Location /\ LocationReal(InTramp(p, o))
       /\ Callee(InTramp(p, o)) \in Location /\ LocationReal(Callee(InTramp(p, o)))
  <1>1. /\ Out \in Location /\ LocationReal(Out)
        /\ Malloc \in Location /\ LocationReal(Malloc)
    BY DEF Out, Malloc, Location, LocationReal, Offset
  <1>2. ASSUME NEW t \in Target, NEW o \in Nat
        PROVE  /\ InOrig(t, o) \in Location /\ LocationReal(InOrig(t, o))
               /\ Callee(InOrig(t, o)) \in Location /\ LocationReal(Callee(InOrig(t, o)))
               /\ InNew(t) \in Location /\ LocationReal(InNew(t))
    BY DEF InOrig, InNew, Callee, Location, LocationReal, Offset
  <1>3. ASSUME NEW p \in Page, NEW o \in Nat
        PROVE  /\ InTramp(p, o) \in Location /\ LocationReal(InTramp(p, o))
               /\ Callee(InTramp(p, o)) \in Location /\ LocationReal(Callee(InTramp(p, o)))
    BY DEF InTramp, Callee, Location, LocationReal, Offset
  <1> QED BY <1>1, <1>2, <1>3

(* A step that only moves one thread to such a location keeps the types.   *)
LEMMA GotoType ==
  ASSUME TypeInv, NEW th \in Thread, NEW l \in Location, LocationReal(l),
         pc' = [pc EXCEPT ![th] = l],
         todo' \subseteq Thread, frozen' \subseteq Thread,
         UNCHANGED <<registry, code, call, arg, pos, fault, hist>>
  PROVE TypeInv'
  <1>1. pc' \in [Thread -> Location] /\ ThreadsReal'
    BY DEF TypeInv, TypeOK, ThreadsReal, LocationReal
  <1>2. TypeOK'
    BY <1>1 DEF TypeInv, TypeOK, registry, code
  <1>3. ItemsReal' /\ PosReal'
    BY DEF TypeInv, ItemsReal, PosReal, Used, registry
  <1> QED BY <1>1, <1>2, <1>3 DEF TypeInv

(* doProcessThreadPC leaves a thread at a location.                        *)
LEMMA ProcessType ==
  ASSUME TypeInv, NEW l \in Location, LocationReal(l), PosReal, Freezing,
         NEW l2 \in processThreadPC(l)
  PROVE l2 \in Location /\ LocationReal(l2)
  <1>1. CASE Candidates(l) = {}
    BY <1>1 DEF processThreadPC
  <1>2. CASE Candidates(l) # {}
    <2>1. PICK i \in Slot, k \in 0 .. TrampLen - 1 :
            FirstMatch(i, k, l) /\ l2 = Landing(i, k)
      BY <1>2 DEF processThreadPC
    <2>2. i \in Used
      <3>1. i \in Candidates(l)
        BY <2>1 DEF FirstMatch, IsFirst
      <3>2. pos \in Int /\ size \in Int
        BY DEF TypeInv, TypeOK
      <3> QED BY <3>1, <3>2 DEF Candidates, Used, PosReal, Slot, TypeInv, TypeOK
    <2>3. item[i].tramp \in Page /\ item[i].target \in Target
      BY <2>2 DEF TypeInv, ItemsReal
    <2>4. OrigBoundary(i, k) \in Nat /\ TrampBoundary(i, k) \in Nat
      <3>1. item[i].bnd \in [Cell -> Nat]
        BY <2>1 DEF TypeInv, TypeOK, Item, BoundaryTable
      <3>2. k \in Cell /\ OrigLen + k \in Cell
        BY DEF Cell, CountCell, OrigLen, TrampLen
      <3> QED BY <3>1, <3>2 DEF OrigBoundary, TrampBoundary
    <2> QED BY <2>1, <2>3, <2>4, LocationTypes DEF Landing
  <1> QED BY <1>1, <1>2

(* The calls that change nothing but their answer.                         *)
LEMMA RefusedType ==
  ASSUME TypeInv, UNCHANGED <<registry, code, pc, api, hist>>,
         fault' \in {"none", "register", "pc", "proto", "trampoline"}
  PROVE TypeInv'
  BY DEF TypeInv, TypeOK, ItemsReal, ThreadsReal, PosReal, LocationReal, Used,
         registry, code, api

(* The start of a call that freezes.                                       *)
LEMMA FreezeType ==
  ASSUME TypeInv, NEW kind \in {"hook", "unhook", "hookAll", "unhookAll"},
         NEW t \in Target \cup {NoFn}, NEW i \in Nat, i = 0 \/ i \in Used,
         kind \in {"hook", "unhook"} => i \in Used,
         freeze(kind, t, i), UNCHANGED <<registry, code, pc, fault>>
  PROVE TypeInv'
  <1>1. i < size \/ kind \notin {"hook", "unhook"}
    BY DEF Used, TypeInv, TypeOK
  <1>2. i \in 0 .. MaxItems
    BY InlineHookAssumption DEF Used, TypeInv, TypeOK
  <1>3. TypeOK'
    BY <1>2 DEF TypeInv, TypeOK, freeze, registry, code, Disturbance
  <1>4. ItemsReal' /\ ThreadsReal'
    BY DEF TypeInv, ItemsReal, ThreadsReal, LocationReal, Used, registry
  <1>5. PosReal'
    BY <1>1 DEF PosReal, freeze, registry
  <1> QED BY <1>3, <1>4, <1>5 DEF TypeInv

(* registerInlineHook fills a slot of the table with an item.              *)
LEMMA RegisterType ==
  ASSUME TypeInv, NEW t \in Target, registerInlineHook(t)
  PROVE TypeInv'
  <1> USE InlineHookAssumption
  <1>1. PICK p \in Page :
          /\ page' = [page EXCEPT ![p] = t]
          /\ item' = [item EXCEPT ![size] =
                        [target |-> t, saved |-> mem[t], tramp |-> p,
                         bnd |-> Relocated(item[size].bnd, t),
                         status |-> "REGISTERED"]]
    BY DEF registerInlineHook, AddItem
  <1>2. size \in Slot /\ size' = size + 1 /\ size' \in 0 .. MaxItems
    BY DEF TypeInv, TypeOK, Slot, registerInlineHook, AddItem
  <1>3. Relocated(item[size].bnd, t) \in BoundaryTable
    BY <1>2, StoredType DEF TypeInv, TypeOK, Item
  <1>4. [target |-> t, saved |-> mem[t], tramp |-> p,
         bnd |-> Relocated(item[size].bnd, t), status |-> "REGISTERED"] \in Item
    BY <1>3 DEF Item, Status, TypeInv, TypeOK
  <1>5. item' \in [Slot -> Item]
    BY <1>1, <1>4 DEF TypeInv, TypeOK
  <1>6. TypeOK'
    BY <1>1, <1>2, <1>5
    DEF TypeInv, TypeOK, registerInlineHook, AddItem, api, Disturbance
  <1>7. ItemsReal'
    BY <1>1, <1>2 DEF TypeInv, TypeOK, ItemsReal, Used, Slot
  <1>8. ThreadsReal' /\ PosReal'
    BY <1>2 DEF TypeInv, ThreadsReal, LocationReal, PosReal, registerInlineHook, api
  <1> QED BY <1>6, <1>7, <1>8 DEF TypeInv

(* Patching the entry of an item of the registry.                          *)
LEMMA PatchType ==
  ASSUME TypeInv, NEW i \in Used, PatchEntry(i),
         NEW c, call' = c, c \in {"hooked", "hookAll"},
         c = "hooked" => pos < size,
         pos' \in 0 .. MaxItems, c = "hooked" => pos' = pos,
         UNCHANGED <<size, pc, arg, todo, frozen, fault, hist>>
  PROVE TypeInv'
  <1>1. i \in Slot
    BY InlineHookAssumption DEF Used, Slot, TypeInv, TypeOK
  <1>2. item' \in [Slot -> Item]
    <2>1. item' = [item EXCEPT ![i].status = "HOOKED"]
      BY DEF PatchEntry, Patched
    <2>2. item \in [Slot -> Item]
      BY DEF TypeInv, TypeOK
    <2> QED BY <1>1, <2>1, <2>2 DEF Item, Status
  <1>3. \A j \in Slot : item'[j].target = item[j].target /\ item'[j].tramp = item[j].tramp
    BY <1>1 DEF PatchEntry, Patched, TypeInv, TypeOK, Item
  <1>4. proto' \in [Target -> Page \cup {NoPage}] /\ mem' \in [Target -> Bytes]
        /\ icache' \in [Target -> Bytes] /\ page' = page
    BY <1>1 DEF PatchEntry, Patched, ProtoSet, Flushed, TypeInv, TypeOK, Item, Bytes
  <1>5. TypeOK'
    BY <1>2, <1>4 DEF TypeInv, TypeOK
  <1>6. ItemsReal'
    <2> SUFFICES ASSUME NEW j \in Used'
                 PROVE item'[j].target \in Target /\ item'[j].tramp \in Page
      BY DEF ItemsReal
    <2>1. j \in Used /\ j \in Slot
      BY InlineHookAssumption DEF TypeInv, TypeOK, Used, Slot
    <2> QED BY <2>1, <1>3 DEF TypeInv, ItemsReal
  <1>7. ThreadsReal' /\ PosReal'
    BY DEF TypeInv, ThreadsReal, LocationReal, PosReal
  <1> QED BY <1>5, <1>6, <1>7 DEF TypeInv

(* The first half of doInlineUnHook.                                       *)
LEMMA RestoreType ==
  ASSUME TypeInv, pos \in Used, RestoreEntry(pos),
         call' \in {"unhookFree", "unhookAllFree"},
         UNCHANGED <<registry, pc, arg, pos, todo, frozen, fault>>
  PROVE TypeInv'
  <1>1. pos \in Slot
    BY InlineHookAssumption DEF Used, Slot, TypeInv, TypeOK
  <1>2. mem' \in [Target -> Bytes] /\ page' \in [Page -> Target \cup {NoFn}]
    BY <1>1 DEF RestoreEntry, TypeInv, TypeOK, Item
  <1>3. hist' \subseteq Disturbance
    BY DEF RestoreEntry, TypeInv, TypeOK, Disturbance
  <1>4. TypeOK'
    BY <1>2, <1>3 DEF TypeInv, TypeOK, registry, RestoreEntry
  <1>5. ItemsReal' /\ ThreadsReal'
    BY DEF TypeInv, ItemsReal, ThreadsReal, LocationReal, Used, registry
  <1>6. PosReal'
    BY DEF Used, TypeInv, TypeOK, registry, PosReal
  <1> QED BY <1>4, <1>5, <1>6 DEF TypeInv

(* The second half of doInlineUnHook.                                      *)
LEMMA DeleteType ==
  ASSUME TypeInv, pos \in Used, DeleteItem(pos), call' \in {"unhooked", "unhookAll"},
         UNCHANGED <<pc, arg, pos, todo, frozen, fault, hist>>
  PROVE TypeInv'
  <1>1. size - 1 \in Slot /\ pos \in Slot /\ size' = size - 1 /\ size' \in 0 .. MaxItems
    BY InlineHookAssumption DEF Used, Slot, TypeInv, TypeOK, DeleteItem
  <1>2. item' = [item EXCEPT ![pos] = item[size - 1]] /\ item' \in [Slot -> Item]
    BY <1>1 DEF DeleteItem, TypeInv, TypeOK
  <1>3. icache' \in [Target -> Bytes]
    BY <1>1 DEF DeleteItem, TypeInv, TypeOK
  <1>4. TypeOK'
    BY <1>1, <1>2, <1>3 DEF DeleteItem, TypeInv, TypeOK
  <1>5. ItemsReal'
    BY <1>1, <1>2 DEF TypeInv, TypeOK, ItemsReal, Used, Slot
  <1>6. ThreadsReal' /\ PosReal'
    BY DEF TypeInv, ThreadsReal, LocationReal, PosReal
  <1> QED BY <1>4, <1>5, <1>6 DEF TypeInv

(* Layout facts: every offset a thread can step to is a natural number.    *)
LEMMA OffsetTypes ==
  ASSUME NEW t \in Target
  PROVE  /\ Boundaries(t) \subseteq Nat
         /\ TrampStarts(t) \subseteq Nat
         /\ Resume[t] \in Nat
  <1>1. Resume[t] \in Nat /\ TrampEnd[t] \in Nat /\ TrampMid[t] \subseteq Nat
    BY InlineHookAssumption DEF Offset
  <1>2. OrigOffs[t] \in Seq(Nat) /\ TrampOffs[t] \in Seq(Nat)
    BY InlineHookAssumption DEF Offset
  <1>3. \A k \in 1 .. Len(OrigOffs[t]) : OrigOffs[t][k] \in Nat
    BY <1>2
  <1>4. \A k \in 1 .. Len(TrampOffs[t]) : TrampOffs[t][k] \in Nat
    BY <1>2
  <1> QED BY <1>1, <1>3, <1>4 DEF Boundaries, TrampStarts

(* Every step of a thread keeps the types.                                 *)
LEMMA ThreadType ==
  ASSUME TypeInv, NEW th \in Thread, ThreadStep(th)
  PROVE TypeInv'
  <1> DEFINE GoesTo(l) == l \in Location /\ LocationReal(l) /\ Goto(th, l)
  <1>0. ASSUME NEW l, GoesTo(l) PROVE TypeInv'
    <2>1. /\ pc' = [pc EXCEPT ![th] = l]
          /\ UNCHANGED <<registry, code, call, arg, pos, fault, hist>>
          /\ todo' \subseteq Thread /\ frozen' \subseteq Thread
      BY <1>0 DEF Goto, api, TypeInv, TypeOK
    <2> QED BY <1>0, <2>1, GotoType
  <1>1. ASSUME NEW why \in {"pc", "proto", "trampoline"}, Die(why) PROVE TypeInv'
    BY <1>1, RefusedType DEF Die
  <1>2. pc[th] \in Location /\ LocationReal(pc[th])
    BY DEF TypeInv, TypeOK, ThreadsReal
  <1>3. ASSUME NEW t \in Target, Call(th, t) PROVE TypeInv'
    BY <1>3, <1>0, LocationTypes DEF Call
  <1>4. CASE EnterMalloc(th)
    BY <1>4, <1>0, LocationTypes DEF EnterMalloc
  <1>5. CASE LeaveMalloc(th)
    BY <1>5, <1>0, LocationTypes DEF LeaveMalloc
  <1>6. CASE ExecOrig(th)
    <2> DEFINE t == pc[th].fn
               o == pc[th].off
    <2>1. t \in Target
      BY <1>2, <1>6 DEF ExecOrig, LocationReal
    <2>2. CASE Goto(th, InNew(t))
      BY <2>1, <2>2, <1>0, LocationTypes
    <2>3. CASE \E o2 \in Boundaries(t) :
                 Goto(th, IF o \in CallOffs[t] THEN Callee(InOrig(t, o2)) ELSE InOrig(t, o2))
      <3>1. PICK o2 \in Boundaries(t) :
              Goto(th, IF o \in CallOffs[t] THEN Callee(InOrig(t, o2)) ELSE InOrig(t, o2))
        BY <2>3
      <3>2. o2 \in Nat
        BY <2>1, OffsetTypes
      <3> QED BY <2>1, <3>1, <3>2, <1>0, LocationTypes
    <2>4. CASE Goto(th, Out)
      BY <2>4, <1>0, LocationTypes
    <2>5. CASE Die("pc")
      BY <2>5, <1>1
    <2> QED BY <1>6, <2>2, <2>3, <2>4, <2>5 DEF ExecOrig
  <1>7. CASE ExecNew(th)
    <2> DEFINE t == pc[th].fn
    <2>1. t \in Target
      BY <1>2, <1>7 DEF ExecNew, LocationReal
    <2>2. CASE proto[t] # NoPage /\ Goto(th, InTramp(proto[t], 0))
      BY <2>1, <2>2, <1>0, LocationTypes DEF TypeInv, TypeOK
    <2>3. CASE Die("proto")
      BY <2>3, <1>1
    <2>4. CASE Goto(th, Out)
      BY <2>4, <1>0, LocationTypes
    <2> QED BY <1>7, <2>2, <2>3, <2>4 DEF ExecNew
  <1>8. CASE ExecTramp(th)
    <2> DEFINE p == pc[th].pg
               t == page[p]
               o == pc[th].off
    <2>1. p \in Page
      BY <1>2, <1>8 DEF ExecTramp, LocationReal
    <2>2. t \in Target \cup {NoFn}
      BY <2>1 DEF TypeInv, TypeOK
    <2>3. CASE t # NoFn /\ \E o2 \in TrampStarts(t) :
                 Goto(th, IF o \in TrampCalls[t] THEN Callee(InTramp(p, o2)) ELSE InTramp(p, o2))
      <3>1. PICK o2 \in TrampStarts(t) :
              Goto(th, IF o \in TrampCalls[t] THEN Callee(InTramp(p, o2)) ELSE InTramp(p, o2))
        BY <2>3
      <3>2. o2 \in Nat
        BY <2>2, <2>3, OffsetTypes
      <3> QED BY <2>1, <3>1, <3>2, <1>0, LocationTypes
    <2>4. CASE t # NoFn /\ Goto(th, InOrig(t, Resume[t]))
      BY <2>2, <2>4, <1>0, LocationTypes, OffsetTypes
    <2>5. CASE Die("trampoline")
      BY <2>5, <1>1
    <2> QED BY <1>8, <2>3, <2>4, <2>5 DEF ExecTramp
  <1>9. CASE ExecCallee(th)
    <2> DEFINE l == ReturnTo(pc[th])
    <2>1. l \in Location /\ LocationReal(l)
      <3>1. pc[th].off \in Nat /\ pc[th].at = "callee"
        BY <1>2, <1>9 DEF ExecCallee, Location, Offset
      <3>2. IF pc[th].pg = NoPage THEN pc[th].fn \in Target ELSE pc[th].pg \in Page
        BY <1>2, <3>1, InlineHookAssumption DEF LocationReal
      <3> QED BY <3>1, <3>2, LocationTypes DEF ReturnTo
    <2> QED BY <2>1, <1>9, <1>0 DEF ExecCallee
  <1> QED BY <1>3, <1>4, <1>5, <1>6, <1>7, <1>8, <1>9 DEF ThreadStep

(* Every step of the model keeps the types.                                *)
LEMMA NextType == TypeInv /\ [Next]_vars => TypeInv'
  <1> SUFFICES ASSUME TypeInv, [Next]_vars PROVE TypeInv'
    OBVIOUS
  <1>1. ASSUME NEW t \in Target, ApiStart(t) PROVE TypeInv'
    <2>1. CASE RegisterRefused(t) \/ inlineHookRefused(t) \/ inlineUnHookRefused(t)
      <3>1. UNCHANGED <<registry, code, pc, api, hist, fault>>
        BY <2>1 DEF RegisterRefused, inlineHookRefused, inlineUnHookRefused
      <3>2. fault \in {"none", "register", "pc", "proto", "trampoline"}
        BY DEF TypeInv, TypeOK
      <3> QED BY <3>1, <3>2, RefusedType
    <2>2. CASE registerInlineHook(t)
      BY <2>2, RegisterType
    <2>3. CASE RegisterFault(t)
      BY <2>3, RefusedType DEF RegisterFault
    <2>4. CASE inlineHook(t) \/ inlineUnHook(t)
      <3>1. PICK i \in Used, kind \in {"hook", "unhook"} : freeze(kind, t, i)
        BY <2>4 DEF inlineHook, inlineUnHook
      <3>2. i \in Nat
        BY <3>1 DEF Used
      <3>3. UNCHANGED <<registry, code, pc, fault>>
        BY <2>4 DEF inlineHook, inlineUnHook
      <3> QED BY <3>1, <3>2, <3>3, FreezeType
    <2> QED BY <1>1, <2>1, <2>2, <2>3, <2>4 DEF ApiStart
  <1>2. CASE inlineHookAll \/ inlineUnHookAll
    <2>1. PICK kind \in {"hookAll", "unhookAll"} : freeze(kind, NoFn, 0)
      BY <1>2 DEF inlineHookAll, inlineUnHookAll
    <2>2. UNCHANGED <<registry, code, pc, fault>>
      BY <1>2 DEF inlineHookAll, inlineUnHookAll
    <2> QED BY <2>1, <2>2, FreezeType
  <1>3. ASSUME NEW th \in Thread, Attach(th) PROVE TypeInv'
    <2>1. PICK l2 \in processThreadPC(pc[th]) : pc' = [pc EXCEPT ![th] = l2]
      BY <1>3 DEF Attach
    <2>2. pc[th] \in Location /\ LocationReal(pc[th]) /\ PosReal /\ Freezing
      BY <1>3 DEF TypeInv, TypeOK, ThreadsReal, Attach
    <2>3. l2 \in Location /\ LocationReal(l2)
      BY <2>2, ProcessType
    <2>4. /\ todo' \subseteq Thread /\ frozen' \subseteq Thread
          /\ UNCHANGED <<registry, code, call, arg, pos, fault, hist>>
      BY <1>3 DEF Attach, TypeInv, TypeOK
    <2> QED BY <2>1, <2>3, <2>4, GotoType
  <1>4. ASSUME NEW th \in Thread, AttachFails(th) PROVE TypeInv'
    BY <1>4 DEF AttachFails, TypeInv, TypeOK, ItemsReal, ThreadsReal, LocationReal,
                PosReal, Used, registry, code, Disturbance
  <1>5. CASE doInlineHook
    <2>1. pos \in Used /\ pos < size
      BY <1>5 DEF doInlineHook, TypeInv, TypeOK, PosReal, Used
    <2>2. pos' \in 0 .. MaxItems
      BY <1>5 DEF doInlineHook, TypeInv, TypeOK
    <2> QED BY <1>5, <2>1, <2>2, PatchType DEF doInlineHook
  <1>6. CASE DoHookAllItem
    <2>1. pos \in Used /\ pos' \in 0 .. MaxItems
      BY <1>6, InlineHookAssumption DEF DoHookAllItem, TypeInv, TypeOK, Used
    <2>2. CASE PatchEntry(pos)
      <3>1. call' = "hookAll" /\ UNCHANGED <<size, pc, arg, todo, frozen, fault, hist>>
        BY <1>6 DEF DoHookAllItem
      <3> QED BY <2>1, <2>2, <3>1, PatchType
    <2>3. CASE UNCHANGED <<item, code>>
      BY <1>6, <2>1, <2>3 DEF DoHookAllItem, TypeInv, TypeOK, ItemsReal, ThreadsReal,
                LocationReal, PosReal, Used, code
    <2> QED BY <1>6, <2>2, <2>3 DEF DoHookAllItem
  <1>7. CASE DoRestore
    <2>1. pos \in Used
      BY <1>7 DEF DoRestore, TypeInv, TypeOK, PosReal, Used
    <2> QED BY <1>7, <2>1, RestoreType DEF DoRestore
  <1>8. CASE DoUnHookAllItem
    <2>1. pos \in Used
      BY <1>8 DEF DoUnHookAllItem, TypeInv, TypeOK, Used
    <2>2. CASE item[pos].status = "HOOKED"
      BY <1>8, <2>1, <2>2, RestoreType DEF DoUnHookAllItem
    <2>3. CASE item[pos].status # "HOOKED"
      <3>1. pos' \in 0 .. MaxItems
        BY <1>8, <2>3, InlineHookAssumption DEF DoUnHookAllItem, TypeInv, TypeOK
      <3> QED BY <1>8, <2>3, <3>1 DEF DoUnHookAllItem, TypeInv, TypeOK, ItemsReal,
                ThreadsReal, LocationReal, PosReal, Used, registry, code
    <2> QED BY <2>2, <2>3
  <1>9. CASE DoFree \/ DoFreeAllItem
    <2>1. pos \in Used
      BY <1>9 DEF DoFree, DoFreeAllItem, TypeInv, TypeOK, PosReal, Used
    <2> QED BY <1>9, <2>1, DeleteType DEF DoFree, DoFreeAllItem
  <1>10. CASE unFreeze
    BY <1>10, InlineHookAssumption DEF unFreeze, TypeInv, TypeOK, ItemsReal, ThreadsReal,
        LocationReal, PosReal, Used, registry, code
  <1>11. ASSUME NEW th \in Thread, ThreadStep(th) PROVE TypeInv'
    BY <1>11, ThreadType
  <1>12. ASSUME NEW t \in Target, Reload(t) PROVE TypeInv'
    BY <1>12 DEF Reload, TypeInv, TypeOK, ItemsReal, ThreadsReal, LocationReal,
        PosReal, Used, registry, api
  <1>13. CASE UNCHANGED vars
    BY <1>13 DEF vars, TypeInv, TypeOK, ItemsReal, ThreadsReal, LocationReal, PosReal, Used
  <1> QED BY <1>1, <1>2, <1>3, <1>4, <1>5, <1>6, <1>7, <1>8, <1>9, <1>10, <1>11,
             <1>12, <1>13 DEF Next, ApiStep

(* Every variable keeps its type, in the library of inlineHook.c with any  *)
(* functions, threads, pages, layouts and any number of items.             *)
THEOREM TypeCorrect == Spec => []TypeOK
  <1>1. Spec => []TypeInv
    BY InitType, NextType, PTL DEF Spec
  <1>2. TypeInv => TypeOK
    BY DEF TypeInv
  <1> QED BY <1>1, <1>2, PTL
-----------------------------------------------------------------------------
(* What the API call in progress knows about the registry: its item, and   *)
(* for the two loops the items they have passed.                           *)
CallKnows ==
  /\ call \in {"hook", "hooked", "unhook", "unhookFree"} =>
       arg \in Target /\ item[pos].target = arg
  /\ call = "hook" => item[pos].status = "REGISTERED"
  /\ call \in {"hooked", "unhook", "unhookFree", "unhookAllFree"} =>
       item[pos].status = "HOOKED"
  /\ call = "unhooked" => arg \in Target /\ \A i \in Used : item[i].target # arg
  /\ call = "hookAll" => \A j \in Used : j < pos => item[j].status = "HOOKED"
  /\ call \in {"unhookAll", "unhookAllFree"} =>
       \A j \in Used : j < pos => item[j].status = "REGISTERED"
  /\ call \in {"unhookFree", "unhookAllFree"} /\ pos # size - 1 => "moved" \in hist

(* The inductive invariant of the registry and of the code it patches.     *)
RegInv ==
  /\ CallKnows
  /\ OneItemPerTarget
  /\ SavedBytesAreOriginal
  /\ PatchMatchesStatus
  /\ TrampolinesOwned
  /\ ProtoLive
  /\ StaleOnlyWhenMoved

(* An empty registry satisfies the invariant.                              *)
LEMMA InitReg == Init => RegInv
  BY DEF Init, RegInv, CallKnows, OneItemPerTarget, SavedBytesAreOriginal,
         PatchMatchesStatus, TrampolinesOwned, ProtoLive, StaleOnlyWhenMoved, Used

(* Steps of threads, of freeze() and refused calls do not matter here.     *)
LEMMA FrameReg ==
  ASSUME RegInv, UNCHANGED <<registry, code, call, arg, pos>>, hist \subseteq hist'
  PROVE RegInv'
  BY DEF RegInv, CallKnows, OneItemPerTarget, SavedBytesAreOriginal,
         PatchMatchesStatus, TrampolinesOwned, ProtoLive, StaleOnlyWhenMoved, Used,
         HalfUnhooked, registry, code

(* Steps between two calls, or at the ends of one: the call's own          *)
(* knowledge is what changes.                                              *)
LEMMA CallReg ==
  ASSUME RegInv, UNCHANGED <<registry, code>>, hist \subseteq hist', CallKnows',
         call \notin {"unhookFree", "unhookAllFree"},
         call' \notin {"unhookFree", "unhookAllFree"}
  PROVE RegInv'
  BY DEF RegInv, OneItemPerTarget, SavedBytesAreOriginal,
         PatchMatchesStatus, TrampolinesOwned, ProtoLive, StaleOnlyWhenMoved, Used,
         HalfUnhooked, registry, code

(* A registration adds an item for a function that had none, with the      *)
(* function's own bytes and a page that was free.                          *)
LEMMA RegisterReg ==
  ASSUME TypeInv, RegInv, NEW t \in Target, registerInlineHook(t)
  PROVE RegInv'
  <1> USE InlineHookAssumption
  <1>1. PICK p \in Page :
          /\ page[p] = NoFn
          /\ page' = [page EXCEPT ![p] = t]
          /\ item' = [item EXCEPT ![size] =
                        [target |-> t, saved |-> mem[t], tramp |-> p,
                         bnd |-> Relocated(item[size].bnd, t),
                         status |-> "REGISTERED"]]
    BY DEF registerInlineHook, AddItem
  <1>2. /\ size \in Slot /\ size' = size + 1 /\ size \in Int
        /\ Used' = Used \cup {size} /\ size \notin Used /\ Used \subseteq Slot
    BY DEF TypeInv, TypeOK, Slot, Used, registerInlineHook, AddItem
  <1>3. \A i \in Used : item'[i] = item[i] /\ item[i].target # t
    BY <1>1, <1>2 DEF TypeInv, TypeOK, registerInlineHook, ItemsFor
  <1>4. /\ item'[size].target = t /\ item'[size].tramp = p
        /\ item'[size].saved = mem[t] /\ item'[size].status = "REGISTERED"
    BY <1>1, <1>2 DEF TypeInv, TypeOK
  <1>5. /\ call = "idle" /\ UNCHANGED <<call, arg, pos, mem, icache, proto>>
        /\ hist \subseteq hist'
    BY DEF registerInlineHook, AddItem, api
  <1>6. mem[t] = "orig"
    <2>1. mem[t] \in {"orig", "jump"}
      BY DEF TypeInv, TypeOK, Bytes
    <2>2. mem[t] = "jump" => \E i \in Used : item[i].target = t
      BY DEF RegInv, PatchMatchesStatus
    <2> QED BY <2>1, <2>2, <1>3
  <1>7. CallKnows'
    BY <1>5 DEF CallKnows
  <1>8. OneItemPerTarget' /\ SavedBytesAreOriginal'
    <2>1. OneItemPerTarget'
      <3> SUFFICES ASSUME NEW i \in Used', NEW j \in Used',
                          item'[i].target = item'[j].target
                   PROVE i = j
        BY DEF OneItemPerTarget
      <3>1. CASE i \in Used /\ j \in Used
        BY <3>1, <1>3 DEF RegInv, OneItemPerTarget
      <3>2. CASE i = size \/ j = size
        BY <3>2, <1>2, <1>3, <1>4
      <3> QED BY <3>1, <3>2, <1>2
    <2>2. SavedBytesAreOriginal'
      BY <1>2, <1>3, <1>4, <1>6 DEF RegInv, SavedBytesAreOriginal
    <2> QED BY <2>1, <2>2
  <1>9. PatchMatchesStatus'
    <2>1. \A i : ~HalfUnhooked(i) /\ ~HalfUnhooked(i)'
      BY <1>5 DEF HalfUnhooked
    <2> SUFFICES ASSUME NEW u \in Target
                 PROVE  mem[u] = "jump" <=>
                          \E j \in Used' : item'[j].target = u /\ item'[j].status = "HOOKED"
      BY <2>1, <1>5 DEF PatchMatchesStatus
    <2>2. mem[u] = "jump" <=> \E j \in Used : item[j].target = u /\ item[j].status = "HOOKED"
      BY <2>1 DEF RegInv, PatchMatchesStatus
    <2> QED BY <2>2, <1>2, <1>3, <1>4
  <1>10. TrampolinesOwned'
    <2>1. \A i \in Used : item[i].tramp \in Page /\ page[item[i].tramp] = item[i].target
                          /\ item[i].target \in Target
      BY <1>5 DEF RegInv, TrampolinesOwned, HalfUnhooked, TypeInv, ItemsReal
    <2>2. \A i \in Used' : item'[i].tramp \in Page /\ page'[item'[i].tramp] = item'[i].target
      BY <2>1, <1>1, <1>2, <1>3, <1>4 DEF TypeInv, TypeOK
    <2>3. \A q \in Page : page'[q] # NoFn => \E i \in Used' : item'[i].tramp = q
      BY <1>1, <1>2, <1>3, <1>4 DEF RegInv, TrampolinesOwned, TypeInv, TypeOK
    <2> QED BY <2>2, <2>3, <1>5 DEF TrampolinesOwned, HalfUnhooked
  <1>11. ProtoLive'
    BY <1>2, <1>3, <1>4, <1>5 DEF RegInv, ProtoLive, HalfUnhooked
  <1>12. StaleOnlyWhenMoved'
    BY <1>5 DEF RegInv, StaleOnlyWhenMoved, HalfUnhooked
  <1> QED BY <1>7, <1>8, <1>9, <1>10, <1>11, <1>12 DEF RegInv

(* Patching the entry of a REGISTERED item.                                *)
LEMMA PatchReg ==
  ASSUME TypeInv, RegInv, NEW i \in Used, item[i].status = "REGISTERED", PatchEntry(i),
         call \in {"hook", "hookAll"}, call' \in {"hooked", "hookAll"}, CallKnows',
         UNCHANGED <<size, hist>>
  PROVE RegInv'
  <1> DEFINE t == item[i].target
  <1>1. i \in Slot /\ Used' = Used /\ Used \subseteq Slot /\ t \in Target
    BY InlineHookAssumption DEF Used, Slot, TypeInv, TypeOK, ItemsReal
  <1>2. /\ \A j \in Slot : /\ item'[j].target = item[j].target
                           /\ item'[j].tramp = item[j].tramp
                           /\ item'[j].saved = item[j].saved
                           /\ j # i => item'[j].status = item[j].status
        /\ item'[i].status = "HOOKED"
    BY <1>1 DEF PatchEntry, Patched, TypeInv, TypeOK, Item
  <1>3. /\ mem' = [mem EXCEPT ![t] = "jump"] /\ icache' = [icache EXCEPT ![t] = "jump"]
        /\ page' = page
        /\ proto' = IF t \in WantsProto THEN [proto EXCEPT ![t] = item[i].tramp] ELSE proto
    BY DEF PatchEntry, Patched, ProtoSet, Flushed
  <1>4. \A j \in Used : ~HalfUnhooked(j) /\ ~HalfUnhooked(j)'
    BY DEF HalfUnhooked
  <1>5. \A j \in Used : item[j].target = t => j = i
    BY DEF RegInv, OneItemPerTarget
  <1> HIDE DEF t
  <1>6. OneItemPerTarget' /\ SavedBytesAreOriginal' /\ TrampolinesOwned'
    <2>1. OneItemPerTarget'
      BY <1>1, <1>2 DEF RegInv, OneItemPerTarget
    <2>2. SavedBytesAreOriginal'
      BY <1>1, <1>2 DEF RegInv, SavedBytesAreOriginal
    <2>3. TrampolinesOwned'
      BY <1>1, <1>2, <1>3, <1>4 DEF RegInv, TrampolinesOwned
    <2> QED BY <2>1, <2>2, <2>3
  <1>7. PatchMatchesStatus'
    <2> SUFFICES ASSUME NEW u \in Target
                 PROVE  mem'[u] = "jump" <=>
                          \E j \in Used' : /\ item'[j].target = u
                                           /\ item'[j].status = "HOOKED"
                                           /\ ~HalfUnhooked(j)'
      BY DEF PatchMatchesStatus
    <2>1. CASE u = t
      BY <2>1, <1>1, <1>2, <1>3, <1>4 DEF TypeInv, TypeOK, t
    <2>2. CASE u # t
      <3>1. mem'[u] = mem[u]
        BY <2>2, <1>3 DEF TypeInv, TypeOK
      <3>2. mem[u] = "jump" <=> \E j \in Used : item[j].target = u /\ item[j].status = "HOOKED"
        BY <1>4 DEF RegInv, PatchMatchesStatus
      <3> QED BY <3>1, <3>2, <2>2, <1>1, <1>2, <1>4 DEF t
    <2> QED BY <2>1, <2>2
  <1>8. ProtoLive'
    <2> SUFFICES ASSUME NEW j \in Used, item'[j].status = "HOOKED",
                        item'[j].target \in WantsProto
                 PROVE proto'[item'[j].target] = item'[j].tramp
      BY <1>1 DEF ProtoLive
    <2>1. CASE j = i
      BY <2>1, <1>1, <1>2, <1>3 DEF TypeInv, TypeOK, t
    <2>2. CASE j # i
      <3>1. item[j].target # t /\ item[j].status = "HOOKED" /\ item[j].target \in WantsProto
        BY <2>2, <1>1, <1>2, <1>5
      <3>2. proto[item[j].target] = item[j].tramp
        BY <3>1, <1>4 DEF RegInv, ProtoLive
      <3>3. proto'[item[j].target] = proto[item[j].target]
        BY <3>1, <1>3, InlineHookAssumption DEF TypeInv, TypeOK
      <3> QED BY <3>2, <3>3, <1>1, <1>2
    <2> QED BY <2>1, <2>2
  <1>9. StaleOnlyWhenMoved'
    BY <1>1, <1>3, <1>4 DEF RegInv, StaleOnlyWhenMoved, TypeInv, TypeOK
  <1> QED BY <1>6, <1>7, <1>8, <1>9 DEF RegInv
(* The first half of doInlineUnHook on a HOOKED item.                      *)
LEMMA RestoreReg ==
  ASSUME TypeInv, RegInv, pos \in Used, item[pos].status = "HOOKED", RestoreEntry(pos),
         call \in {"unhook", "unhookAll"}, call' \in {"unhookFree", "unhookAllFree"},
         UNCHANGED <<registry, arg, pos>>, CallKnows'
  PROVE RegInv'
  <1> DEFINE t == item[pos].target
  <1>1. /\ Used' = Used /\ t \in Target /\ item[pos].tramp \in Page
        /\ item' = item /\ pos' = pos
    BY DEF Used, TypeInv, ItemsReal, registry
  <1>2. \A j \in Used : ~HalfUnhooked(j) /\ (HalfUnhooked(j)' <=> j = pos)
    BY <1>1 DEF HalfUnhooked
  <1>3. /\ mem' = [mem EXCEPT ![t] = "orig"]
        /\ page' = [page EXCEPT ![item[pos].tramp] = NoFn]
        /\ icache' = icache /\ proto' = proto /\ hist \subseteq hist'
    BY DEF RestoreEntry, RegInv, SavedBytesAreOriginal
  <1>4. \A j \in Used : item[j].target = t => j = pos
    BY DEF RegInv, OneItemPerTarget
  <1>5. OneItemPerTarget' /\ SavedBytesAreOriginal'
    BY <1>1 DEF RegInv, OneItemPerTarget, SavedBytesAreOriginal
  <1>6. PatchMatchesStatus'
    <2> SUFFICES ASSUME NEW u \in Target
                 PROVE  mem'[u] = "jump" <=>
                          \E j \in Used : /\ item[j].target = u
                                          /\ item[j].status = "HOOKED"
                                          /\ ~HalfUnhooked(j)'
      BY <1>1 DEF PatchMatchesStatus
    <2>1. CASE u = t
      <3>1. mem'[u] = "orig"
        BY <2>1, <1>3 DEF TypeInv, TypeOK
      <3> QED BY <2>1, <3>1, <1>2, <1>4
    <2>2. CASE u # t
      <3>1. mem'[u] = mem[u]
        BY <2>2, <1>3 DEF TypeInv, TypeOK
      <3>2. mem[u] = "jump" <=> \E j \in Used : item[j].target = u /\ item[j].status = "HOOKED"
        BY <1>2 DEF RegInv, PatchMatchesStatus
      <3> QED BY <3>1, <3>2, <2>2, <1>2
    <2> QED BY <2>1, <2>2
  <1>7. TrampolinesOwned'
    <2>1. \A j \in Used : item[j].tramp \in Page /\ page[item[j].tramp] = item[j].target
      BY <1>2 DEF RegInv, TrampolinesOwned
    <2>2. \A j \in Used : j # pos => item[j].tramp # item[pos].tramp
      BY <2>1, <1>4
    <2>3. \A j \in Used : j # pos => page'[item[j].tramp] = item[j].target
      BY <2>1, <2>2, <1>3 DEF TypeInv, TypeOK
    <2>4. ASSUME NEW q \in Page, page'[q] # NoFn
          PROVE \E j \in Used : item[j].tramp = q /\ j # pos
      <3>1. q # item[pos].tramp /\ page[q] # NoFn
        BY <2>4, <1>1, <1>3 DEF TypeInv, TypeOK
      <3>2. \E j \in Used : item[j].tramp = q
        BY <3>1 DEF RegInv, TrampolinesOwned
      <3> QED BY <3>1, <3>2
    <2> QED BY <1>1, <1>2, <2>1, <2>3, <2>4 DEF TrampolinesOwned
  <1>8. ProtoLive'
    BY <1>1, <1>2, <1>3 DEF RegInv, ProtoLive
  <1>9. StaleOnlyWhenMoved'
    <2> SUFFICES ASSUME NEW u \in Target, icache[u] # mem'[u]
                 PROVE  /\ mem'[u] = "orig"
                        /\ \/ "moved" \in hist'
                           \/ \E i \in Used : HalfUnhooked(i)' /\ item[i].target = u
      BY <1>1, <1>3 DEF StaleOnlyWhenMoved
    <2>1. CASE u = t
      BY <2>1, <1>1, <1>2, <1>3 DEF TypeInv, TypeOK
    <2>2. CASE u # t
      <3>1. mem'[u] = mem[u]
        BY <2>2, <1>3 DEF TypeInv, TypeOK
      <3> QED BY <3>1, <1>2, <1>3 DEF RegInv, StaleOnlyWhenMoved
    <2> QED BY <2>1, <2>2
  <1> QED BY <1>5, <1>6, <1>7, <1>8, <1>9 DEF RegInv

(* The second half: the last item moves into the slot of the deleted one.  *)
LEMMA DeleteReg ==
  ASSUME TypeInv, RegInv, pos \in Used, DeleteItem(pos), item[pos].status = "HOOKED",
         call \in {"unhookFree", "unhookAllFree"}, call' \in {"unhooked", "unhookAll"},
         UNCHANGED <<pos, hist>>, CallKnows'
  PROVE RegInv'
  <1> DEFINE t == item[pos].target
             last == size - 1
  <1>1. /\ Used \subseteq Slot /\ last \in Used /\ Used' = Used \ {last}
        /\ item' = [item EXCEPT ![pos] = item[last]]
    BY InlineHookAssumption DEF Used, Slot, TypeInv, TypeOK, DeleteItem
  <1>2. \A j \in Used : (HalfUnhooked(j) <=> j = pos) /\ ~HalfUnhooked(j)'
    BY DEF HalfUnhooked
  <1>3. mem' = mem /\ page' = page /\ proto' = proto /\ hist' = hist
        /\ icache' = [icache EXCEPT ![item[last].target] = mem[item[last].target]]
    BY DEF DeleteItem
  (* The old place of each item that stays.                                *)
  <1> DEFINE old(j) == IF j = pos THEN last ELSE j
  <1>4. \A j \in Used' : old(j) \in Used /\ old(j) # pos /\ item'[j] = item[old(j)]
    BY <1>1 DEF TypeInv, TypeOK
  <1>5. \A i \in Used : i # pos => \E j \in Used' : old(j) = i
    <2> SUFFICES ASSUME NEW i \in Used, i # pos PROVE \E j \in Used' : old(j) = i
      OBVIOUS
    <2>1. CASE i = last
      BY <2>1, <1>1
    <2>2. CASE i # last
      BY <2>2, <1>1
    <2> QED BY <2>1, <2>2
  <1>6. \A i, j \in Used' : old(i) = old(j) => i = j
    BY <1>1
  <1> HIDE DEF old
  <1>7. \A j \in Used : item[j].target = t => j = pos
    BY DEF RegInv, OneItemPerTarget
  <1>8. OneItemPerTarget' /\ SavedBytesAreOriginal'
    <2>1. ASSUME NEW i \in Used', NEW j \in Used', item'[i].target = item'[j].target
          PROVE i = j
      <3>1. old(i) = old(j)
        BY <2>1, <1>4 DEF RegInv, OneItemPerTarget
      <3> QED BY <3>1, <1>6
    <2>2. SavedBytesAreOriginal'
      BY <1>4 DEF RegInv, SavedBytesAreOriginal
    <2> QED BY <2>1, <2>2 DEF OneItemPerTarget
  <1>9. PatchMatchesStatus'
    <2> SUFFICES ASSUME NEW u \in Target
                 PROVE  mem[u] = "jump" <=>
                          \E j \in Used' : item'[j].target = u /\ item'[j].status = "HOOKED"
      BY <1>1, <1>2, <1>3 DEF PatchMatchesStatus
    <2>1. mem[u] = "jump" <=> \E i \in Used : /\ item[i].target = u
                                              /\ item[i].status = "HOOKED" /\ i # pos
      BY <1>2 DEF RegInv, PatchMatchesStatus
    <2> QED BY <2>1, <1>4, <1>5
  <1>10. TrampolinesOwned'
    <2>1. \A i \in Used : i # pos => item[i].tramp \in Page
                                      /\ page[item[i].tramp] = item[i].target
      BY <1>2 DEF RegInv, TrampolinesOwned
    <2>2. \A q \in Page : page[q] # NoFn => \E i \in Used : item[i].tramp = q /\ i # pos
      BY <1>2 DEF RegInv, TrampolinesOwned
    <2>3. \A j \in Used' : item'[j].tramp \in Page /\ page[item'[j].tramp] = item'[j].target
      BY <2>1, <1>4
    <2>4. \A q \in Page : page[q] # NoFn => \E j \in Used' : item'[j].tramp = q
      BY <2>2, <1>4, <1>5
    <2> QED BY <2>3, <2>4, <1>1, <1>2, <1>3 DEF TrampolinesOwned
  <1>11. ProtoLive'
    <2>1. \A i \in Used : i # pos /\ item[i].status = "HOOKED" /\ item[i].target \in WantsProto
            => proto[item[i].target] = item[i].tramp
      BY <1>2 DEF RegInv, ProtoLive
    <2>2. \A j \in Used' : item'[j].status = "HOOKED" /\ item'[j].target \in WantsProto
            => proto[item'[j].target] = item'[j].tramp
      BY <2>1, <1>4
    <2> QED BY <2>2, <1>3 DEF ProtoLive
  <1>12. StaleOnlyWhenMoved'
    <2> SUFFICES ASSUME NEW u \in Target, icache'[u] # mem[u]
                 PROVE  mem[u] = "orig" /\ "moved" \in hist
      BY <1>3 DEF StaleOnlyWhenMoved
    <2>1. u # item[last].target /\ icache'[u] = icache[u]
      BY <1>3 DEF TypeInv, TypeOK
    <2>2. /\ mem[u] = "orig"
          /\ "moved" \in hist \/ \E i \in Used : HalfUnhooked(i) /\ item[i].target = u
      BY <2>1 DEF RegInv, StaleOnlyWhenMoved
    <2>3. CASE pos = last
      BY <2>1, <2>2, <2>3, <1>2
    <2>4. CASE pos # last
      BY <2>2, <2>4 DEF RegInv, CallKnows
    <2> QED BY <2>3, <2>4
  <1> QED BY <1>8, <1>9, <1>10, <1>11, <1>12 DEF RegInv
(* Every step keeps the registry invariant.                                *)
LEMMA NextReg == TypeInv /\ RegInv /\ [Next]_vars => RegInv'
  <1> SUFFICES ASSUME TypeInv, RegInv, [Next]_vars PROVE RegInv'
    OBVIOUS
  <1>0. pos \in Int /\ size \in Int
    BY DEF TypeInv, TypeOK
  <1>1. ASSUME NEW t \in Target, ApiStart(t) PROVE RegInv'
    <2>1. CASE RegisterRefused(t) \/ inlineHookRefused(t) \/ inlineUnHookRefused(t)
               \/ RegisterFault(t)
      BY <2>1, FrameReg DEF RegisterRefused, inlineHookRefused, inlineUnHookRefused,
                            RegisterFault, api
    <2>2. CASE registerInlineHook(t)
      BY <2>2, RegisterReg
    <2>3. CASE inlineHook(t) \/ inlineUnHook(t)
      <3>1. PICK i \in Used, kind \in {"hook", "unhook"} :
              /\ freeze(kind, t, i)
              /\ item[i].target = t
              /\ item[i].status = (IF kind = "hook" THEN "REGISTERED" ELSE "HOOKED")
        BY <2>3 DEF inlineHook, inlineUnHook, HookedFor, ItemsFor, IsFirst
      <3>2. call = "idle" /\ UNCHANGED <<registry, code>>
        BY <2>3 DEF inlineHook, inlineUnHook
      <3>3. call' = kind /\ arg' = t /\ pos' = i /\ hist \subseteq hist'
        BY <3>1 DEF freeze
      <3>4. CallKnows'
        BY <3>1, <3>2, <3>3 DEF CallKnows, registry
      <3> QED BY <3>2, <3>3, <3>4, CallReg
    <2> QED BY <1>1, <2>1, <2>2, <2>3 DEF ApiStart
  <1>2. CASE inlineHookAll \/ inlineUnHookAll
    <2>1. PICK kind \in {"hookAll", "unhookAll"} : freeze(kind, NoFn, 0)
      BY <1>2 DEF inlineHookAll, inlineUnHookAll
    <2>2. call = "idle" /\ UNCHANGED <<registry, code>>
      BY <1>2 DEF inlineHookAll, inlineUnHookAll
    <2>3. call' = kind /\ pos' = 0 /\ hist \subseteq hist'
      BY <2>1 DEF freeze
    <2>4. \A j \in Used' : ~(j < pos')
      BY <2>3 DEF Used
    <2>5. CallKnows'
      BY <2>1, <2>3, <2>4 DEF CallKnows
    <2> QED BY <2>1, <2>2, <2>3, <2>5, CallReg
  <1>3. ASSUME NEW th \in Thread, Attach(th) \/ AttachFails(th) \/ ThreadStep(th)
        PROVE RegInv'
    <2>1. UNCHANGED <<registry, code, call, arg, pos>> /\ hist \subseteq hist'
      BY <1>3 DEF Attach, AttachFails, ThreadStep, Call, EnterMalloc, LeaveMalloc,
                  ExecOrig, ExecNew, ExecTramp, ExecCallee, Goto, Die, api
    <2> QED BY <2>1, FrameReg
  <1>4. CASE doInlineHook
    <2>1. pos \in Used /\ item[pos].status = "REGISTERED"
      BY <1>4, <1>0 DEF doInlineHook, TypeInv, TypeOK, PosReal, Used, RegInv, CallKnows
    <2>2. pos \in Slot
      BY <2>1, InlineHookAssumption DEF Used, Slot, TypeInv, TypeOK
    <2>3. item'[pos].status = "HOOKED" /\ item'[pos].target = item[pos].target
      BY <1>4, <2>2 DEF doInlineHook, PatchEntry, Patched, TypeInv, TypeOK, Item
    <2>4. CallKnows'
      BY <1>4, <2>3 DEF doInlineHook, RegInv, CallKnows
    <2> QED BY <1>4, <2>1, <2>4, PatchReg DEF doInlineHook
  <1>5. CASE DoHookAllItem
    <2>1. pos \in Used /\ pos \in Slot /\ Used' = Used /\ Used \subseteq Slot
      BY <1>5, <1>0, InlineHookAssumption DEF DoHookAllItem, TypeInv, TypeOK, Used, Slot
    <2>2. /\ call = "hookAll" /\ call' = "hookAll" /\ pos' = pos + 1
          /\ UNCHANGED <<size, hist, arg>>
      BY <1>5 DEF DoHookAllItem
    <2>3. \A j \in Used : j < pos => item[j].status = "HOOKED"
      BY <2>2 DEF RegInv, CallKnows
    <2>4. CASE item[pos].status = "REGISTERED" /\ PatchEntry(pos)
      <3>1. \A j \in Used : j = pos \/ j < pos => item'[j].status = "HOOKED"
        BY <2>1, <2>3, <2>4 DEF PatchEntry, Patched, TypeInv, TypeOK, Item
      <3>2. \A j \in Used' : j < pos' => item'[j].status = "HOOKED"
        BY <3>1, <2>1, <2>2, <1>0 DEF Used
      <3>3. CallKnows'
        BY <3>2, <2>2 DEF CallKnows
      <3> QED BY <2>1, <2>2, <2>4, <3>3, PatchReg
    <2>5. CASE item[pos].status # "REGISTERED" /\ UNCHANGED <<item, code>>
      <3>1. item[pos].status = "HOOKED"
        BY <2>1, <2>5 DEF TypeInv, TypeOK, Item, Status
      <3>2. \A j \in Used' : j < pos' => item'[j].status = "HOOKED"
        BY <3>1, <2>1, <2>2, <2>3, <2>5, <1>0 DEF Used
      <3>3. CallKnows'
        BY <3>2, <2>2 DEF CallKnows
      <3> QED BY <2>2, <2>5, <3>3, CallReg DEF registry
    <2> QED BY <1>5, <2>4, <2>5 DEF DoHookAllItem
  <1>6. CASE DoRestore
    <2>1. pos \in Used /\ item[pos].status = "HOOKED"
      BY <1>6, <1>0 DEF DoRestore, TypeInv, TypeOK, PosReal, Used, RegInv, CallKnows
    <2>2. CallKnows'
      BY <1>6, <2>1 DEF DoRestore, RestoreEntry, RegInv, CallKnows, registry
    <2> QED BY <1>6, <2>1, <2>2, RestoreReg DEF DoRestore
  <1>7. CASE DoUnHookAllItem
    <2>1. pos \in Used /\ call = "unhookAll" /\ UNCHANGED <<registry, arg>> /\ Used' = Used
      BY <1>7, <1>0 DEF DoUnHookAllItem, TypeInv, TypeOK, Used, registry
    <2>2. CASE item[pos].status = "HOOKED"
      <3>1. /\ RestoreEntry(pos) /\ call' = "unhookAllFree" /\ pos' = pos
        BY <1>7, <2>2 DEF DoUnHookAllItem
      <3>2. CallKnows'
        BY <2>1, <2>2, <3>1 DEF RestoreEntry, RegInv, CallKnows, registry
      <3> QED BY <2>1, <2>2, <3>1, <3>2, RestoreReg
    <2>3. CASE item[pos].status # "HOOKED"
      <3>1. pos' = pos + 1 /\ UNCHANGED <<code, call, hist>>
        BY <1>7, <2>3 DEF DoUnHookAllItem
      <3>2. item[pos].status = "REGISTERED"
        <4>1. pos \in Slot
          BY <2>1, InlineHookAssumption DEF TypeInv, TypeOK, Used, Slot
        <4> QED BY <4>1, <2>3 DEF TypeInv, TypeOK, Item, Status
      <3>3. \A j \in Used' : j < pos' => item'[j].status = "REGISTERED"
        BY <3>1, <3>2, <2>1, <1>0 DEF RegInv, CallKnows, Used, registry
      <3>4. CallKnows'
        BY <3>1, <3>3, <2>1 DEF CallKnows
      <3> QED BY <2>1, <3>1, <3>4, CallReg
    <2> QED BY <2>2, <2>3
  <1>8. CASE DoFree \/ DoFreeAllItem
    <2>1. /\ pos \in Used /\ item[pos].status = "HOOKED" /\ DeleteItem(pos)
          /\ UNCHANGED <<pos, hist, arg>>
      BY <1>8, <1>0 DEF DoFree, DoFreeAllItem, TypeInv, TypeOK, PosReal, Used, RegInv,
                        CallKnows
    <2>2. /\ pos \in Slot /\ size - 1 \in Slot /\ Used' = Used \ {size - 1}
          /\ size - 1 \in Used
          /\ item' = [item EXCEPT ![pos] = item[size - 1]]
      BY <2>1, InlineHookAssumption DEF DeleteItem, TypeInv, TypeOK, Used, Slot
    <2>3. CASE DoFree
      <3>1. arg \in Target /\ item[pos].target = arg /\ call' = "unhooked"
        BY <2>3 DEF DoFree, RegInv, CallKnows
      <3>2. \A j \in Used : item[j].target = arg => j = pos
        BY <2>1, <3>1 DEF RegInv, OneItemPerTarget
      <3>3. ASSUME NEW i \in Used' PROVE item'[i].target # arg
        BY <3>2, <2>1, <2>2 DEF TypeInv, TypeOK, Used, Slot
      <3>4. CallKnows'
        BY <3>1, <3>3, <2>1 DEF CallKnows
      <3> QED BY <2>1, <2>3, <3>1, <3>4, DeleteReg DEF DoFree
    <2>4. CASE DoFreeAllItem
      <3>1. call = "unhookAllFree" /\ call' = "unhookAll"
        BY <2>4 DEF DoFreeAllItem
      <3>2. \A j \in Used : j < pos => item[j].status = "REGISTERED"
        BY <3>1 DEF RegInv, CallKnows
      <3>3. ASSUME NEW j \in Used', j < pos' PROVE item'[j].status = "REGISTERED"
        <4>1. j \in Used /\ j # pos /\ j < pos
          BY <3>3, <2>1, <2>2, <1>0
        <4> QED BY <4>1, <3>2, <2>2 DEF TypeInv, TypeOK, Used, Slot
      <3>4. CallKnows'
        BY <3>1, <3>3, <2>1 DEF CallKnows
      <3> QED BY <2>1, <3>1, <3>4, DeleteReg
    <2> QED BY <1>8, <2>3, <2>4
  <1>9. CASE unFreeze
    <2>1. /\ call' = "idle" /\ call \notin {"unhookFree", "unhookAllFree"}
          /\ UNCHANGED <<registry, code, hist>>
      BY <1>9 DEF unFreeze
    <2>2. CallKnows'
      BY <2>1 DEF CallKnows
    <2> QED BY <2>1, <2>2, CallReg
  <1>10. ASSUME NEW t \in Target, Reload(t) PROVE RegInv'
    <2>1. /\ UNCHANGED <<registry, mem, page, proto, call, arg, pos, hist>>
          /\ icache' = [icache EXCEPT ![t] = mem[t]]
      BY <1>10 DEF Reload, api
    <2>2. \A u \in Target : icache'[u] = icache[u] \/ icache'[u] = mem[u]
      BY <2>1 DEF TypeInv, TypeOK
    <2>3. StaleOnlyWhenMoved'
      BY <2>1, <2>2 DEF RegInv, StaleOnlyWhenMoved, HalfUnhooked, Used, registry
    <2> QED BY <2>1, <2>3 DEF RegInv, CallKnows, OneItemPerTarget, SavedBytesAreOriginal,
              PatchMatchesStatus, TrampolinesOwned, ProtoLive, Used, HalfUnhooked, registry
  <1>11. CASE UNCHANGED vars
    BY <1>11, FrameReg DEF vars, registry, code
  <1> QED BY <1>1, <1>2, <1>3, <1>4, <1>5, <1>6, <1>7, <1>8, <1>9, <1>10, <1>11
          DEF Next, ApiStep

(* The invariant the theorems below are consequences of.                   *)
LEMMA InvariantHolds == Spec => [](TypeInv /\ RegInv)
  BY InitType, InitReg, NextType, NextReg, PTL DEF Spec

(* However items are registered, hooked, unhooked and moved, no function   *)
(* has two items.                                                          *)
THEOREM RegistryIsASet == Spec => []OneItemPerTarget
  <1>1. RegInv => OneItemPerTarget
    BY DEF RegInv
  <1> QED BY <1>1, InvariantHolds, PTL

(* A function's bytes in memory are the jump exactly while an item says it *)
(* is HOOKED (outside doInlineUnHook).                                     *)
THEOREM MemoryFollowsRegistry == Spec => []PatchMatchesStatus
  <1>1. RegInv => PatchMatchesStatus
    BY DEF RegInv
  <1> QED BY <1>1, InvariantHolds, PTL

(* What an unhook writes back are always the function's own bytes.         *)
THEOREM RestoresOriginal == Spec => []SavedBytesAreOriginal
  <1>1. RegInv => SavedBytesAreOriginal
    BY DEF RegInv
  <1> QED BY <1>1, InvariantHolds, PTL

(* Trampolines are mapped, owned by one item each, and none is leaked or   *)
(* unmapped early.                                                         *)
THEOREM TrampolinesLive == Spec => []TrampolinesOwned
  <1>1. RegInv => TrampolinesOwned
    BY DEF RegInv
  <1> QED BY <1>1, InvariantHolds, PTL

(* The *proto_addr of a hooked function is that function's live trampoline *)
(* until doInlineUnHook removes its item.                                  *)
THEOREM ProtoPointsToLive == Spec => []ProtoLive
  <1>1. RegInv => ProtoLive
    BY DEF RegInv
  <1> QED BY <1>1, InvariantHolds, PTL

(* The cache is stale only at a function that has been restored, and only  *)
(* because an unhook moved another item into its slot.                     *)
THEOREM CacheStaleness == Spec => []StaleOnlyWhenMoved
  <1>1. RegInv => StaleOnlyWhenMoved
    BY DEF RegInv
  <1> QED BY <1>1, InvariantHolds, PTL
-----------------------------------------------------------------------------
(* The abstract state, as the instance Reg computes it.                    *)
Registered == {item[i].target : i \in Used}
Hooked == {item[i].target : i \in {j \in Used : item[j].status = "HOOKED"}}

(* A step that does not touch the registry and answers nothing.            *)
LEMMA StutterReg ==
  ASSUME UNCHANGED <<item, size, answer>>
  PROVE UNCHANGED Reg!regVars
  BY DEF Reg!regVars

(* A step that leaves the registry alone and answers the truth.            *)
LEMMA ReplyReg ==
  ASSUME UNCHANGED <<item, size>>, Reg!Truthful(answer', Registered, Hooked)
  PROVE Reg!RegNext
  BY DEF Reg!RegNext, Reg!Reply, Registered, Hooked, Used

(* registerInlineHook adds its function to the abstract registry.          *)
LEMMA AddReg ==
  ASSUME TypeInv, RegInv, NEW t \in Target, registerInlineHook(t)
  PROVE Reg!RegNext
  <1>1. PICK p \in Page :
          item' = [item EXCEPT ![size] =
                     [target |-> t, saved |-> mem[t], tramp |-> p,
                      bnd |-> Relocated(item[size].bnd, t),
                      status |-> "REGISTERED"]]
    BY DEF registerInlineHook, AddItem
  <1>2. /\ size \in Slot /\ Used' = Used \cup {size} /\ size \notin Used
        /\ Used \subseteq Slot
    BY InlineHookAssumption DEF TypeInv, TypeOK, Slot, Used, registerInlineHook, AddItem
  <1>3. \A i \in Used : item'[i] = item[i] /\ item[i].target # t
    BY <1>1, <1>2 DEF TypeInv, TypeOK, registerInlineHook, ItemsFor
  <1>4. item'[size].target = t /\ item'[size].status = "REGISTERED"
    BY <1>1, <1>2 DEF TypeInv, TypeOK
  <1>5. t \notin Registered
    BY <1>3 DEF Registered
  <1>6. Registered' = Registered \cup {t}
    BY <1>2, <1>3, <1>4 DEF Registered
  <1>7. Hooked' = Hooked
    BY <1>2, <1>3, <1>4 DEF Hooked
  <1>8. t \notin Hooked
    BY <1>3 DEF Hooked
  <1>9. Reg!Truthful(answer', Registered', Hooked')
    BY <1>6, <1>7, <1>8 DEF Reg!Truthful, registerInlineHook, RegisterAnswer
  <1>10. Reg!Add(t)
    BY <1>5, <1>6, <1>7, <1>9 DEF Reg!Add, Registered, Hooked, Used
  <1> QED BY <1>10 DEF Reg!RegNext

(* Patching an entry adds the function to the hooked ones.                 *)
LEMMA EnableReg ==
  ASSUME TypeInv, RegInv, NEW i \in Used, item[i].status = "REGISTERED", PatchEntry(i),
         UNCHANGED <<size, answer>>
  PROVE Reg!RegNext
  <1>0. PICK t \in Target : t = item[i].target
    BY DEF TypeInv, ItemsReal
  <1>1. i \in Slot /\ Used' = Used /\ Used \subseteq Slot
    BY InlineHookAssumption DEF Used, Slot, TypeInv, TypeOK, ItemsReal
  <1>2. /\ \A j \in Used : /\ item'[j].target = item[j].target
                           /\ j # i => item'[j].status = item[j].status
        /\ item'[i].status = "HOOKED"
    BY <1>1 DEF PatchEntry, Patched, TypeInv, TypeOK, Item
  <1>3. t \in Registered
    BY <1>0 DEF Registered
  <1>4. t \notin Hooked
    BY <1>0 DEF Hooked, RegInv, OneItemPerTarget
  <1>5. Registered' = Registered
    BY <1>1, <1>2 DEF Registered
  <1>6. Hooked' = Hooked \cup {t}
    BY <1>0, <1>1, <1>2 DEF Hooked
  <1>7. Reg!Enable(t)
    BY <1>3, <1>4, <1>5, <1>6 DEF Reg!Enable, Registered, Hooked, Used
  <1> QED BY <1>7 DEF Reg!RegNext

(* Deleting an item, whichever item takes its slot, removes one function.  *)
LEMMA RemoveReg ==
  ASSUME TypeInv, RegInv, pos \in Used, item[pos].status = "HOOKED", DeleteItem(pos),
         UNCHANGED answer
  PROVE Reg!RegNext
  <1>0. PICK t \in Target : t = item[pos].target
    BY DEF TypeInv, ItemsReal
  <1> DEFINE last == size - 1
             old(j) == IF j = pos THEN last ELSE j
  <1>1. /\ Used \subseteq Slot /\ last \in Used /\ Used' = Used \ {last}
        /\ item' = [item EXCEPT ![pos] = item[last]]
    <2>1. item' = [item EXCEPT ![pos] = item[last]] /\ size' = size - 1
      BY DEF DeleteItem
    <2>2. size \in 0 .. MaxItems /\ MaxItems \in Nat
      BY InlineHookAssumption DEF TypeInv, TypeOK
    <2>3. Used \subseteq Slot /\ last \in Used
      BY <2>2 DEF Used, Slot
    <2>4. Used' = Used \ {last}
      BY <2>1, <2>2 DEF Used
    <2> QED BY <2>1, <2>3, <2>4
  <1>2. \A j \in Used' : old(j) \in Used /\ old(j) # pos /\ item'[j] = item[old(j)]
    BY <1>1 DEF TypeInv, TypeOK
  <1>3. \A k \in Used : k # pos => \E j \in Used' : old(j) = k
    <2> SUFFICES ASSUME NEW k \in Used, k # pos PROVE \E j \in Used' : old(j) = k
      OBVIOUS
    <2>1. CASE k = last
      BY <2>1, <1>1
    <2>2. CASE k # last
      BY <2>2, <1>1
    <2> QED BY <2>1, <2>2
  <1> HIDE DEF old
  <1>4. \A j \in Used : item[j].target = t <=> j = pos
    BY <1>0 DEF RegInv, OneItemPerTarget
  <1>5. t \in Hooked
    BY <1>0 DEF Hooked
  <1>6. Registered' = Registered \ {t}
    BY <1>2, <1>3, <1>4 DEF Registered
  <1>7. Hooked' = Hooked \ {t}
    BY <1>2, <1>3, <1>4 DEF Hooked
  <1>8. Reg!Remove(t)
    BY <1>5, <1>6, <1>7 DEF Reg!Remove, Registered, Hooked, Used
  <1> QED BY <1>8 DEF Reg!RegNext

(* Each step of the library is a step of the abstract registry.            *)
LEMMA StepReg ==
  ASSUME TypeInv, RegInv, [Next]_vars
  PROVE [Reg!RegNext]_(Reg!regVars)
  <1>0. pos \in Int /\ size \in Int
    BY DEF TypeInv, TypeOK
  <1>1. ASSUME NEW t \in Target, ApiStart(t) PROVE [Reg!RegNext]_(Reg!regVars)
    <2>1. CASE registerInlineHook(t)
      BY <2>1, AddReg
    <2>2. CASE RegisterRefused(t)
      <3>1. UNCHANGED <<item, size>>
        BY <2>2 DEF RegisterRefused, registry
      <3>2. CASE answer' = RegisterAnswer(t, "NOT_EXECUTABLE")
        BY <3>1, <3>2, ReplyReg DEF Reg!Truthful, RegisterAnswer
      <3>3. CASE \E i \in Used :
                   /\ IsFirst(i, ItemsFor(t))
                   /\ answer' = RegisterAnswer(t, IF item[i].status = "REGISTERED"
                                                    THEN "ALREADY_REGISTERED"
                                                    ELSE "ALREADY_HOOKED")
        <4>1. PICK i \in Used : /\ item[i].target = t
                                /\ answer' = RegisterAnswer(t, IF item[i].status = "REGISTERED"
                                                    THEN "ALREADY_REGISTERED"
                                                    ELSE "ALREADY_HOOKED")
          BY <3>3 DEF IsFirst, ItemsFor
        <4>2. t \in Registered
          BY <4>1 DEF Registered
        <4>3. item[i].status \in {"REGISTERED", "HOOKED"}
          BY InlineHookAssumption DEF TypeInv, TypeOK, Item, Status, Used, Slot
        <4>4. item[i].status = "REGISTERED" => t \notin Hooked
          BY <4>1 DEF Hooked, RegInv, OneItemPerTarget
        <4>5. item[i].status = "HOOKED" => t \in Hooked
          BY <4>1 DEF Hooked
        <4>6. Reg!Truthful(answer', Registered, Hooked)
          <5>1. CASE item[i].status = "REGISTERED"
            BY <5>1, <4>1, <4>2, <4>4 DEF Reg!Truthful, RegisterAnswer
          <5>2. CASE item[i].status = "HOOKED"
            BY <5>2, <4>1, <4>5 DEF Reg!Truthful, RegisterAnswer
          <5> QED BY <4>3, <5>1, <5>2
        <4> QED BY <3>1, <4>6, ReplyReg
      <3> QED BY <2>2, <3>2, <3>3 DEF RegisterRefused
    <2>3. CASE inlineHookRefused(t)
      <3>1. UNCHANGED <<item, size>>
        BY <2>3 DEF inlineHookRefused, registry
      <3>2. CASE ItemsFor(t) = {} /\ answer' = [call |-> "hook", fn |-> t, ret |-> "NOT_REGISTERED"]
        <4>1. t \notin Registered
          BY <3>2 DEF Registered, ItemsFor
        <4> QED BY <3>1, <3>2, <4>1, ReplyReg DEF Reg!Truthful
      <3>3. CASE (\E i \in Used : IsFirst(i, ItemsFor(t)) /\ item[i].status = "HOOKED")
                 /\ answer' = [call |-> "hook", fn |-> t, ret |-> "ALREADY_HOOKED"]
        <4>1. t \in Hooked
          BY <3>3 DEF Hooked, IsFirst, ItemsFor
        <4> QED BY <3>1, <3>3, <4>1, ReplyReg DEF Reg!Truthful
      <3> QED BY <2>3, <3>2, <3>3 DEF inlineHookRefused
    <2>4. CASE inlineUnHookRefused(t)
      <3>1. UNCHANGED <<item, size>>
        BY <2>4 DEF inlineUnHookRefused, registry
      <3>2. t \notin Hooked /\ answer' = [call |-> "unhook", fn |-> t, ret |-> "NOT_HOOKED"]
        BY <2>4 DEF inlineUnHookRefused, Hooked, HookedFor, ItemsFor
      <3> QED BY <3>1, <3>2, ReplyReg DEF Reg!Truthful
    <2>5. CASE RegisterFault(t) \/ inlineHook(t) \/ inlineUnHook(t)
      BY <2>5, StutterReg DEF RegisterFault, inlineHook, inlineUnHook, registry
    <2> QED BY <1>1, <2>1, <2>2, <2>3, <2>4, <2>5 DEF ApiStart
  <1>2. CASE \/ inlineHookAll \/ inlineUnHookAll \/ DoRestore \/ DoUnHookAllItem
             \/ \E t \in Target : Reload(t)
    BY <1>2, StutterReg DEF inlineHookAll, inlineUnHookAll, DoRestore, DoUnHookAllItem,
                            Reload, registry
  <1>3. ASSUME NEW th \in Thread, Attach(th) \/ AttachFails(th) \/ ThreadStep(th)
        PROVE UNCHANGED Reg!regVars
    <2>1. UNCHANGED <<item, size, answer>>
      BY <1>3 DEF Attach, AttachFails, ThreadStep, Call, EnterMalloc, LeaveMalloc,
                  ExecOrig, ExecNew, ExecTramp, ExecCallee, Goto, Die, registry
    <2> QED BY <2>1, StutterReg
  <1>4. CASE doInlineHook
    <2>1. pos \in Used /\ item[pos].status = "REGISTERED"
      BY <1>4, <1>0 DEF doInlineHook, TypeInv, TypeOK, PosReal, Used, RegInv, CallKnows
    <2> QED BY <1>4, <2>1, EnableReg DEF doInlineHook
  <1>5. CASE DoHookAllItem
    <2>1. pos \in Used
      BY <1>5, <1>0 DEF DoHookAllItem, TypeInv, TypeOK, Used
    <2>2. UNCHANGED <<size, answer>>
      BY <1>5 DEF DoHookAllItem
    <2>3. CASE item[pos].status = "REGISTERED" /\ PatchEntry(pos)
      BY <2>1, <2>2, <2>3, EnableReg
    <2>4. CASE UNCHANGED <<item, code>>
      BY <2>2, <2>4, StutterReg
    <2> QED BY <1>5, <2>3, <2>4 DEF DoHookAllItem
  <1>6. CASE DoFree \/ DoFreeAllItem
    <2>1. /\ pos \in Used /\ item[pos].status = "HOOKED" /\ DeleteItem(pos)
          /\ UNCHANGED answer
      BY <1>6, <1>0 DEF DoFree, DoFreeAllItem, TypeInv, TypeOK, PosReal, Used, RegInv,
                        CallKnows
    <2> QED BY <2>1, RemoveReg
  <1>7. CASE unFreeze
    <2>1. UNCHANGED <<item, size>>
      BY <1>7 DEF unFreeze, registry
    <2>2. CASE call = "hooked" /\ answer' = [call |-> "hook", fn |-> arg, ret |-> "OK"]
      <3>1. pos \in Used
        BY <2>2, <1>0 DEF TypeInv, TypeOK, PosReal, Used
      <3>2. arg \in Target /\ arg \in Hooked
        BY <2>2, <3>1 DEF RegInv, CallKnows, Hooked
      <3> QED BY <2>1, <2>2, <3>2, ReplyReg DEF Reg!Truthful
    <2>3. CASE call = "unhooked" /\ answer' = [call |-> "unhook", fn |-> arg, ret |-> "OK"]
      <3>1. arg \in Target /\ arg \notin Registered
        BY <2>3 DEF RegInv, CallKnows, Registered
      <3> QED BY <2>1, <2>3, <3>1, ReplyReg DEF Reg!Truthful
    <2>4. CASE call = "hookAll" /\ pos >= size /\ answer' = [call |-> "hookAll"]
      <3>1. \A j \in Used : j < pos
        BY <2>4, <1>0 DEF Used
      <3>2. \A j \in Used : item[j].status = "HOOKED"
        BY <2>4, <3>1 DEF RegInv, CallKnows
      <3>3. Hooked = Registered
        BY <3>2 DEF Hooked, Registered
      <3> QED BY <2>1, <2>4, <3>3, ReplyReg DEF Reg!Truthful
    <2>5. CASE call = "unhookAll" /\ pos >= size /\ answer' = [call |-> "unhookAll"]
      <3>1. \A j \in Used : j < pos
        BY <2>5, <1>0 DEF Used
      <3>2. \A j \in Used : item[j].status = "REGISTERED"
        BY <2>5, <3>1 DEF RegInv, CallKnows
      <3>3. Hooked = {}
        BY <3>2 DEF Hooked
      <3> QED BY <2>1, <2>5, <3>3, ReplyReg DEF Reg!Truthful
    <2> QED BY <1>7, <2>2, <2>3, <2>4, <2>5 DEF unFreeze
  <1>8. CASE UNCHANGED vars
    BY <1>8, StutterReg DEF vars
  <1> QED BY <1>1, <1>2, <1>3, <1>4, <1>5, <1>6, <1>7, <1>8 DEF Next, ApiStep

(* The array with its moved items, its loops and its frozen threads        *)
(* implements the set-valued registry: no call of the API returns a code   *)
(* that is not true, and the "All" calls leave nothing undone.             *)
THEOREM ImplementsRegistry == Spec => Implements
  <1>1. Init => Reg!RegInit
    BY DEF Init, Reg!RegInit, Reg!NoCall
  <1>2. TypeInv /\ RegInv /\ [Next]_vars => [Reg!RegNext]_(Reg!regVars)
    BY StepReg
  <1> QED BY <1>1, <1>2, InvariantHolds, PTL DEF Spec, Implements, Reg!RegSpec
=============================================================================
