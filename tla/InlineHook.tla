----------------------------- MODULE InlineHook -----------------------------
(***************************************************************************)
(* The inline-hook library (inlineHook/inlineHook.c): the registry of      *)
(* hook items, the code it patches, the trampolines it maps and the        *)
(* threads it stops and moves while it does so.  One thread at a time is   *)
(* inside the API; every other thread of the process runs the functions    *)
(* being hooked.                                                           *)
(*                                                                         *)
(* Code is abstracted to the instruction boundaries of a function's first  *)
(* bytes: a program counter is an offset into the function, or into the    *)
(* trampoline page that holds the relocated copy of those bytes.           *)
(***************************************************************************)
EXTENDS Integers, Sequences, FiniteSets

CONSTANTS
  Target,       \* functions that can be hooked (target_addr)
  Executable,   \* those for which both isExecutableAddr checks succeed
  WantsProto,   \* those registered with a proto_addr that is not NULL
  Thread,       \* the threads of the process other than the API's caller
  Page,         \* the pages mmap can return for a trampoline
  MaxItems,     \* length of info.item (1024 in the code)
  MaxCount,     \* bound: boundary-table entries followed in a reused slot
  OrigOffs,     \* function -> boundaries of the copied instructions, in order
  TrampOffs,    \* function -> where each of them starts in the trampoline
  TrampMid,     \* function -> other instruction starts inside those blocks
  CallOffs,     \* function -> which of OrigOffs are BL or BLX
  TrampCalls,   \* function -> where the trampoline jumps for those
  TrampEnd,     \* function -> where the trampoline's final jump starts
  Resume,       \* function -> offset in the function that jump goes to
  PatchLen,     \* function -> bytes overwritten by the entry jump
  NoFn, NoPage  \* the zero values of target_addr and of a page pointer

Offset == Nat
OrigLen == 4      \* int orig_boundaries[4]
TrampLen == 20    \* int trampoline_boundaries[20]
CountCell == OrigLen + TrampLen
Cell == 0 .. CountCell

(* orig_boundaries, trampoline_boundaries and count are adjacent ints of   *)
(* struct inlineHookItem; they are one array of cells here, because        *)
(* relocateInstruction indexes them through pointers without a check.      *)
BoundaryTable == [Cell -> Nat]

Slot == 0 .. MaxItems - 1

ASSUME InlineHookAssumption ==
  /\ Executable \subseteq Target
  /\ WantsProto \subseteq Target
  /\ MaxItems \in Nat \ {0}
  /\ MaxCount \in 0 .. TrampLen
  /\ NoFn \notin Target
  /\ NoPage \notin Page
  /\ OrigOffs \in [Target -> Seq(Offset)]
  /\ TrampOffs \in [Target -> Seq(Offset)]
  /\ TrampMid \in [Target -> SUBSET Offset]
  /\ CallOffs \in [Target -> SUBSET Offset]
  /\ TrampCalls \in [Target -> SUBSET Offset]
  /\ TrampEnd \in [Target -> Offset]
  /\ Resume \in [Target -> Offset]
  /\ PatchLen \in [Target -> Offset]
  /\ \A t \in Target : Len(TrampOffs[t]) = Len(OrigOffs[t])

VARIABLES
  item,      \* info.item, stale slots included
  size,      \* info.size
  mem,       \* function -> what its first bytes are in memory
  icache,    \* function -> what the instruction cache holds for them
  page,      \* page -> the function whose trampoline it holds, NoFn if unmapped
  proto,     \* function -> the page *proto_addr points to
  pc,        \* thread -> where it executes
  call,      \* the API call in progress, or "idle"
  arg,       \* its target_addr, NoFn for an "All" call
  pos,       \* its index i into info.item
  todo,      \* threads its freeze() has still to attach
  frozen,    \* threads it holds stopped
  answer,    \* the last call and its return code
  fault,     \* why the process died, or "none"
  hist       \* the disturbances that have happened so far (history)

registry == <<item, size>>
code == <<mem, icache, page, proto>>
api == <<call, arg, pos, todo, frozen>>
vars == <<item, size, mem, icache, page, proto, pc, call, arg, pos, todo,
          frozen, answer, fault, hist>>

Bytes == {"orig", "jump"}
Status == {"REGISTERED", "HOOKED"}

Item == [target : Target \cup {NoFn}, saved : Bytes, tramp : Page \cup {NoPage},
         bnd : BoundaryTable, status : Status]

Location == [at : {"out", "malloc", "orig", "tramp", "new", "callee"},
             fn : Target \cup {NoFn}, pg : Page \cup {NoPage}, off : Offset]

Out == [at |-> "out", fn |-> NoFn, pg |-> NoPage, off |-> 0]
Malloc == [at |-> "malloc", fn |-> NoFn, pg |-> NoPage, off |-> 0]
InOrig(t, o) == [at |-> "orig", fn |-> t, pg |-> NoPage, off |-> o]
InTramp(p, o) == [at |-> "tramp", fn |-> NoFn, pg |-> p, off |-> o]
(* In a function that was called just before l, and returns to l.          *)
Callee(l) == [at |-> "callee", fn |-> l.fn, pg |-> l.pg, off |-> l.off]
InNew(t) == [at |-> "new", fn |-> t, pg |-> NoPage, off |-> 0]

Reg == INSTANCE HookRegistry WITH
         registered <- {item[i].target : i \in 0 .. size - 1},
         hooked <- {item[i].target :
                      i \in {j \in 0 .. size - 1 : item[j].status = "HOOKED"}}

-----------------------------------------------------------------------------
(* static struct inlineHookInfo info = {0}; no function is hooked, no page *)
(* is mapped, every thread is outside the functions of interest.           *)
EmptyItem == [target |-> NoFn, saved |-> "orig", tramp |-> NoPage,
              bnd |-> [c \in Cell |-> 0], status |-> "REGISTERED"]

Init ==
  /\ item = [i \in Slot |-> EmptyItem]
  /\ size = 0
  /\ mem = [t \in Target |-> "orig"]
  /\ icache = mem
  /\ page = [p \in Page |-> NoFn]
  /\ proto = [t \in Target |-> NoPage]
  /\ pc = [th \in Thread |-> Out]
  /\ call = "idle"
  /\ arg = NoFn
  /\ pos = 0
  /\ todo = {}
  /\ frozen = {}
  /\ answer = [call |-> "none"]
  /\ fault = "none"
  /\ hist = {}

(* What can make the library lose a thread: a freeze that missed one, a    *)
(* registration in a slot whose count is not zero any more, an unhook that *)
(* moves another item and so flushes the wrong function, an unhook while a *)
(* thread is in the replacement, below the trampoline or inside a block of *)
(* it.                                                                     *)
Disturbance == {"escaped", "reused", "moved", "inside"}

Alive == fault = "none"
Used == 0 .. size - 1
(* Mutant: the search of findInlineHookItem stops one item early.          *)
ItemsForAllButLast(t) == {i \in 0 .. size - 2 : item[i].target = t}
ItemsFor(t) == {i \in Used : item[i].target = t}
IsFirst(i, S) == i \in S /\ \A j \in S : i <= j

(* The heap lock of malloc and free is held by a thread inside either.     *)
HeapFree == \A th \in Thread : pc[th].at # "malloc"

-----------------------------------------------------------------------------
(* relocateInstruction: one entry per copied instruction is stored from    *)
(* index c on; a write past orig_boundaries lands in                       *)
(* trampoline_boundaries, where the original offset of a later instruction *)
(* overwrites an earlier entry.                                            *)
Stored(b, c, orig, tramp) ==
  [k \in Cell |->
     IF k = CountCell THEN b[CountCell] + Len(orig)
     ELSE IF k - c \in 0 .. Len(orig) - 1 THEN orig[k - c + 1]
     ELSE IF k - OrigLen - c \in 0 .. Len(orig) - 1 THEN tramp[k - OrigLen - c + 1]
     ELSE b[k]]

(* Mutant: the trampoline entry is stored as a displacement.               *)
RelocatedAsDelta(b, t) ==
  Stored(b, b[CountCell], OrigOffs[t],
         [k \in DOMAIN OrigOffs[t] |-> OrigOffs[t][k] - TrampOffs[t][k]])

(* Mutant: count is incremented before the entry is stored.                *)
RelocatedCountFirst(b, t) == Stored(b, b[CountCell] + 1, OrigOffs[t], TrampOffs[t])

(* The first index is *count, which registerInlineHook does not reset.     *)
Relocated(b, t) == Stored(b, b[CountCell], OrigOffs[t], TrampOffs[t])

(* Bound: a slot reused so often that its table grows past MaxCount        *)
(* entries (past 20 it would run into count itself) is not followed.       *)
TableRoom(b, t) == b[CountCell] + Len(OrigOffs[t]) <= MaxCount

RegisterAnswer(t, r) == [call |-> "register", fn |-> t, ret |-> r]

(* registerInlineHook, the calls that change nothing.                      *)
RegisterRefused(t) ==
  /\ Alive /\ call = "idle"
  /\ \/ /\ t \notin Executable
        /\ answer' = RegisterAnswer(t, "NOT_EXECUTABLE")
     \/ /\ t \in Executable
        /\ \E i \in Used :
             /\ IsFirst(i, ItemsFor(t))
             /\ answer' = RegisterAnswer(t, IF item[i].status = "REGISTERED"
                                              THEN "ALREADY_REGISTERED"
                                              ELSE "ALREADY_HOOKED")
  /\ UNCHANGED <<registry, code, pc, api, fault, hist>>

(* addInlineHookItem and the initialisation of the item: the copy of the   *)
(* entry's bytes, mmap of the trampoline, relocateInstruction.             *)
AddItem(t) ==
  /\ HeapFree
  /\ size < MaxItems
  /\ TableRoom(item[size].bnd, t)
  /\ \E p \in Page :
       /\ page[p] = NoFn
       /\ page' = [page EXCEPT ![p] = t]
       /\ item' = [item EXCEPT ![size] =
                     [target |-> t, saved |-> mem[t], tramp |-> p,
                      bnd |-> Relocated(item[size].bnd, t),
                      status |-> "REGISTERED"]]
  /\ size' = size + 1
  /\ hist' = IF item[size].bnd[CountCell] = 0 THEN hist ELSE hist \cup {"reused"}

(* Mutant: only a REGISTERED item makes registerInlineHook refuse.         *)
RegisterIgnoresHooked(t) ==
  /\ Alive /\ call = "idle" /\ t \in Executable
  /\ \A i \in ItemsFor(t) : item[i].status = "HOOKED"
  /\ AddItem(t)
  /\ answer' = RegisterAnswer(t, "OK")
  /\ UNCHANGED <<mem, icache, proto, pc, api, fault>>

(* registerInlineHook, the call that adds an item.                         *)
registerInlineHook(t) ==
  /\ Alive /\ call = "idle" /\ t \in Executable
  /\ ItemsFor(t) = {}
  /\ AddItem(t)
  /\ answer' = RegisterAnswer(t, "OK")
  /\ UNCHANGED <<mem, icache, proto, pc, api, fault>>

(* registerInlineHook, its unchecked failures: addInlineHookItem returned  *)
(* NULL, or mmap returned MAP_FAILED; both are dereferenced.               *)
RegisterFault(t) ==
  /\ Alive /\ call = "idle"
  /\ t \in Executable
  /\ ItemsFor(t) = {}
  /\ \/ size >= MaxItems
     \/ \A p \in Page : page[p] # NoFn
  /\ fault' = "register"
  /\ UNCHANGED <<registry, code, pc, api, answer, hist>>

-----------------------------------------------------------------------------
(* freeze: the thread list is read and a child forked to attach them one   *)
(* by one.  When fork fails no thread is stopped.                          *)
freeze(kind, t, i) ==
  /\ call' = kind
  /\ arg' = t
  /\ pos' = i
  /\ frozen' = {}
  /\ \/ todo' = Thread /\ UNCHANGED hist
     \/ todo' = {} /\ hist' = hist \cup {"escaped"}

inlineHookRefused(t) ==
  /\ Alive /\ call = "idle"
  /\ \/ /\ ItemsFor(t) = {}
        /\ answer' = [call |-> "hook", fn |-> t, ret |-> "NOT_REGISTERED"]
     \/ \E i \in Used :
          /\ IsFirst(i, ItemsFor(t))
          /\ item[i].status = "HOOKED"
          /\ answer' = [call |-> "hook", fn |-> t, ret |-> "ALREADY_HOOKED"]
  /\ UNCHANGED <<registry, code, pc, api, fault, hist>>

inlineHook(t) ==
  /\ Alive /\ call = "idle"
  /\ \E i \in Used :
       /\ IsFirst(i, ItemsFor(t))
       /\ item[i].status = "REGISTERED"
       /\ freeze("hook", t, i)
  /\ UNCHANGED <<registry, code, pc, answer, fault>>

HookedFor(t) == {i \in ItemsFor(t) : item[i].status = "HOOKED"}

inlineUnHookRefused(t) ==
  /\ Alive /\ call = "idle"
  /\ HookedFor(t) = {}
  /\ answer' = [call |-> "unhook", fn |-> t, ret |-> "NOT_HOOKED"]
  /\ UNCHANGED <<registry, code, pc, api, fault, hist>>

inlineUnHook(t) ==
  /\ Alive /\ call = "idle"
  /\ \E i \in Used :
       /\ IsFirst(i, HookedFor(t))
       /\ freeze("unhook", t, i)
  /\ UNCHANGED <<registry, code, pc, answer, fault>>

inlineHookAll ==
  /\ Alive /\ call = "idle"
  /\ freeze("hookAll", NoFn, 0)
  /\ UNCHANGED <<registry, code, pc, answer, fault>>

inlineUnHookAll ==
  /\ Alive /\ call = "idle"
  /\ freeze("unhookAll", NoFn, 0)
  /\ UNCHANGED <<registry, code, pc, answer, fault>>

-----------------------------------------------------------------------------
Count(i) == item[i].bnd[CountCell]
OrigBoundary(i, k) == item[i].bnd[k]
TrampBoundary(i, k) == item[i].bnd[OrigLen + k]

(* The table entries of item i that doProcessThreadPC matches for a thread *)
(* at location l: ACTION_ENABLE looks the offset into the function up,     *)
(* ACTION_DISABLE the offset into the trampoline.                          *)
EnableMatches(i, l) ==
  {k \in 0 .. Count(i) - 1 : l.at = "orig" /\ l.fn = item[i].target
                             /\ l.off = OrigBoundary(i, k)}
DisableMatches(i, l) ==
  {k \in 0 .. Count(i) - 1 : l.at = "tramp" /\ l.pg = item[i].tramp
                             /\ l.off = TrampBoundary(i, k)}

Enabling == call \in {"hook", "hookAll"}
Matches(i, l) == IF Enabling THEN EnableMatches(i, l) ELSE DisableMatches(i, l)

(* Mutant: the offset is kept when a thread enters the trampoline.         *)
LandingSameOffset(i, k) ==
  IF Enabling THEN InTramp(item[i].tramp, OrigBoundary(i, k))
              ELSE InOrig(item[i].target, OrigBoundary(i, k))

(* doProcessThreadPC: where entry k of item i sends the thread.            *)
Landing(i, k) == IF Enabling THEN InTramp(item[i].tramp, TrampBoundary(i, k))
                             ELSE InOrig(item[i].target, OrigBoundary(i, k))

(* processThreadPC: the item of the call, or for an "All" call every item  *)
(* of the registry, hooked already or not; the first match decides.        *)
Candidates(l) ==
  {i \in (IF call \in {"hook", "unhook"} THEN {pos} ELSE Used) : Matches(i, l) # {}}

FirstMatch(i, k, l) == IsFirst(i, Candidates(l)) /\ IsFirst(k, Matches(i, l))

(* Mutant: stopped threads are not moved.                                  *)
PCUnprocessed(l) == {l}

processThreadPC(l) ==
  IF Candidates(l) = {}
    THEN {l}
    ELSE {Landing(m[1], m[2]) :
            m \in {n \in Slot \X (0 .. TrampLen - 1) : FirstMatch(n[1], n[2], l)}}

Freezing == call \in {"hook", "unhook", "hookAll", "unhookAll"}

(* The child of freeze() attaches the next thread and fixes its pc; the    *)
(* threads it has not reached yet keep running.                            *)
Attach(th) ==
  /\ Alive /\ Freezing
  /\ th \in todo
  /\ todo' = todo \ {th}
  /\ frozen' = frozen \cup {th}
  /\ \E l2 \in processThreadPC(pc[th]) : pc' = [pc EXCEPT ![th] = l2]
  /\ UNCHANGED <<registry, code, call, arg, pos, answer, fault, hist>>

(* PTRACE_ATTACH failed: the thread is skipped and keeps running.          *)
AttachFails(th) ==
  /\ Alive /\ Freezing
  /\ th \in todo
  /\ todo' = todo \ {th}
  /\ hist' = hist \cup {"escaped"}
  /\ UNCHANGED <<registry, code, pc, call, arg, pos, frozen, answer, fault>>

-----------------------------------------------------------------------------
Patched(i, proto2, status2, icache2) ==
  /\ proto' = proto2
  /\ mem' = [mem EXCEPT ![item[i].target] = "jump"]
  /\ item' = [item EXCEPT ![i].status = status2]
  /\ icache' = icache2
  /\ UNCHANGED page

ProtoSet(i) == IF item[i].target \in WantsProto
                 THEN [proto EXCEPT ![item[i].target] = item[i].tramp] ELSE proto
Flushed(i) == [icache EXCEPT ![item[i].target] = "jump"]

(* Mutants: item->status = HOOKED is missing; cacheflush is missing; a     *)
(* *proto_addr that is already set is kept.                                *)
PatchWithoutStatus(i) == Patched(i, ProtoSet(i), item[i].status, Flushed(i))
PatchWithoutFlush(i) == Patched(i, ProtoSet(i), "HOOKED", icache)
PatchKeepsProto(i) ==
  Patched(i, IF proto[item[i].target] = NoPage THEN ProtoSet(i) ELSE proto,
          "HOOKED", Flushed(i))

(* doInlineHook: *proto_addr, then the entry jump, the status, the flush.  *)
PatchEntry(i) == Patched(i, ProtoSet(i), "HOOKED", Flushed(i))

(* Mutant: doInlineHook allocates while the threads are stopped.           *)
HookAllocates ==
  /\ Alive /\ call = "hook" /\ todo = {}
  /\ HeapFree
  /\ PatchEntry(pos)
  /\ call' = "hooked"
  /\ UNCHANGED <<size, pc, arg, pos, todo, frozen, answer, fault, hist>>

doInlineHook ==
  /\ Alive /\ call = "hook" /\ todo = {}
  /\ PatchEntry(pos)
  /\ call' = "hooked"
  /\ UNCHANGED <<size, pc, arg, pos, todo, frozen, answer, fault, hist>>

(* One turn of the loop of inlineHookAll.                                  *)
DoHookAllItem ==
  /\ Alive /\ call = "hookAll" /\ todo = {}
  /\ pos < size
  /\ \/ item[pos].status = "REGISTERED" /\ PatchEntry(pos)
     \/ item[pos].status # "REGISTERED" /\ UNCHANGED <<item, code>>
  /\ pos' = pos + 1
  /\ UNCHANGED <<size, pc, call, arg, todo, frozen, answer, fault, hist>>

(* A thread that will need item i's trampoline or replacement again.       *)
StillInside(i) ==
  \E th \in Thread :
    \/ pc[th].at = "new" /\ pc[th].fn = item[i].target
    \/ pc[th].at \in {"tramp", "callee"} /\ pc[th].pg = item[i].tramp

(* doInlineUnHook up to free(): the saved bytes are written back and the   *)
(* trampoline is unmapped.                                                 *)
RestoreEntry(i) ==
  /\ mem' = [mem EXCEPT ![item[i].target] = item[i].saved]
  /\ page' = [page EXCEPT ![item[i].tramp] = NoFn]
  /\ UNCHANGED <<icache, proto>>
  /\ hist' = hist \cup (IF i = size - 1 THEN {} ELSE {"moved"})
                   \cup (IF StillInside(i) THEN {"inside"} ELSE {})

DoRestore ==
  /\ Alive /\ call = "unhook" /\ todo = {}
  /\ RestoreEntry(pos)
  /\ call' = "unhookFree"
  /\ UNCHANGED <<registry, pc, arg, pos, todo, frozen, answer, fault>>

(* Mutant: the loop does not step over an item that is not hooked.         *)
UnHookAllStays ==
  /\ Alive /\ call = "unhookAll" /\ todo = {}
  /\ pos < size
  /\ item[pos].status = "HOOKED"
  /\ RestoreEntry(pos)
  /\ call' = "unhookAllFree"
  /\ UNCHANGED <<registry, pc, arg, pos, todo, frozen, answer, fault>>

(* One turn of the loop of inlineUnHookAll: the first half of              *)
(* doInlineUnHook for a hooked item, the next index otherwise.             *)
DoUnHookAllItem ==
  /\ Alive /\ call = "unhookAll" /\ todo = {}
  /\ pos < size
  /\ \/ /\ item[pos].status = "HOOKED"
        /\ RestoreEntry(pos)
        /\ call' = "unhookAllFree"
        /\ pos' = pos
     \/ /\ item[pos].status # "HOOKED"
        /\ UNCHANGED <<code, call, hist>>
        /\ pos' = pos + 1
  /\ UNCHANGED <<registry, pc, arg, todo, frozen, answer, fault>>

(* Mutant: --info.size without moving the last item.                       *)
DeleteWithoutMove(i) ==
  /\ size' = size - 1
  /\ icache' = [icache EXCEPT ![item[i].target] = mem[item[i].target]]
  /\ UNCHANGED <<item, mem, page, proto>>

(* doInlineUnHook from free() on: deleteInlineHookItem moves the last item *)
(* into the slot, and the cacheflush that follows reads the slot again, so *)
(* it flushes the item that has just been moved there.                     *)
DeleteItem(i) ==
  /\ item' = [item EXCEPT ![i] = item[size - 1]]
  /\ size' = size - 1
  /\ icache' = [icache EXCEPT ![item[size - 1].target] = mem[item[size - 1].target]]
  /\ UNCHANGED <<mem, page, proto>>

(* free() blocks while another thread is inside the allocator.             *)
DoFree ==
  /\ Alive /\ call = "unhookFree"
  /\ HeapFree
  /\ DeleteItem(pos)
  /\ call' = "unhooked"
  /\ UNCHANGED <<pc, arg, pos, todo, frozen, answer, fault, hist>>

(* Mutant: the loop of inlineUnHookAll has no --i.                         *)
FreeAllSkips ==
  /\ Alive /\ call = "unhookAllFree"
  /\ HeapFree
  /\ DeleteItem(pos)
  /\ call' = "unhookAll"
  /\ pos' = pos + 1
  /\ UNCHANGED <<pc, arg, todo, frozen, answer, fault, hist>>

(* The loop's --i and ++i cancel: the slot is looked at again.             *)
DoFreeAllItem ==
  /\ Alive /\ call = "unhookAllFree"
  /\ HeapFree
  /\ DeleteItem(pos)
  /\ call' = "unhookAll"
  /\ UNCHANGED <<pc, arg, pos, todo, frozen, answer, fault, hist>>

-----------------------------------------------------------------------------
(* unFreeze and the return of the call.                                    *)
unFreeze ==
  /\ Alive
  /\ \/ /\ call = "hooked"
        /\ answer' = [call |-> "hook", fn |-> arg, ret |-> "OK"]
     \/ /\ call = "unhooked"
        /\ answer' = [call |-> "unhook", fn |-> arg, ret |-> "OK"]
     \/ /\ call = "hookAll" /\ todo = {} /\ pos >= size
        /\ answer' = [call |-> "hookAll"]
     \/ /\ call = "unhookAll" /\ todo = {} /\ pos >= size
        /\ answer' = [call |-> "unhookAll"]
  /\ call' = "idle"
  /\ arg' = NoFn
  /\ pos' = 0
  /\ frozen' = {}
  /\ UNCHANGED <<registry, code, pc, todo, fault, hist>>

-----------------------------------------------------------------------------
(* The threads.  They call the hooked functions, run the first bytes of    *)
(* them instruction by instruction from the instruction cache, and enter   *)
(* the allocator.                                                          *)
Running(th) == Alive /\ th \notin frozen

Goto(th, l) ==
  /\ pc' = [pc EXCEPT ![th] = l]
  /\ UNCHANGED <<registry, code, api, answer, fault, hist>>

Die(why) ==
  /\ fault' = why
  /\ UNCHANGED <<registry, code, pc, api, answer, hist>>

Boundaries(t) == {OrigOffs[t][k] : k \in 1 .. Len(OrigOffs[t])} \cup {Resume[t]}
TrampStarts(t) == {TrampOffs[t][k] : k \in 1 .. Len(TrampOffs[t])}
                    \cup TrampMid[t] \cup {TrampEnd[t]}

(* relocateInstruction copies from the entry on, at least as many bytes as *)
(* the jump overwrites, and what it emits for an instruction is not empty. *)
ASSUME LayoutAssumption ==
  \A t \in Target :
    /\ 0 \in Boundaries(t) /\ 0 \in TrampStarts(t)
    /\ Resume[t] >= PatchLen[t]
    /\ \A j, k \in 1 .. Len(TrampOffs[t]) : TrampOffs[t][j] = TrampOffs[t][k] => j = k

IsNext(o2, o, S) == o2 \in S /\ o2 > o /\ \A q \in S : q > o => o2 <= q

Call(th, t) == Running(th) /\ pc[th] = Out /\ Goto(th, InOrig(t, 0))

EnterMalloc(th) == Running(th) /\ pc[th] = Out /\ HeapFree /\ Goto(th, Malloc)
LeaveMalloc(th) == Running(th) /\ pc[th] = Malloc /\ Goto(th, Out)

(* What the bytes at offset o of t are, as the thread fetches them.        *)
EntryJump(t, o) == icache[t] = "jump" /\ o = 0
InsideJump(t, o) == icache[t] = "jump" /\ o \in 1 .. PatchLen[t] - 1
Intact(t, o) == o \in Boundaries(t) /\ ~EntryJump(t, o) /\ ~InsideJump(t, o)

ExecOrig(th) ==
  LET t == pc[th].fn
      o == pc[th].off
  IN /\ Running(th) /\ pc[th].at = "orig"
     /\ \/ EntryJump(t, o) /\ Goto(th, InNew(t))
        \/ /\ Intact(t, o) /\ o < Resume[t]
           /\ \E o2 \in Boundaries(t) :
                /\ IsNext(o2, o, Boundaries(t))
                /\ Goto(th, IF o \in CallOffs[t] THEN Callee(InOrig(t, o2))
                                                ELSE InOrig(t, o2))
        \/ Intact(t, o) /\ o >= Resume[t] /\ Goto(th, Out)
        \/ ~EntryJump(t, o) /\ ~Intact(t, o) /\ Die("pc")

(* The replacement calls the original through *proto_addr, or returns.     *)
ExecNew(th) ==
  LET t == pc[th].fn
  IN /\ Running(th) /\ pc[th].at = "new"
     /\ \/ /\ t \in WantsProto
           /\ proto[t] # NoPage
           /\ page[proto[t]] = t
           /\ Goto(th, InTramp(proto[t], 0))
        \/ /\ t \in WantsProto
           /\ proto[t] = NoPage \/ page[proto[t]] # t
           /\ Die("proto")
        \/ Goto(th, Out)

ExecTramp(th) ==
  LET t == page[pc[th].pg]
      o == pc[th].off
  IN /\ Running(th) /\ pc[th].at = "tramp"
     /\ \/ /\ t # NoFn
           /\ o \in TrampStarts(t)
           /\ o < TrampEnd[t]
           /\ \E o2 \in TrampStarts(t) :
                /\ IsNext(o2, o, TrampStarts(t))
                /\ Goto(th, IF o \in TrampCalls[t] THEN Callee(InTramp(pc[th].pg, o2))
                                                  ELSE InTramp(pc[th].pg, o2))
        \/ /\ t # NoFn
           /\ o = TrampEnd[t]
           /\ Goto(th, InOrig(t, Resume[t]))
        \/ /\ t = NoFn \/ (t # NoFn /\ o \notin TrampStarts(t))
           /\ Die("trampoline")

(* A function called by a copied BL returns to the address in LR, which    *)
(* freeze() never rewrites.                                                *)
ReturnTo(l) == IF l.pg = NoPage THEN InOrig(l.fn, l.off) ELSE InTramp(l.pg, l.off)

ExecCallee(th) ==
  /\ Running(th) /\ pc[th].at = "callee"
  /\ Goto(th, ReturnTo(pc[th]))

(* The cache may reload a stale line at any time.                          *)
Reload(t) ==
  /\ Alive
  /\ icache[t] # mem[t]
  /\ icache' = [icache EXCEPT ![t] = mem[t]]
  /\ UNCHANGED <<registry, mem, page, proto, pc, api, answer, fault, hist>>

-----------------------------------------------------------------------------
ApiStart(t) ==
  \/ RegisterRefused(t) \/ registerInlineHook(t) \/ RegisterFault(t)
  \/ inlineHookRefused(t) \/ inlineHook(t)
  \/ inlineUnHookRefused(t) \/ inlineUnHook(t)

ApiStep ==
  \/ \E th \in Thread : Attach(th) \/ AttachFails(th)
  \/ doInlineHook \/ DoHookAllItem
  \/ DoRestore \/ DoUnHookAllItem \/ DoFree \/ DoFreeAllItem
  \/ unFreeze

ThreadStep(th) ==
  \/ \E t \in Target : Call(th, t)
  \/ EnterMalloc(th) \/ LeaveMalloc(th)
  \/ ExecOrig(th) \/ ExecNew(th) \/ ExecTramp(th) \/ ExecCallee(th)

Next ==
  \/ \E t \in Target : ApiStart(t)
  \/ inlineHookAll \/ inlineUnHookAll
  \/ ApiStep
  \/ \E th \in Thread : ThreadStep(th)
  \/ \E t \in Target : Reload(t)

Spec == Init /\ [][Next]_vars

(* A call that was made is continued by its thread, a thread waiting for   *)
(* the heap lock gets it when it keeps becoming free, and a running thread *)
(* leaves the allocator; nothing forces a thread to make a call.           *)
FairSpec ==
  /\ Spec
  /\ WF_vars(ApiStep)
  /\ SF_vars(DoFree) /\ SF_vars(DoFreeAllItem)
  /\ \A th \in Thread : WF_vars(LeaveMalloc(th))
-----------------------------------------------------------------------------
(* Every variable has the type of the C object it stands for.              *)
TypeOK ==
  /\ item \in [Slot -> Item]
  /\ size \in 0 .. MaxItems
  /\ mem \in [Target -> Bytes]
  /\ icache \in [Target -> Bytes]
  /\ page \in [Page -> Target \cup {NoFn}]
  /\ proto \in [Target -> Page \cup {NoPage}]
  /\ pc \in [Thread -> Location]
  /\ call \in {"idle", "hook", "hooked", "unhook", "unhookFree", "unhooked",
               "hookAll", "unhookAll", "unhookAllFree"}
  /\ arg \in Target \cup {NoFn}
  /\ pos \in 0 .. MaxItems
  /\ todo \subseteq Thread
  /\ frozen \subseteq Thread
  /\ fault \in {"none", "register", "pc", "proto", "trampoline"}
  /\ hist \subseteq Disturbance

(* The item whose doInlineUnHook has restored the code and not yet deleted *)
(* the item.                                                               *)
HalfUnhooked(i) == call \in {"unhookFree", "unhookAllFree"} /\ i = pos

(* No two items of the registry are for the same function, through every   *)
(* sequence of registrations and of deletions that move the last item.     *)
OneItemPerTarget ==
  \A i, j \in Used : item[i].target = item[j].target => i = j

(* The bytes in memory agree with the registry: a function starts with the *)
(* jump exactly when it has a HOOKED item, except inside doInlineUnHook.   *)
PatchMatchesStatus ==
  \A t \in Target :
    mem[t] = "jump" <=> \E i \in Used : /\ item[i].target = t
                                        /\ item[i].status = "HOOKED"
                                        /\ ~HalfUnhooked(i)

(* The bytes an item will write back are the function's own, never a jump  *)
(* another registration had put there.                                     *)
SavedBytesAreOriginal ==
  \A i \in Used : item[i].saved = "orig"

(* Each item owns a mapped trampoline of its own function, and no page is  *)
(* mapped that no item owns: nothing is leaked, shared or unmapped early.  *)
TrampolinesOwned ==
  /\ \A i \in Used : \/ HalfUnhooked(i)
                     \/ item[i].tramp \in Page /\ page[item[i].tramp] = item[i].target
  /\ \A p \in Page : page[p] # NoFn =>
       \E i \in Used : item[i].tramp = p /\ ~HalfUnhooked(i)

(* The instruction cache is stale only for a function whose original bytes *)
(* are back in memory, and after doInlineUnHook only if an item was moved: *)
(* a hooked function always runs its jump.                                 *)
StaleOnlyWhenMoved ==
  \A t \in Target : icache[t] # mem[t] =>
    /\ mem[t] = "orig"
    /\ \/ "moved" \in hist
       \/ \E i \in Used : HalfUnhooked(i) /\ item[i].target = t

(* A hooked function's *proto_addr is the live trampoline of that function *)
(* until its item is being removed.                                        *)
ProtoLive ==
  \A i \in Used : item[i].status = "HOOKED" /\ item[i].target \in WantsProto
                    /\ ~HalfUnhooked(i)
                    => proto[item[i].target] = item[i].tramp

(* The entries of item i are the boundaries of its own instructions.       *)
BoundariesExact(i) ==
  LET t == item[i].target
  IN /\ Count(i) = Len(OrigOffs[t])
     /\ \A k \in 0 .. Count(i) - 1 : /\ OrigBoundary(i, k) = OrigOffs[t][k + 1]
                                     /\ TrampBoundary(i, k) = TrampOffs[t][k + 1]

(* An item in a slot used for the first time, for a function of which at   *)
(* most four instructions are copied, has an exact boundary table.         *)
FirstUseIsExact ==
  \A i \in Used :
    LET n == Len(OrigOffs[item[i].target])
    IN Count(i) = n /\ n <= OrigLen => BoundariesExact(i)

(* relocate.c, lines 627-629: orig_boundaries and trampoline_boundaries    *)
(* hold the instruction boundaries of the original and of the relocated    *)
(* code, count the number of instructions processed.                       *)
BoundariesAsDocumented == \A i \in Used : BoundariesExact(i)

(* How far a thread at l is in the function it runs: an original offset.   *)
(* Undefined (-1) elsewhere.                                               *)
Progress(l) ==
  IF l.at = "orig" THEN l.off
  ELSE IF l.at = "tramp" /\ page[l.pg] \in Target
  THEN LET t == page[l.pg]
           S == {k \in 1 .. Len(TrampOffs[t]) : TrampOffs[t][k] = l.off}
       IN IF S # {} THEN OrigOffs[t][CHOOSE k \in S : TRUE]
          ELSE IF l.off = TrampEnd[t] THEN Resume[t] ELSE -1
  ELSE -1

(* freeze() moves a thread between a function and its trampoline without   *)
(* repeating or skipping an instruction, when every table is exact.        *)
MoveKeepsProgress ==
  [][\A th \in Thread :
       Attach(th) /\ (\A i \in Used : BoundariesExact(i))
         => Progress(pc'[th]) = Progress(pc[th])]_vars

(* At most four instructions of t are copied, and a call among them does   *)
(* not return into the bytes the jump overwrites.                          *)
Hookable(t) ==
  /\ Len(OrigOffs[t]) <= OrigLen
  /\ \A o \in CallOffs[t], o2 \in Boundaries(t) :
       IsNext(o2, o, Boundaries(t)) => o2 >= PatchLen[t]

(* No thread is ever sent into the middle of a patch, to an unmapped       *)
(* trampoline or to another function's original, unless one of the four    *)
(* disturbances happened first or a function was not hookable.             *)
FaultNeedsDisturbance ==
  fault \in {"pc", "proto", "trampoline"} =>
    hist # {} \/ \E t \in Target : ~Hookable(t)

(* The API refines the set-valued registry, answers included.              *)
Implements == Reg!RegSpec

(* A thread stopped by freeze() while it held the heap lock.               *)
HolderStopped == \E th \in frozen : pc[th].at = "malloc"

(* A hook request returns, whatever fork and ptrace do.                    *)
HookCompletes == call = "hook" ~> call = "idle" \/ ~Alive

(* Every call returns, unless free() waits for a heap lock that belongs to *)
(* a thread the call itself has stopped.                                   *)
CallCompletes ==
  call # "idle" ~> call = "idle" \/ ~Alive \/ HolderStopped
=============================================================================
