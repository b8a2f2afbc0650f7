------------------------------ MODULE Injector ------------------------------
(***************************************************************************)
(* The injected library in its two builds, inject_dobby.cpp on Dobby and   *)
(* inject_inlinehook.cpp on inlineHook: how it gets hold of its map file,  *)
(* waits for libil2cpp, finds get_text and set_text and hooks them, while  *)
(* the game's threads load libraries and enumerate methods.  Nothing here  *)
(* takes a lock: every global is read and written by whichever thread runs *)
(* a hook.                                                                 *)
(*                                                                         *)
(* An address is an integer: 0 is NULL, libil2cpp is mapped at Base, the   *)
(* get_text and set_text of class c are at fixed offsets in it.            *)
(***************************************************************************)
EXTENDS Integers, FiniteSets

CONSTANTS
  Thread,      \* threads of the game's process
  Main,        \* the one that loads the library and runs JNI_OnLoad
  Class,       \* classes of UnityEngine.UI that have a text property: 1, 2, ...
  Lib,         \* the builds: subset of {"dobby", "inline"}
  FileKind,    \* what the first line of the map file may be
  Base,        \* where libil2cpp is mapped
  MaxHooks     \* bound: hooks listed beyond which no thread calls again

GetOff(c) == 10 * c
SetOff(c) == 10 * c + 5
DlopenAt == 7                     \* dlopen in the linker
MethodsAt == Base + (Base - 1)    \* what il2cpp_class_get_methods branches to

(* The library is smaller than the address it is mapped at, and its text   *)
(* functions are none of the two others that are hooked.                   *)
ASSUME InjectorAssumption ==
  /\ Main \in Thread
  /\ Class \subseteq Nat \ {0}
  /\ 1 \in Class
  /\ Lib \subseteq {"dobby", "inline"}
  /\ FileKind \subseteq {"addresses", "zeros", "getOnly", "noBar"}
  /\ MaxHooks \in Nat
  /\ Base \in Nat /\ Base > DlopenAt
  /\ \A c \in Class : SetOff(c) < Base - 1

Repl == {"dlopen", "methods", "get", "set"}     \* the new_func_ replacements

VARIABLES
  lib,      \* the build
  file,     \* the map file on disk, or "none"; survives the process
  alive,    \* the process runs
  loaded,   \* libil2cpp is mapped
  buffer,   \* the map file in memory, or "none"
  aget,     \* address_get
  aset,     \* address_set
  base,     \* libil2cpp_base
  handle,   \* libil2cpp_handle is not NULL
  got,      \* is_got_get_and_set
  entry,    \* hook entries: <<replacement, address>>
  patched,  \* those whose code is patched
  old,      \* replacement -> what its old_func_ pointer calls, or 0
  pc,       \* thread -> where it is in the library
  tgt,      \* thread -> function_address of the DobbyHook it is in
  cls,      \* thread -> class it enumerates, or 0
  kind,     \* thread -> which method of it: "get" or "set"
  hist      \* what has happened in this process (history)

address == <<aget, aset, base, handle, got>>
dobby == <<entry, patched, old, tgt>>
iter == <<cls, kind>>
vars == <<lib, file, alive, loaded, buffer, aget, aset, base, handle, got, entry,
          patched, old, pc, tgt, cls, kind, hist>>

(* missed: libil2cpp was mapped with no hook to notice it.  opened,        *)
(* reopened: the first and a later call of new_func_dlopen for it.  raced: *)
(* two threads enumerated methods at the same time.                        *)
Event == {"missed", "opened", "reopened", "raced"}

(* A process begins: the game has loaded this library and is about to call *)
(* JNI_OnLoad; libil2cpp may be there already.                             *)
NoOld == [r \in Repl |-> 0]
AtStart == [th \in Thread |-> IF th = Main THEN "read" ELSE "idle"]
None == [th \in Thread |-> 0]
GetFirst == [th \in Thread |-> "get"]

Init ==
  /\ lib \in Lib
  /\ file \in FileKind \cup {"none"}
  /\ alive = TRUE
  /\ loaded \in BOOLEAN
  /\ buffer = "none"
  /\ aget = 0 /\ aset = 0 /\ base = 0
  /\ handle = FALSE /\ got = FALSE
  /\ entry = {} /\ patched = {} /\ old = NoOld /\ tgt = None
  /\ pc = AtStart /\ cls = None /\ kind = GetFirst
  /\ hist = {}

At(th, l) == alive /\ pc[th] = l
Goto(th, l) == pc' = [pc EXCEPT ![th] = l]
Die == alive' = FALSE

(* find_module_by_name: the maps of the process are searched.              *)
FoundBase == IF loaded THEN Base ELSE 0

-----------------------------------------------------------------------------
(* readFile: what is read into memory is removed from the disk.            *)
readFile(th) ==
  /\ At(th, "read") /\ file # "none"
  /\ buffer' = file
  /\ file' = "none"
  /\ Goto(th, "init")
  /\ UNCHANGED <<lib, alive, loaded, address, dobby, iter, hist>>

(* It returns -1 when there is no file, no memory or less than all of it   *)
(* is read; JNI_OnLoad then does no more.                                  *)
readFileFails(th) ==
  /\ At(th, "read")
  /\ Goto(th, "idle")
  /\ UNCHANGED <<lib, file, alive, loaded, buffer, address, dobby, iter, hist>>

(* JNI_OnLoad of the inline build goes straight on to hook_dlopen.         *)
Initialised == IF lib = "dobby" THEN "find" ELSE "dlopen"

(* The two hexadecimal offsets of the first line.                          *)
FirstLine(b) ==
  [get |-> IF b \in {"addresses", "getOnly"} THEN GetOff(1) ELSE 0,
   set |-> IF b = "addresses" THEN SetOff(1) ELSE 0]

(* init_address_from_file; for a line without a bar strlen is given the    *)
(* NULL of strstr.                                                         *)
init_address_from_file(th) ==
  /\ At(th, "init")
  /\ IF buffer = "noBar"
       THEN Die /\ UNCHANGED <<aget, aset, pc>>
       ELSE /\ aget' = FirstLine(buffer).get
            /\ aset' = FirstLine(buffer).set
            /\ Goto(th, Initialised)
            /\ UNCHANGED alive
  /\ UNCHANGED <<lib, file, loaded, buffer, base, handle, got, dobby, iter, hist>>

(* Once the base is known: the addresses given, or the search for them.    *)
ByAddress == IF aget = 0 /\ aset = 0 THEN "methods" ELSE "get"

(* Mutant: JNI_OnLoad does not look whether libil2cpp is mapped.           *)
RouteBlindly(th) ==
  /\ At(th, "find")
  /\ base' = FoundBase
  /\ Goto(th, "dlopen")
  /\ UNCHANGED <<lib, file, alive, loaded, buffer, aget, aset, handle, got, dobby, iter, hist>>

(* JNI_OnLoad, from find_module_by_name on.                                *)
JNI_OnLoad(th) ==
  /\ At(th, "find")
  /\ base' = FoundBase
  /\ Goto(th, IF loaded THEN ByAddress ELSE "dlopen")
  /\ UNCHANGED <<lib, file, alive, loaded, buffer, aget, aset, handle, got, dobby, iter, hist>>

-----------------------------------------------------------------------------
RouteOf == [dlopen |-> "dlopenR", methods |-> "methodsR", get |-> "getR", set |-> "setR"]
CommitOf == [dlopen |-> "dlopenC", methods |-> "methodsC", get |-> "getC", set |-> "setC"]

(* Where a thread goes when the hook of r is done: from get_text on to     *)
(* set_text, from there back to new_func_get_methods or out, which in the  *)
(* inline build is always out of new_func_dlopen.                          *)
Out == IF lib = "dobby" THEN "idle" ELSE "leave"

After(th, r) ==
  CASE r = "get" -> "set"
    [] r = "set" -> IF cls[th] = 0 THEN Out ELSE "got"
    [] r = "methods" -> Out
    [] r = "dlopen" -> "idle"

(* What the relocated bytes of the function at a do: where r had already   *)
(* patched it, they jump to r again.                                       *)
SelfCall == -1
Original(r, a) == IF <<r, a>> \in patched THEN SelfCall ELSE a

(* DobbyHook begins: a second hook of the same function by the same        *)
(* replacement is FATAL, which aborts where asserts are compiled in and    *)
(* returns RS_FAILED where they are not.                                   *)
DobbyHook(th, r, a) ==
  IF <<r, a>> \in entry
    THEN /\ \/ Die /\ UNCHANGED pc
            \/ Goto(th, After(th, r)) /\ UNCHANGED alive
         /\ UNCHANGED tgt
    ELSE /\ tgt' = [tgt EXCEPT ![th] = a]
         /\ Goto(th, RouteOf[r])
         /\ UNCHANGED alive

(* registerInlineHook begins: a function that is registered is not         *)
(* registered again, nor is one the maps do not show as executable, which  *)
(* an address that was taken for an offset may or may not be; whatever it  *)
(* returns, inlineHook is called next.                                     *)
Known(r, a) ==
  CASE r = "dlopen" -> a = DlopenAt
    [] r = "methods" -> a = MethodsAt
    [] r = "get" -> a - Base \in {GetOff(c) : c \in Class}
    [] r = "set" -> a - Base \in {SetOff(c) : c \in Class}

registerInlineHook(th, r, a) ==
  /\ tgt' = [tgt EXCEPT ![th] = a]
  /\ \/ (\A h \in entry : h[2] # a) /\ Goto(th, RouteOf[r])
     \/ ((\E h \in entry : h[2] = a) \/ ~Known(r, a)) /\ Goto(th, CommitOf[r])
  /\ UNCHANGED alive

Hook(th, r, a) ==
  IF lib = "dobby" THEN DobbyHook(th, r, a) ELSE registerInlineHook(th, r, a)

(* Mutant: the pointer to the original is left for later.                  *)
DispatchLate(th, r) ==
  /\ lib = "dobby" /\ At(th, RouteOf[r])
  /\ entry' = entry \cup {<<r, tgt[th]>>}
  /\ Goto(th, CommitOf[r])
  /\ UNCHANGED <<lib, file, alive, loaded, buffer, address, patched, old, tgt, iter, hist>>

(* Mutant: the entry is not added to the interceptor's list.               *)
DispatchUnlisted(th, r) ==
  /\ lib = "dobby" /\ At(th, RouteOf[r])
  /\ old' = [old EXCEPT ![r] = Original(r, tgt[th])]
  /\ Goto(th, CommitOf[r])
  /\ UNCHANGED <<lib, file, alive, loaded, buffer, address, patched, entry, tgt, iter, hist>>

(* ... its route is dispatched, the entry listed, and the pointer to the   *)
(* original set.                                                           *)
Dispatch(th, r) ==
  /\ lib = "dobby" /\ At(th, RouteOf[r])
  /\ entry' = entry \cup {<<r, tgt[th]>>}
  /\ old' = [old EXCEPT ![r] = Original(r, tgt[th])]
  /\ Goto(th, CommitOf[r])
  /\ UNCHANGED <<lib, file, alive, loaded, buffer, address, patched, tgt, iter, hist>>

(* ... and its route->Commit(), the patch of the entry.                    *)
Commit(th, r) ==
  /\ lib = "dobby" /\ At(th, CommitOf[r])
  /\ patched' = patched \cup {<<r, tgt[th]>>}
  /\ tgt' = [tgt EXCEPT ![th] = 0]
  /\ Goto(th, After(th, r))
  /\ UNCHANGED <<lib, file, alive, loaded, buffer, address, entry, old, iter, hist>>

(* registerInlineHook adds the item ...                                    *)
Registered(th, r) ==
  /\ lib = "inline" /\ At(th, RouteOf[r])
  /\ entry' = entry \cup {<<r, tgt[th]>>}
  /\ Goto(th, CommitOf[r])
  /\ UNCHANGED <<lib, file, alive, loaded, buffer, address, patched, old, tgt, iter, hist>>

(* ... and inlineHook, with the other threads stopped, sets the pointer to *)
(* the original of an item that is registered and patches the entry; it    *)
(* leaves one that is hooked.                                              *)
inlineHook(th, r) ==
  /\ lib = "inline" /\ At(th, CommitOf[r])
  /\ LET item == {h \in entry : h[2] = tgt[th]} IN
     \/ /\ item = {} \/ item \cap patched # {}
        /\ UNCHANGED <<old, patched>>
     \/ /\ item \cap patched = {}
        /\ \E h \in item : /\ old' = [old EXCEPT ![h[1]] = tgt[th]]
                           /\ patched' = patched \cup {h}
  /\ tgt' = [tgt EXCEPT ![th] = 0]
  /\ Goto(th, After(th, r))
  /\ UNCHANGED <<lib, file, alive, loaded, buffer, address, entry, iter, hist>>

hook_dlopen(th) ==
  /\ lib = "dobby" /\ At(th, "dlopen")
  /\ DobbyHook(th, "dlopen", DlopenAt)
  /\ UNCHANGED <<lib, file, loaded, buffer, address, entry, patched, old, iter, hist>>

(* The inline build comes here without a look at what is mapped.           *)
hook_dlopen_inline(th) ==
  /\ lib = "inline" /\ At(th, "dlopen")
  /\ registerInlineHook(th, "dlopen", DlopenAt)
  /\ hist' = IF loaded THEN hist \cup {"missed"} ELSE hist
  /\ UNCHANGED <<lib, file, loaded, buffer, address, entry, patched, old, iter>>

(* hook_get_methods: dlsym finds nothing through a NULL handle, and its    *)
(* result is read as an instruction.                                       *)
hook_get_methods(th) ==
  /\ lib = "dobby" /\ At(th, "methods")
  /\ IF handle THEN DobbyHook(th, "methods", MethodsAt)
               ELSE Die /\ UNCHANGED <<pc, tgt>>
  /\ UNCHANGED <<lib, file, loaded, buffer, address, entry, patched, old, iter, hist>>

hook_get_methods_inline(th) ==
  /\ lib = "inline" /\ At(th, "methods")
  /\ IF handle THEN registerInlineHook(th, "methods", MethodsAt)
               ELSE Die /\ UNCHANGED <<pc, tgt>>
  /\ UNCHANGED <<lib, file, loaded, buffer, address, entry, patched, old, iter, hist>>

(* hook_get_set, its two halves: an address of 0 is passed over, and       *)
(* without a base both are.                                                *)
hook_get(th) ==
  /\ At(th, "get")
  /\ IF base # 0 /\ aget # 0
       THEN Hook(th, "get", base + aget)
       ELSE Goto(th, After(th, "get")) /\ UNCHANGED <<alive, tgt>>
  /\ UNCHANGED <<lib, file, loaded, buffer, address, entry, patched, old, iter, hist>>

hook_set(th) ==
  /\ At(th, "set")
  /\ IF base # 0 /\ aset # 0
       THEN Hook(th, "set", base + aset)
       ELSE Goto(th, After(th, "set")) /\ UNCHANGED <<alive, tgt>>
  /\ UNCHANGED <<lib, file, loaded, buffer, address, entry, patched, old, iter, hist>>

-----------------------------------------------------------------------------
DlopenHooked == <<"dlopen", DlopenAt>> \in patched
MethodsHooked == <<"methods", MethodsAt>> \in patched

(* Bound: every wild hook adds an entry, and behaviours with more than     *)
(* MaxHooks of them are not followed.                                      *)
MayCall == Cardinality(entry) <= MaxHooks

(* A thread of the game loads libil2cpp through a dlopen that is not       *)
(* hooked.                                                                 *)
PlainOpen(th) ==
  /\ At(th, "idle") /\ ~DlopenHooked
  /\ loaded' = TRUE
  /\ hist' = IF pc[Main] \in {"dlopen", "dlopenR", "dlopenC"} THEN hist \cup {"missed"} ELSE hist
  /\ UNCHANGED <<lib, file, alive, buffer, address, dobby, pc, iter>>

(* new_func_dlopen, called for libil2cpp: the load succeeds or fails, then *)
(* handle and base are stored.                                             *)
new_func_dlopen(th) ==
  /\ At(th, "idle") /\ DlopenHooked /\ MayCall
  /\ \E ok \in {TRUE, loaded} :
       /\ loaded' = ok
       /\ handle' = ok
       /\ base' = IF ok THEN Base ELSE 0
  /\ hist' = hist \cup {IF "opened" \in hist THEN "reopened" ELSE "opened"}
  /\ cls' = [cls EXCEPT ![th] = 0]
  /\ Goto(th, "opened")
  /\ UNCHANGED <<lib, file, alive, buffer, aget, aset, got, dobby, kind>>

(* new_func_set of the inline build, at its 500th call.                    *)
UnhookDlopen(th) ==
  /\ lib = "inline" /\ At(th, "idle") /\ DlopenHooked
  /\ \E h \in patched : h[1] = "set"
  /\ entry' = entry \ {<<"dlopen", DlopenAt>>}
  /\ patched' = patched \ {<<"dlopen", DlopenAt>>}
  /\ UNCHANGED <<lib, file, alive, loaded, buffer, address, old, tgt, pc, iter, hist>>

(* ... and the addresses are looked at.                                    *)
OpenRouted(th) ==
  /\ At(th, "opened")
  /\ Goto(th, ByAddress)
  /\ UNCHANGED <<lib, file, alive, loaded, buffer, address, dobby, iter, hist>>

(* new_func_dlopen returns what a second call of the original gives; the   *)
(* trampoline it goes through went with the hook.                          *)
Leave(th) ==
  /\ At(th, "leave")
  /\ IF DlopenHooked THEN Goto(th, "idle") /\ UNCHANGED alive
                     ELSE Die /\ UNCHANGED pc
  /\ UNCHANGED <<lib, file, loaded, buffer, address, dobby, iter, hist>>

-----------------------------------------------------------------------------
(* A thread of the game begins to enumerate the methods of a class.        *)
Enumerate(th, c) ==
  /\ At(th, "idle") /\ MethodsHooked /\ MayCall
  /\ cls' = [cls EXCEPT ![th] = c]
  /\ kind' = [kind EXCEPT ![th] = "get"]
  /\ Goto(th, "fetch")
  /\ hist' = IF \E u \in Thread : cls[u] # 0 THEN hist \cup {"raced"} ELSE hist
  /\ UNCHANGED <<lib, file, alive, loaded, buffer, address, dobby>>

(* The next method is asked for: set_text comes after get_text.            *)
Advance(th) ==
  IF kind[th] = "get"
    THEN kind' = [kind EXCEPT ![th] = "set"] /\ Goto(th, "fetch") /\ UNCHANGED cls
    ELSE cls' = [cls EXCEPT ![th] = 0] /\ Goto(th, "idle") /\ UNCHANGED kind

(* new_func_get_methods returns a text method: its address, not an offset, *)
(* is stored, whether or not the pair was found before.                    *)
new_func_get_methods(th) ==
  /\ At(th, "fetch")
  /\ aget' = IF kind[th] = "get" THEN Base + GetOff(cls[th]) ELSE aget
  /\ aset' = IF kind[th] = "set" THEN Base + SetOff(cls[th]) ELSE aset
  /\ Goto(th, "test")
  /\ UNCHANGED <<lib, file, alive, loaded, buffer, base, handle, got, dobby, iter, hist>>

(* Mutant: the flag is not tested.                                         *)
TestIgnoresGot(th) ==
  /\ At(th, "test")
  /\ IF aget # 0 /\ aset # 0
       THEN Goto(th, "subGet") /\ UNCHANGED iter
       ELSE Advance(th)
  /\ UNCHANGED <<lib, file, alive, loaded, buffer, address, dobby, hist>>

TestPair(th) ==
  /\ At(th, "test")
  /\ IF aget # 0 /\ aset # 0 /\ ~got
       THEN Goto(th, "subGet") /\ UNCHANGED iter
       ELSE Advance(th)
  /\ UNCHANGED <<lib, file, alive, loaded, buffer, address, dobby, hist>>

(* Mutant: only the address of set_text is made an offset.                 *)
NoSubtract(th) ==
  /\ At(th, "subGet")
  /\ Goto(th, "subSet")
  /\ UNCHANGED <<lib, file, alive, loaded, buffer, address, dobby, iter, hist>>

SubtractGet(th) ==
  /\ At(th, "subGet")
  /\ aget' = aget - base
  /\ Goto(th, "subSet")
  /\ UNCHANGED <<lib, file, alive, loaded, buffer, aset, base, handle, got, dobby, iter, hist>>

SubtractSet(th) ==
  /\ At(th, "subSet")
  /\ aset' = aset - base
  /\ Goto(th, "get")
  /\ UNCHANGED <<lib, file, alive, loaded, buffer, aget, base, handle, got, dobby, iter, hist>>

MarkGot(th) ==
  /\ At(th, "got")
  /\ got' = TRUE
  /\ Advance(th)
  /\ UNCHANGED <<lib, file, alive, loaded, buffer, aget, aset, base, handle, dobby, hist>>

-----------------------------------------------------------------------------
(* The map file is put in place again by whoever provides it.              *)
WriteFile ==
  /\ file = "none"
  /\ file' \in FileKind
  /\ UNCHANGED <<lib, alive, loaded, buffer, address, dobby, pc, iter, hist>>

(* The process died, or the system ended it at whatever point it was; the  *)
(* game is started again.                                                  *)
Restart ==
  /\ alive' = TRUE
  /\ loaded' \in BOOLEAN
  /\ buffer' = "none"
  /\ aget' = 0 /\ aset' = 0 /\ base' = 0
  /\ handle' = FALSE /\ got' = FALSE
  /\ entry' = {} /\ patched' = {} /\ old' = NoOld /\ tgt' = None
  /\ pc' = AtStart /\ cls' = None /\ kind' = GetFirst
  /\ hist' = {}
  /\ UNCHANGED <<lib, file>>

(* What a thread does once it is in the library.                           *)
Step(th) ==
  \/ readFile(th) \/ readFileFails(th) \/ init_address_from_file(th) \/ JNI_OnLoad(th)
  \/ hook_dlopen(th) \/ hook_dlopen_inline(th)
  \/ hook_get_methods(th) \/ hook_get_methods_inline(th) \/ hook_get(th) \/ hook_set(th)
  \/ \E r \in Repl : Dispatch(th, r) \/ Commit(th, r) \/ Registered(th, r) \/ inlineHook(th, r)
  \/ OpenRouted(th) \/ Leave(th)
  \/ new_func_get_methods(th) \/ TestPair(th)
  \/ SubtractGet(th) \/ SubtractSet(th) \/ MarkGot(th)

Next ==
  \/ \E th \in Thread :
       \/ Step(th)
       \/ PlainOpen(th)
       \/ new_func_dlopen(th)
       \/ UnhookDlopen(th)
       \/ \E c \in Class : Enumerate(th, c)
  \/ WriteFile
  \/ Restart

Spec == Init /\ [][Next]_vars

(* A thread inside the library keeps running; whether the game calls it,   *)
(* and whether the process is ended or started, is not up to the library.  *)
FairSpec == Spec /\ \A th \in Thread : WF_vars(Step(th))

-----------------------------------------------------------------------------
Label == {"read", "init", "find", "idle", "opened", "fetch", "test", "dlopen",
          "dlopenR", "dlopenC", "methods", "methodsR", "methodsC", "subGet",
          "subSet", "get", "getR", "getC", "set", "setR", "setC", "got", "leave"}

TypeOK ==
  /\ lib \in Lib
  /\ file \in FileKind \cup {"none"} /\ buffer \in FileKind \cup {"none"}
  /\ alive \in BOOLEAN /\ loaded \in BOOLEAN /\ handle \in BOOLEAN /\ got \in BOOLEAN
  /\ aget \in Int /\ aset \in Int /\ base \in {0, Base}
  /\ entry \subseteq Repl \X Int /\ patched \subseteq entry
  /\ old \in [Repl -> Int]
  /\ pc \in [Thread -> Label] /\ tgt \in [Thread -> Int]
  /\ cls \in [Thread -> Class \cup {0}] /\ kind \in [Thread -> {"get", "set"}]
  /\ hist \subseteq Event

(* A replacement that a thread can reach has everything it uses: the map   *)
(* in memory, and for the call of the original a pointer that is not NULL. *)
ReplacementReady ==
  \A h \in patched : old[h[1]] # 0 /\ buffer # "none"

GetAddr == {Base + GetOff(c) : c \in Class}
SetAddr == {Base + SetOff(c) : c \in Class}
Disturbed == hist \cap {"reopened", "raced"} # {}

(* The text hooks are placed on get_text and set_text and nowhere else     *)
(* unless libil2cpp was opened twice or two threads enumerated methods at  *)
(* once: only then is an address taken for an offset, or the other way.    *)
WildHookNeedsDisturbance ==
  \/ Disturbed
  \/ \A h \in entry : /\ h[1] = "get" => h[2] \in GetAddr
                      /\ h[1] = "set" => h[2] \in SetAddr

(* Undisturbed, each replacement in place calls the original of the one    *)
(* function it replaces, and the two text functions belong to one class.   *)
OneClassHooked ==
  \/ Disturbed
  \/ /\ \A h \in patched : old[h[1]] = h[2]
     /\ \A g, s \in entry : g[1] = "get" /\ s[1] = "set" => s[2] = g[2] + 5

Routed == {h \in patched : h[1] \in {"methods", "get", "set"}} # {}

(* Once libil2cpp is mapped and the map file was read, a hook on it comes, *)
(* unless the process ends or libil2cpp was mapped in the gap between      *)
(* JNI_OnLoad's look, which the inline build does without, and its hook of *)
(* dlopen.                                                                 *)
LoadedIsHooked ==
  (alive /\ loaded /\ buffer # "none")
    ~> (~alive \/ buffer = "none" \/ Routed \/ "missed" \in hist)

(* What the comments in JNI_OnLoad say: where libil2cpp is mapped and the  *)
(* first line gives no address, the methods are found dynamically; the     *)
(* process does not die before a hook is in place.                         *)
DynamicLookup == loaded /\ buffer = "zeros" /\ entry = {} => alive
=============================================================================
