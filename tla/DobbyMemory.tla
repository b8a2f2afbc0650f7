---------------------------- MODULE DobbyMemory ----------------------------
(***************************************************************************)
(* Where DobbyHook gets the memory for its code and how it writes it:      *)
(* MemoryArena, NearMemoryArena, the trampolines of each architecture,     *)
(* CodePatch and the near-branch plugin, as threads that hook functions    *)
(* and instrument instructions run through them.  None of it takes a lock. *)
(*                                                                         *)
(* Memory is Pages pages of PageSize bytes, each a region of               *)
(* /proc/self/maps.  What is written is kept as the list of writes; the    *)
(* library that is hooked lies in Text.                                    *)
(***************************************************************************)
EXTENDS Integers, Sequences, FiniteSets, FiniteSetsExt, SequencesExt

CONSTANTS
  Thread,
  Arch,        \* subset of {"arm", "arm64", "x64", "ia32"}
  PageSize, Pages,
  Text,        \* the pages of the hooked library, readable and executable
  Lows,        \* sets of pages below it that something else may have mapped,
  Data,        \* read-only those of Data, the others executable too
  Zeros,       \* the bytes of Text and Data that are zero
  Start,       \* hooked functions: name -> address
  Instrumented,\* those given to DobbyInstrument instead, each with one handler
  Close,       \* those whose replacement a B reaches
  Paged,       \* those whose replacement adrp reaches
  Unaligned,   \* those that are Thumb code and not on a word boundary
  Reach,       \* ARM64_B_XXX_RANGE
  NormalSize, NearSize, ForwardSize, RelocSize,  \* lengths of the code written
  ClosureSize, BridgeSize,
  MaxHooked    \* bound: calls overlap, or follow ones that did, while at most
               \* so many functions are hooked

Fn == DOMAIN Start
MemoryAssumption ==
  /\ Arch \subseteq {"arm", "arm64", "x64", "ia32"}
  /\ PageSize \in Nat \ {0} /\ Pages \in Nat /\ Reach \in Nat
  /\ Start \in [Fn -> Nat] /\ "none" \notin Fn
  /\ Text \subseteq 0..Pages - 1 /\ UNION Lows \subseteq 0..Pages - 1 /\ Close \subseteq Paged
  /\ Instrumented \cup Paged \cup Unaligned \subseteq Fn
  /\ \A f \in Fn : Start[f] \div PageSize \in Text
ASSUME MemoryAssumption

(* Code fits into a page with the four bytes FinalizeFromTurboAssember     *)
(* adds, a near trampoline is not longer than the longer normal one, and a *)
(* forward trampoline is more than a byte.                                 *)
ASSUME SizeAssumption ==
  /\ NormalSize \in Nat /\ NearSize \in 0..NormalSize + 1 /\ ForwardSize \in Nat \ 0..1
  /\ \A n \in {RelocSize, ClosureSize, BridgeSize} : n \in Nat /\ n + 4 < PageSize

(* No function begins inside what the patch of another overwrites.         *)
ASSUME ApartAssumption ==
  \A f, g \in Fn : f # g =>
    Start[f] + NormalSize + 1 <= Start[g] \/ Start[g] + NormalSize + 1 <= Start[f]

VARIABLES
  arch,
  near,     \* ExtraInternalPlugin::near_branch_trampoline is set
  prot,     \* page -> "none" (free), "r", "rx", "rwx"
  pages,    \* page_chunks of MemoryArena, [base, cursor] in order
  nears,    \* page_chunks of NearMemoryArena
  writes,   \* what was written, in order: [at, len, by, what]
  entries,  \* the interceptor's hook entries
  pc,       \* thread -> where it is
  job,      \* thread -> what it is doing
  fault,    \* "none", or what ended the process
  odd       \* what happened that the code does not foresee: "overlap", two
            \* calls of Dobby at once; "blind", a page mapped over another;
            \* "cave", a run of zeros taken for a chunk

vars == <<arch, near, prot, pages, nears, writes, entries, pc, job, fault, odd>>

Page(a) == a \div PageSize
Span(a, n) == a .. (a + n - 1)

(* A job: the function, the length of its trampoline, the code to write    *)
(* (where, how long), the arena page it comes from, and what it is for.    *)
NoJob == [f |-> "none", size |-> 0, at |-> 0, len |-> 0, page |-> 0, next |-> "none"]

Init ==
  /\ arch \in Arch
  /\ near \in BOOLEAN
  /\ \E low \in Lows :
       prot = [p \in 0..Pages - 1 |->
                 IF p \in low \cap Data THEN "r" ELSE IF p \in Text \cup low THEN "rx" ELSE "none"]
  /\ pages = <<>> /\ nears = <<>> /\ writes = <<>> /\ entries = {}
  /\ pc = [t \in Thread |-> "idle"]
  /\ job = [t \in Thread |-> NoJob]
  /\ fault = "none" /\ odd = {}

Go(t, l) == pc' = [pc EXCEPT ![t] = l]
Fault(why) == fault' = why
Alive == fault = "none"
Memory == <<prot, pages, nears, writes>>
Rest == <<arch, near, entries>>
Busy == \E u \in Thread : pc[u] # "idle"
MayOverlap == Busy \/ "overlap" \in odd => Cardinality(entries) <= MaxHooked
Noting(what, if) == odd' = IF if THEN odd \cup {what} ELSE odd

-----------------------------------------------------------------------------
(* DobbyHook and DobbyInstrument: a second call for a function, with the   *)
(* replacement or handler each function has here, is FATAL.  To instrument *)
(* is to hook with a closure trampoline as the replacement, and before the *)
(* first of those comes the bridge they all share.                         *)
FindHookEntry(f) == f \in entries
Bridge == \E k \in 1..Len(writes) : writes[k].what = "bridge"

Begin(t, f, l, j) ==
  /\ Alive /\ pc[t] = "idle"
  /\ MayOverlap
  /\ IF FindHookEntry(f) THEN Fault("twice") /\ UNCHANGED <<pc, job, odd>>
     ELSE /\ Go(t, l) /\ job' = [job EXCEPT ![t] = j]
          /\ Noting("overlap", Busy) /\ UNCHANGED fault
  /\ UNCHANGED Rest /\ UNCHANGED Memory

DobbyHook(t, f) ==
  f \notin Instrumented /\ Begin(t, f, "gen", [NoJob EXCEPT !.f = f])

DobbyInstrument(t, f) ==
  /\ f \in Instrumented
  /\ Begin(t, f, "pick", [NoJob EXCEPT !.f = f,
       !.len = IF Bridge THEN ClosureSize ELSE BridgeSize,
       !.next = IF Bridge THEN "closure" ELSE "bridge"])

(* dobby_enable_near_branch_trampoline; dobby_disable_... deletes the      *)
(* plugin, which a thread may hold.                                        *)
Enable ==
  /\ Alive /\ MayOverlap /\ ~near /\ near' = TRUE
  /\ UNCHANGED <<arch, entries, pc, job, fault, odd>> /\ UNCHANGED Memory

Disable ==
  /\ Alive /\ MayOverlap /\ near /\ near' = FALSE
  /\ Noting("overlap", Busy)
  /\ pc' = [t \in Thread |-> IF pc[t] = "plugin" THEN "dangling" ELSE pc[t]]
  /\ UNCHANGED <<arch, entries, job, fault>> /\ UNCHANGED Memory

(* From a trampoline of this size on to the relocated code.                *)
GenerateRelocatedCode(t, n) ==
  /\ Go(t, "pick")
  /\ job' = [job EXCEPT ![t].size = n, ![t].len = RelocSize, ![t].next = "add"]

(* A chunk near the function, for arm64's forward trampoline or the        *)
(* indirect stub of x64 and ia32.                                          *)
AllocateNear(t) ==
  Go(t, "pickNear") /\ job' = [job EXCEPT ![t].len = ForwardSize, ![t].next = "forward"]
AllocIndirectStub(t) == AllocateNear(t)

(* GenerateNormalTrampolineBuffer of each architecture: Thumb code that    *)
(* is not aligned gets a nop first; arm64 has a shorter form for what      *)
(* adrp reaches; the others need memory for the address.                   *)
X86 == arch \in {"x64", "ia32"}
NormalArm(t) == GenerateRelocatedCode(t, NormalSize + IF job[t].f \in Unaligned THEN 1 ELSE 0)
NormalArm64(t) == GenerateRelocatedCode(t, NormalSize + IF job[t].f \in Paged THEN 0 ELSE 1)
NormalX64(t) == AllocIndirectStub(t)
NormalIa32(t) == AllocIndirectStub(t)

GenerateNormalTrampolineBuffer(t) ==
  CASE arch = "arm" -> NormalArm(t)
    [] arch = "arm64" -> NormalArm64(t)
    [] arch = "x64" -> NormalX64(t)
    [] arch = "ia32" -> NormalIa32(t)

GenerateTrampolineBuffer(t) ==
  /\ Alive /\ pc[t] = "gen"
  /\ \/ near /\ Go(t, "plugin") /\ UNCHANGED job
     \/ ~near /\ GenerateNormalTrampolineBuffer(t)
  /\ UNCHANGED <<fault, odd>> /\ UNCHANGED Memory /\ UNCHANGED Rest

(* GenerateNearTrampolineBuffer through the pointer read before; only      *)
(* arm64 has one: B, or B to a forward trampoline.                         *)
GenerateNearTrampolineBuffer(t) ==
  /\ Alive /\ pc[t] \in {"plugin", "dangling"}
  /\ \/ /\ UNCHANGED fault
        /\ IF arch # "arm64" THEN GenerateNormalTrampolineBuffer(t)
           ELSE IF job[t].f \in Close THEN GenerateRelocatedCode(t, NearSize)
           ELSE AllocateNear(t)
     \/ pc[t] = "dangling" /\ Fault("plugin") /\ UNCHANGED <<pc, job>>
  /\ UNCHANGED odd /\ UNCHANGED Memory /\ UNCHANGED Rest

-----------------------------------------------------------------------------
(* Mutant: room up to and past the end of the page.                        *)
RoomyPastEnd(q, n) == q.cursor < q.base + PageSize

(* A page of an arena with room for n bytes, and one to spare.             *)
Roomy(q, n) == q.cursor + n < q.base + PageSize
Lowest(S) == IF S = {} THEN 0 ELSE Min(S)

Free == {p \in 0..Pages - 1 : prot[p] = "none"}
NewPage(p) == [base |-> p * PageSize, cursor |-> p * PageSize]

(* FinalizeFromTurboAssember: on arm and arm64 a chunk for code is four    *)
(* bytes longer than the code.                                             *)
ChunkSize(j) == IF j.next # "forward" /\ ~X86 THEN j.len + 4 ELSE j.len

(* MemoryArena::AllocateChunk: the first page with room, or a new one,     *)
(* anywhere; when mmap fails the caller reads through NULL.                *)
AllocateChunk(t) ==
  /\ Alive /\ pc[t] = "pick"
  /\ LET i == Lowest({k \in 1..Len(pages) : Roomy(pages[k], ChunkSize(job[t]))})
     IN  \/ /\ i # 0 /\ job' = [job EXCEPT ![t].page = i]
           /\ Go(t, "read") /\ UNCHANGED <<prot, pages, fault>>
         \/ i = 0 /\ Fault("oom") /\ UNCHANGED <<prot, pages, job, pc>>
         \/ /\ i = 0
            /\ \E p \in Free :
                 /\ prot' = [prot EXCEPT ![p] = "rx"]
                 /\ pages' = Append(pages, NewPage(p))
            /\ job' = [job EXCEPT ![t].page = Len(pages) + 1]
            /\ UNCHANGED fault /\ Go(t, "read")
  /\ UNCHANGED <<nears, writes, odd>> /\ UNCHANGED Rest

(* chunk->address = page->page_cursor, in both arenas ...                  *)
ReadCursor(t) ==
  /\ Alive /\ pc[t] \in {"read", "readNear"}
  /\ job' = [job EXCEPT ![t].at = (IF pc[t] = "read" THEN pages ELSE nears)[job[t].page].cursor]
  /\ Go(t, IF pc[t] = "read" THEN "bump" ELSE "bumpNear")
  /\ UNCHANGED <<fault, odd>> /\ UNCHANGED Memory /\ UNCHANGED Rest

(* Mutant: the cursor moves by one.                                        *)
AfterShort(c, n) == c + 1

(* ... page->page_cursor += inSize.                                        *)
After(c, n) == c + n

BumpCursor(t) ==
  /\ Alive /\ pc[t] \in {"bump", "bumpNear"}
  /\ LET past(qs) == [qs EXCEPT ![job[t].page].cursor = After(@, ChunkSize(job[t]))]
     IN  \/ pc[t] = "bump" /\ pages' = past(pages) /\ UNCHANGED nears
         \/ pc[t] = "bumpNear" /\ nears' = past(nears) /\ UNCHANGED pages
  /\ Go(t, "unprotect")
  /\ UNCHANGED <<job, fault, prot, writes, odd>> /\ UNCHANGED Rest

-----------------------------------------------------------------------------
(* GetProcessMemoryLayout on Linux: the mapped regions, sorted by falling  *)
(* address, the last line of the file read twice.                          *)
Descending(S) ==
  CHOOSE s \in [1..Cardinality(S) -> S] :
    \A i, j \in 1..Cardinality(S) : i < j => s[i] > s[j]
Layout == LET down == Descending(0..(Pages - 1) \ Free) IN <<Head(down)>> \o down

(* The range of a search is an int: the 2 GB of x64 and ia32 are -2 GB.    *)
IntRange == IF X86 THEN -Reach ELSE Reach
MinPage(pos) == Page(pos - IntRange) + 1
MaxPage(pos) == Page(pos + IntRange) - 1

(* search_near_blank_page: a page before a region inside the range with a  *)
(* gap before it, or after one; when mmap refuses it the search goes on,   *)
(* and looks before a region only while it has tried no page but the       *)
(* lowest in range.  What follows the last region is beyond the vector:    *)
(* beyond is what it reads as.                                             *)
InRange(k, pos) == Layout[k] + 1 < MaxPage(pos) /\ Layout[k] >= MinPage(pos)
SpecialBlank(k) == k # 1 /\ Layout[k] > Layout[k - 1] + 1
SpecialPage(k, pos) == Max({MinPage(pos), Layout[k - 1] + 1})
RightBlank(k, beyond) ==
  Layout[k] + 1 < (IF k < Len(Layout) THEN Layout[k + 1] ELSE beyond)
AssumedOther(k, pos, beyond) ==
  \E j \in 1..k - 1 :
    InRange(j, pos) /\ (RightBlank(j, beyond) \/ (SpecialBlank(j) /\ SpecialPage(j, pos) # MinPage(pos)))
search_near_blank_page(pos, beyond) ==
  LET near_regions == {k \in 1..Len(Layout) : InRange(k, pos)}
  IN  {SpecialPage(k, pos) :
         k \in {j \in near_regions : SpecialBlank(j) /\ ~AssumedOther(j, pos, beyond)}}
        \cup {Layout[k] + 1 : k \in {j \in near_regions : RightBlank(j, beyond)}}

(* search_near_blank_memory_chunk: a run of zeros in a region inside the   *)
(* range that is readable, executable or not, and not writable; on arm and *)
(* arm64 three bytes longer for each region looked at, but those three are *)
(* compared with what lies behind the buffer, and the chunk begins past    *)
(* the run's next multiple of 4.                                           *)
Written == UNION {Span(writes[k].at, writes[k].len) : k \in 1..Len(writes)}
Blank == (Zeros \cup UNION {Span(q.base, PageSize) : q \in ToSet(pages) \cup ToSet(nears)}) \ Written
Searched(pos) ==
  LET regions == Layout
  IN  {k \in 1..Len(regions) : /\ prot[regions[k]] \in {"r", "rx"}
                              /\ regions[k] + 1 <= MaxPage(pos) /\ regions[k] >= MinPage(pos)}
search_near_blank_memory_chunk(pos, n) ==
  LET regions == Layout  searched == Searched(pos)
  IN  {a + 4 - (a % 4) : a \in UNION {
         LET longer == n + 3 * Cardinality(searched \cap 1..k)
         IN  {b \in Span(regions[k] * PageSize, PageSize - longer + 1) :
                Span(b, longer - 3) \subseteq Blank} : k \in searched}}

Reachable(pos, c) == c - pos < Reach /\ pos - c < Reach

(* NearMemoryArena::AllocateChunk: a page of its own with room and in      *)
(* reach; a blank page, mapped with MAP_FIXED and executable though listed *)
(* as writable, and the search once more; a run of zeros, which nothing    *)
(* reserves; NULL, for which arm64 takes the normal trampoline and x64     *)
(* and ia32 write through it.                                              *)
NearRoom(t) ==
  Lowest({k \in 1..Len(nears) : Roomy(nears[k], job[t].len) /\ Reachable(Start[job[t].f], nears[k].cursor)})

NearFromPage(t) ==
  /\ Alive /\ pc[t] = "pickNear" /\ NearRoom(t) # 0
  /\ job' = [job EXCEPT ![t].page = NearRoom(t)] /\ Go(t, "readNear")
  /\ UNCHANGED <<fault, odd>> /\ UNCHANGED Memory /\ UNCHANGED Rest

NearMapPage(t) ==
  /\ Alive /\ pc[t] = "pickNear" /\ NearRoom(t) = 0
  /\ \E beyond \in {0, Pages} : \E p \in search_near_blank_page(Start[job[t].f], beyond) :
       /\ Noting("blind", prot[p] # "none")
       /\ prot' = [prot EXCEPT ![p] = "rx"]
       /\ writes' = Append(writes, [at |-> p * PageSize, len |-> PageSize, by |-> "none", what |-> "map"])
       /\ nears' = Append(nears, NewPage(p))
  /\ UNCHANGED <<pages, pc, job, fault>> /\ UNCHANGED Rest

(* No blank page, or mmap refuses it.  Whether a run is found depends on   *)
(* the bytes behind the buffer: NULL is possible too.                      *)
NearFromCave(t) ==
  /\ Alive /\ pc[t] = "pickNear" /\ NearRoom(t) = 0
  /\ \E a \in search_near_blank_memory_chunk(Start[job[t].f], job[t].len) :
       job' = [job EXCEPT ![t].at = a]
  /\ Noting("cave", TRUE) /\ Go(t, "unprotect")
  /\ UNCHANGED fault /\ UNCHANGED Memory /\ UNCHANGED Rest

NearNotFound(t) ==
  /\ Alive /\ pc[t] = "pickNear" /\ NearRoom(t) = 0
  /\ \/ arch = "arm64" /\ NormalArm64(t) /\ UNCHANGED fault
     \/ X86 /\ Fault("stub") /\ UNCHANGED <<job, pc>>
  /\ UNCHANGED odd /\ UNCHANGED Memory /\ UNCHANGED Rest

-----------------------------------------------------------------------------
(* CodePatch: one page made writable, the bytes copied, the page made      *)
(* executable again.                                                       *)
Unprotect(t) ==
  /\ Alive /\ pc[t] = "unprotect"
  /\ prot' = [prot EXCEPT ![Page(job[t].at)] = "rwx"]
  /\ Go(t, "copy")
  /\ UNCHANGED <<pages, nears, writes, odd, job, fault>> /\ UNCHANGED Rest

Crosses(a, n) == Page(a) # Page(a + n - 1)

Copy(t) ==
  /\ Alive /\ pc[t] = "copy"
  /\ LET j == job[t]
     IN  IF \A b \in Span(j.at, j.len) : Page(b) < Pages /\ prot[Page(b)] = "rwx"
           THEN /\ writes' = Append(writes, [at |-> j.at, len |-> j.len, by |-> j.f, what |-> j.next])
                /\ Go(t, "protect") /\ UNCHANGED fault
           ELSE Fault(IF Crosses(j.at, j.len) THEN "crosses" ELSE "patch") /\ UNCHANGED <<writes, pc>>
  /\ UNCHANGED <<prot, pages, nears, odd, job>> /\ UNCHANGED Rest

(* What the finished code was for: the bridge, then the closure            *)
(* trampoline, then the trampoline to it; the forward trampoline; the      *)
(* relocated code; the patch of the function.                              *)
AfterProtect(t) ==
  \/ /\ job[t].next = "bridge" /\ Go(t, "pick")
     /\ job' = [job EXCEPT ![t].len = ClosureSize, ![t].next = "closure"]
  \/ job[t].next = "closure" /\ Go(t, "gen") /\ UNCHANGED job
  \/ job[t].next = "forward" /\ GenerateRelocatedCode(t, NearSize)
  \/ job[t].next = "add" /\ Go(t, "add") /\ UNCHANGED job
  \/ job[t].next = "done" /\ Go(t, "idle") /\ job' = [job EXCEPT ![t] = NoJob]

Protect(t) ==
  /\ Alive /\ pc[t] = "protect"
  /\ prot' = [prot EXCEPT ![Page(job[t].at)] = "rx"]
  /\ AfterProtect(t)
  /\ UNCHANGED <<pages, nears, writes, odd, fault>> /\ UNCHANGED Rest

(* AddHookEntry, then Commit: the function itself is patched.              *)
AddHookEntry(t) ==
  /\ Alive /\ pc[t] = "add"
  /\ entries' = entries \cup {job[t].f}
  /\ job' = [job EXCEPT ![t].at = Start[job[t].f], ![t].len = job[t].size, ![t].next = "done"]
  /\ Go(t, "unprotect")
  /\ UNCHANGED <<arch, near, odd, fault>> /\ UNCHANGED Memory

Next ==
  \/ Enable \/ Disable
  \/ \E t \in Thread :
       \/ \E f \in Fn : DobbyHook(t, f) \/ DobbyInstrument(t, f)
       \/ GenerateTrampolineBuffer(t) \/ GenerateNearTrampolineBuffer(t)
       \/ AllocateChunk(t) \/ ReadCursor(t) \/ BumpCursor(t)
       \/ NearFromPage(t) \/ NearMapPage(t) \/ NearFromCave(t) \/ NearNotFound(t)
       \/ Unprotect(t) \/ Copy(t) \/ Protect(t) \/ AddHookEntry(t)

Spec == Init /\ [][Next]_vars
-----------------------------------------------------------------------------
BytesOf(w) == Span(w.at, w.len)
Patched == {k \in 1..Len(writes) : writes[k].what = "done"}

(* A function that has been patched keeps everything its hook consists of: *)
(* no later write, of this or of another hook, touches the patch, the      *)
(* relocated prologue, the forward trampoline, the closure trampoline or   *)
(* the bridge (the two arenas, whose cursors are moved without a lock, and *)
(* CodePatch) - unless two calls ran at once, a page was mapped over       *)
(* another, or a run of zeros was taken for free memory.                   *)
HookIntact ==
  odd = {} =>
    \A k \in Patched : \A i \in 1..Len(writes), j \in 1..Len(writes) :
      i < j /\ writes[i].by = writes[k].by => BytesOf(writes[i]) \cap BytesOf(writes[j]) = {}

(* What Dobby writes lies in the function it was asked to hook, or in an   *)
(* arena page of its own, below the cursor and short of the page's last    *)
(* byte - unless it took a run of zeros, or two threads tested the room of *)
(* one page before either had moved its cursor (AllocateChunk).            *)
OnlyItsOwnBytes ==
  \A k \in 1..Len(writes) :
    writes[k].what # "map" =>
      \/ writes[k].what = "done" /\ writes[k].at = Start[writes[k].by]
      \/ odd \cap {"cave", "overlap"} # {}
      \/ \E q \in ToSet(pages) \cup ToSet(nears) :
           /\ BytesOf(writes[k]) \subseteq Span(q.base, PageSize - 1)
           /\ writes[k].at + writes[k].len <= q.cursor

(* The process ends inside Dobby only for a reason: a second hook of one   *)
(* function, no memory, two calls at once (CodePatch takes the write       *)
(* permission another thread still needs; the plugin is deleted in use), a *)
(* function or a run of zeros that lies across two pages, only one of      *)
(* which CodePatch makes writable - and on x64 and ia32, where the range   *)
(* of the search is negative, every time: no hook is ever entered there.   *)
FaultNeedsCause ==
  /\ fault \in {"patch", "plugin"} => "overlap" \in odd
  /\ fault = "crosses" => \/ odd \cap {"cave", "overlap"} # {}
                          \/ \E t \in Thread : job[t].next = "done" /\ Crosses(Start[job[t].f], job[t].size)
  /\ fault = "stub" => X86
  /\ X86 => entries = {} /\ Patched = {}
=============================================================================
