# Verification of UnityGameLocalizationDemo

The repository translates the text of a Unity game at run time: a native library
is loaded into the game, hooks the functions that set and get the text of a
widget, and replaces strings by those of a map file. It carries two hook
libraries: `inlineHook` (ARM and Thumb, with thread freezing) and a copy of
Dobby. This directory holds TLA+ models of the parts that carry the program's
own logic, TLC configurations that check them on small instances, and TLAPS
proofs for every instance.

All paths below are relative to `src/app/src/main/cpp/`. The application is built
for 32-bit ARM; the copy of Dobby supports ARM, Thumb, arm64, x64 and ia32, and
its modules cover all of them.

## 1. Inventory

| Component | State | Operations | Hard behaviours |
|---|---|---|---|
| `inlineHook/inlineHook.c`: hook registry | `info.item[1024]`, `info.size`; the code of the hooked functions; one trampoline page per item; `*proto_addr` | `registerInlineHook`, `inlineHook`, `inlineUnHook`, `inlineHookAll`, `inlineUnHookAll`; internally `freeze`, `processThreadPC`, `doInlineHook`, `doInlineUnHook`, `unFreeze` | threads stopped at any instruction; items moved by deletion; slots reused; cache coherence; `free()` under stopped threads |
| `inlineHook/relocate.c`: relocation | `orig_pos`, `trampoline_pos`, the boundary tables, the trampoline | `relocateInstruction` and its Thumb16, Thumb32 and ARM parts | alignment of literals, instructions cut by the saved length, IT blocks, PC-relative operands |
| `inject_dobby.cpp`: start-up and search | `buffer` (the map), `address_get/set`, `libil2cpp_base/handle`, `is_got_get_and_set`; the map file on disk | `JNI_OnLoad`, `readFile`, `init_address_from_file`, `hook_dlopen`, `hook_get_methods`, `hook_get_set`, `new_func_dlopen`, `new_func_get_methods` | hooks run on any thread of the game without a lock; the file is removed once read; the game may load libil2cpp first, later or twice |
| `inject_dobby.cpp`: text replacement | `header_*`, `middle_*`, `end` (static buffers), strtok's position | `new_func_set`, `new_func_get` | the same static buffers on all threads; lengths; lifetimes |
| `inject_inlinehook.cpp` | as above, on `inlineHook` | the same, and `inlineUnHook(func_dlopen)` at the 500th call | unhook while another thread is in the replacement; use after free |
| `Tools/tools.cpp` | `last_milles` | `find_module_by_name`, `UTF8_to_Unicode`, `tolower_unicode`, `memcmp_plus`, `show_sa10/11`, `show_toast` | off-by-one of `tolower_unicode`, a search by bytes, check-then-set of the throttle |
| `inject_test.cpp`, `inject_test_dobby.cpp`, `native-lib.cpp`, Java application | hooks of fixed offsets; screens | demonstrations | none of their own |
| `Dobby/`: `DobbyHook`, `Interceptor`, `InterceptRouting` | the list of `HookEntry`, the patched code | `DobbyHook`, `Commit` | called from several threads without a lock; a duplicate is FATAL |
| `Dobby/`: `MemoryArena`, `NearMemoryArena`, trampolines, near-branch plugin, `CodePatch` | page lists and cursors, page permissions, the code written | `AllocateChunk`, `search_near_blank_page`, `search_near_blank_memory_chunk`, `GenerateTrampolineBuffer`, `CodePatch` | cursors moved without a lock; zeros taken for free memory; a negative range; patches over a page boundary |
| `Dobby/`: assemblers | code buffer, labels, references, data labels | the emitting methods, `PseudoBind`, `RelocBind` | references made before and after their label is bound; encodings that change with the register; a buffer that grows |
| `Dobby/`: `DobbyInstrument`, closure trampolines and bridges | the registers of interrupted code, on the stack | `CreateClosureTrampoline`, `get_closure_bridge`, the dispatch of the handlers | hand-counted offsets, stack alignment, jumps with literal distances |
| `Dobby/`: instruction relocation | cursor, `relo_map`, the code emitted | `GenRelocateCode` of five instruction sets, the x86 decoder | PC-relative instructions, branches into the prologue, a change of instruction set, instruction lengths |

Interaction: the injectors call a hook library; the hook library rewrites code
that other threads are executing; the replacements (`new_func_*`) are then run by
whichever thread of the game calls the hooked function, and call back through
the `old_func_*` pointers. The map file is the only thing that outlives a
process.

What makes each part correct: the registry answers truthfully and memory agrees
with it; no thread is lost while code is patched; a trampoline does what the
original instructions did; the injector hooks the two text functions and nothing
else, and does so once libil2cpp is there; a string is replaced as the map says;
what Dobby writes lies in memory of its own; an instrumented instruction resumes
with the registers it had.

`PROJECT.json` lists all components (modelled or not, with the reason), every
hazard at its source line, and which property covers it. Some hazards do happen in
this code (two threads that enumerate at once, overlapping hooks, zeros taken for
free memory, a load of libil2cpp nobody sees). For those a property does not say
that they never happen: it names them as its exceptions and shows that nothing else
has the same effect. The note at the hazard says so.

## 2. Modules

| Module | Models |
|---|---|
| `HookRegistry` | abstract: a set of registered and a set of hooked functions, and truthful answers |
| `InlineHook` | `inlineHook.c`, with the process's threads and the instruction cache |
| `InlineHookProofs` | theorems about the registry, memory and trampolines of `InlineHook`, and that it implements `HookRegistry` |
| `InlineHookThreadProofs` | theorems about its boundary tables and the threads that are stopped and moved |
| `MCInlineHook` | instances: five function layouts as `relocate.c` would relocate them |
| `Relocate` | `relocate.c`, and a thread that runs the trampoline beside a reference semantics |
| `RelocateProofs` | theorems about `Relocate`: tables, alignment, the jump back; what a thread does that runs the trampoline |
| `MCRelocate` | instances: the instructions a function may begin with |
| `Injector` | the life cycle of both builds: `inject_dobby.cpp` with `DobbyHook` and `inject_inlinehook.cpp` with `registerInlineHook` / `inlineHook`, as they use them |
| `InjectorProofs` | theorems about `Injector` |
| `MCInjector` | instances: threads, classes, kinds of map file |
| `TextReplace`, `MCTextReplace` | `new_func_set` and `new_func_get` of both builds, and the conversions of `tools.cpp` |
| `TextReplaceProofs` | theorems about `TextReplace` |
| `AsmX86`, `AsmArm`, `AsmArm64` | pure: what the bytes that Dobby's assemblers emit for a request mean to the processor |
| `Assembler`, `MCAssembler` | a session with an assembler: code buffer, labels, references, `RelocBind` |
| `AssemblerProofs` | theorems about `Assembler` |
| `ClosureBridge`, `MCClosureBridge` | the closure trampoline, the bridge and the handlers, instruction by instruction |
| `DobbyMemory`, `MCDobbyMemory` | the arenas, the choice of trampoline, the near-branch plugin and `CodePatch`, on several threads |
| `DobbyMemoryProofs` | theorems about `DobbyMemory` |
| `Rewrite` | items of code and a processor that runs them |
| `ArmRewrite`, `Arm64Rewrite`, `X86Rewrite` | pure: what one instruction is rewritten to, and what it meant; the x86 opcode table |
| `DobbyRelocate`, `MCDobbyRelocate` | `GenRelocateCode` of the five instruction sets, then both codes run |
| `DobbyRelocateProofs` | theorem about `DobbyRelocate`: the lengths of x86 instructions |

### InlineHook

`item`, `size` are `info.item`, `info.size`, stale slots included, because a
slot's old `count` matters when it is used again. `mem` and `icache` hold, per
function, whether its first bytes are its own or the entry jump; `page` maps a
trampoline page to its function; `proto` is `*proto_addr`. `bnd` of an item is the
run of integers `orig_boundaries[4]`, `trampoline_boundaries[20]`, `count` as it
lies in memory, so that a write past the first table lands in the second, as in
the program.

An API call that is refused is one step. Otherwise the call goes through
`freeze` (reads the thread list, may fail to fork), `Attach` / `AttachFails` per
thread (PTRACE_ATTACH and `processThreadPC`; the threads not yet attached run
on), `doInlineHook` or the two halves of `doInlineUnHook` split at `free()`,
which blocks while another thread is in the allocator, and `unFreeze`.
`inlineHookAll` and `inlineUnHookAll` take one step per turn of their loops. The
threads call the hooked functions, execute their first instructions from the
cache one by one, go through the replacement and the trampoline, and enter the
allocator. `Reload` is the cache fetching a line again.

`hist` records four disturbances: a thread that escaped the freeze, a slot that
was reused, an unhook that moved an item, an unhook with a thread still inside.
`FaultNeedsDisturbance` says that these are the only ways to lose a thread, other
than hooking a function that is not `Hookable` (more than four instructions
copied, or a call among them that returns into the patch).

### Relocate

An instruction is a record of its type (the enum of `relocate.c`) and operands;
types are not decoded from bits. `CopyThumb16`, `CopyThumb32`, `CopyThumbTail`
and `CopyArm` are iterations of the two loops, each with its boundary entries,
block and advance; `FinalJump` is the jump back. Then a thread enters at any
boundary (`Start`, a call through `*proto_addr` or a thread that was moved) and
executes what was emitted, one instruction at a time (`Step`), beside what the
original instruction does at its own address (`Meaning`, `Wanted`).

### Injector

Each global of the library is a variable; every thread of the game has a place
in the library's code. The search of `new_func_get_methods` is split where
another thread can get in between: address stored, pair tested, each address made
an offset, `hook_get_set`, flag set. `DobbyHook` is split into its check for an
earlier hook, the dispatch of the route with the pointer to the original, and the
patch (`Commit`). A second hook of the same function that slips past the check
copies a patched prologue: its original is then the replacement itself
(`SelfCall`). `Restart` ends the process at any point and starts the next; the
map file is then what is left on disk.

`lib` is the build. The inline build hooks dlopen without looking at what is
mapped, resolves the methods in `hook_get_methods_inline`, registers and then
hooks (`Registered`, `inlineHook`), and unhooks dlopen again (`UnhookDlopen`).

### TextReplace

A string of the game is a sequence of bytes, two per UTF-16 unit, so that a
match across two units can happen as it does in `memcmp_plus`; a phrase of the
map is a sequence of code points. A call goes through `Enter` (the early
returns, the NULL read), `CopyHeader`, `CopyMiddle`, `strtok_first`, then `Line`
and `strtok_next` per line, `SetLength` and `Build`, each a point where another
thread's call can come between. `SetLength` is the arithmetic of the new string's
length, as the code does it: the bytes before the match, of the phrase put in its
place and after it (`LengthStart`, `LengthRight`, `LengthEnd`), added up
(`LengthMiddle`), halved and written into the shared header. `Build` copies that header
and the three parts; that they agree is `LengthAgrees`. `header`, `middle` and strtok's position `pos` are shared; a
position is a line of somebody's copy of the map, and using it after that call
has returned is the use after free (`UseAfterFree`). The hook of get tests one byte
where the first character has two (`inject_dobby.cpp:373`), so a string that begins
with a character U+xx00 is returned as it is; `TakenForEmpty` names that case. `Stop` is the low byte of the
address of `end`, which `memccpy` takes for its stop byte. `solo` records whether
a call ran alone.

### Dobby: Assembler, ClosureBridge, DobbyMemory, DobbyRelocate

`AsmX86`, `AsmArm` and `AsmArm64` turn a request (a call of an emitting method)
into the fields that are written, and those back into what the processor takes
them for. Where the two differ, the request is in the module's `Misencoded`;
`EncodedAsAsked` says *if and only if*, so the list is exact on the requests
enumerated. `Assembler` adds the buffer, the labels and the references.

`ClosureBridge` runs the programs that `CreateClosureTrampoline` and
`get_closure_bridge` assemble on a processor whose instructions are what those
three modules say is really emitted. The C handlers are one step that may
change any one field of the context and clobbers what the ABI lets it.

`DobbyMemory` has each allocation and each write as steps of a thread: the choice
of trampoline (`GenerateTrampolineBuffer`, `GenerateNearTrampolineBuffer`), the
normal arena (room tested, cursor read, cursor moved), the near arena (its pages,
a new page by `search_near_blank_page`, which goes on to the next region when mmap refuses,
a run of zeros by `search_near_blank_memory_chunk` in executable and in read-only
regions), and `CodePatch` (unprotect, copy, protect). Each function has one
replacement or handler here, so that a second call for it ends in FATAL; the
code does that for the same replacement only and hooks again for another.
What was written is the list `writes`. `odd` records what may go wrong by itself:
two calls at once, a page mapped over another, a run of zeros taken.

`DobbyRelocate` takes one instruction per step (`gen_arm_relocate_code`,
`gen_thumb_relocate_code`, `GenRelocateCode_arm64`, `GenRelocateCodeFixed`), adds
the branch to the rest of the function and the fix-up of labels
(`GenRelocateCode`), and then runs the prologue where it was (`RunOriginal`) and
what became of it (`RunRewritten`). `Abort` is an instruction the code refuses.
The x86 loop reads bytes (`buffer`, `Read`): after a wrong length it goes on in the
middle of an instruction, takes what it finds there for prefixes and an opcode, and
copies the bytes, as the code does. It may so come to a byte without a handler,
where the cursor no longer moves (`Stalled`); `41 C6 00 01` steps over its prefix
first. `RelocationEnds` says that this happens to no prologue that is read right
(`ReadRight`), and that any other comes to its end or stalls.
Loads are compared by the address they read, not by what lies there.
`Distorts` lists the instructions whose rewriting does something else, and
`Misread` those that the x86 table reads otherwise than the processor does, of which
`RightByChance` come to the right length all the same.

## 3. Runs

| Run | Checks | Shows |
|---|---|---|
| `inline_registry` | eight invariants, `Implements` | three functions, two slots, two pages: registry, memory, trampolines and cache agree over all call sequences, and the array is a set |
| `inline_threads` | `FaultNeedsDisturbance`, `MoveKeepsProgress` | two threads in an ARM and a Thumb function while these are hooked and unhooked |
| `inline_live` | `HookCompletes`, `CallCompletes` | every call returns, except that an unhook hangs when it stopped the holder of the heap lock |
| `inline_reuse` | `BoundariesAsDocumented` (violated) | a reused slot keeps the old `count` |
| `relocate` | `TablesPair`, `BlocksAligned`, `ResumeSafe`, `MeaningKept` | every prologue over 25 instructions, both Thumb alignments, every entry boundary, both values of the flags |
| `injector` | `WildHookNeedsDisturbance`, `OneClassHooked` | two threads, two classes, all four kinds of first line, restarts: only get_text and set_text of one class are hooked, until two threads enumerate at once or libil2cpp is opened twice |
| `injector_live` | `ReplacementReady`, `LoadedIsHooked` | with races and second opens: nothing is reachable before it is ready; a hook follows the load of libil2cpp |
| `text` | `TypeOK`, `ReplacedAsMapped`, `LengthAgrees`, `FreedNeedsOverlap`, `OwnLinesInOrder` | two threads, five strings, four map files, both builds: a call nothing overlaps replaces what the map asks, whatever earlier calls left in the buffers and in strtok |
| `assembler` | `ReferencesFound`, `EncodedAsAsked`, `BufferHolds` | which references and requests of the five assemblers come out right, exactly; the buffer holds what is written |
| `bridge` | `HandlerSeesTruth`, `ResumesFaithfully`, `StackUntouched` | which registers a handler sees and which survive, exactly, on arm64 and x64; ARM and ia32 never get to the handler |
| `memory` | `HookIntact`, `OnlyItsOwnBytes`, `FaultNeedsCause` | calls one after the other never disturb a hook; what goes wrong needs two calls at once, a run of zeros, or a function across two pages; on x64 and ia32 no hook is ever entered |
| `dobby_relocate` | `DobbyMeaningKept`, `LengthAsManual`, `RelocationEnds` | every pair of instructions at the start of a function; every x86 opcode with the forms that change its length, which is right exactly where it is said to be; a loop that is misled by one ends or stays at a byte without a handler |

Every property of a passing run has a mutant of the code model that breaks it
(`PROJECT.json`, "mutants"; the operators are marked `Mutant` in the modules).

### Bounds

* `MaxItems` is 1024 in the code. With two slots and three functions a deletion
  moves an item, a slot is reused, and the array is full while a function is not
  registered; a third slot adds no new relation between two items, and the
  theorems hold for every size. The invariants of the registry do not read `pc`,
  so the run that checks them has no threads.
* `MaxCount = 4` (6 for the overflow): a slot is followed until its table has that
  many entries, which admits one reuse of a slot by ARM functions. Past 20 the
  code would overwrite `count` itself.
* `inline_threads` and `injector` stop at the first disturbance (`Undisturbed`):
  their properties say nothing beyond it.
* `MaxSpecial = 2`: at most two of the copied instructions are PC-relative. Blocks
  touch each other only through position, stack, registers and IT state, so a pair
  shows every interaction of neighbours.
* `MaxHooks`: once more hooks than that are listed no thread calls in again; what
  is under way goes on. 2 (`injector_live`) has dlopen and the methods hooked, so
  that races and second opens run into the hooks of the text functions; 6
  (`injector`) is never reached undisturbed.
* `text`: two calls, on one or on two threads, are enough for one to find what the
  other left or to overlap it. `Split` is 100 and `UnhookAt` 500 in the code; here 8
  bytes, the longest string, and the second call.
* `assembler`: six items hold two labels with references before, between and after
  them, and outgrow the buffer of 32 bytes on arm64, x64 and ia32 (that of 64 on ARM
  does not fill up). `Registers` has the codes at which an
  encoding changes.
* `bridge`: `StackUntouched` is about what lies at and above the interrupted sp. The
  red zone that x64 code may use below rsp is overwritten by the closure
  trampoline. `Bases` is every value the model admits for sp (`BridgeAssumption`), so that
  the run visits all behaviours there are.
* `memory`: pages of 20 bytes take a few chunks each, so that a page fills up. Calls
  overlap while nothing is hooked yet (`MaxHooked = 0`), and an instruction is
  instrumented alone (`InstrumentedAlone`); calls one after the other reach all
  three functions.
* `dobby_relocate`: two instructions show how neighbours interact (positions, a
  branch from one to the other, an IT block); the rest of a prologue is plain. A
  single x86 instruction lies in a prologue of 4 bytes followed by four NOPs, so
  that a length that is too short is read on from inside it and one that is too
  long ends behind it.
* Addresses are small integers chosen so that no two functions coincide; libil2cpp
  is mapped at `Base` = 1000, beyond the offset of any of its functions.

### Fairness

* `InlineHook!FairSpec`: `WF(ApiStep)`, as the caller's thread is scheduled;
  `SF(DoFree)`, `SF(DoFreeAllItem)`, because a mutex that keeps becoming free is
  obtained; `WF(LeaveMalloc)`, because a running thread leaves the allocator. No
  thread is forced to call anything, and a stopped one takes no step.
* `Injector!FairSpec`: `WF(Step(th))`, a thread inside the library keeps running.
  Loading, enumerating, writing the file and restarting are not fair: the library
  has no say in them.

* `DobbyRelocate!Spec`: `WF(Next)`, one thread that runs a loop keeps running. A
  length of 0 leaves the loop without a step that changes anything: fairness asks
  nothing of a step that stutters, and the behaviour stays there, `Stalled`.

Deadlock checking is off where the system really stops: a process that died or
hangs in `free()` (`InlineHook`, `TextReplace`, `DobbyMemory`), all functions
hooked (`DobbyMemory`), a session or a relocation that is over (`Assembler`,
`DobbyRelocate`), the bound on calls reached (`TextReplace`).

## 4. What is proved

TLAPS proves the theorems below for all values of the constants: any number of
threads, functions, pages, slots, classes, labels, strings and lines. The
assumptions are named in the modules, and TLC evaluates them on every run:

| Assumption | Says |
|---|---|
| `InlineHookAssumption` | the layouts have their types, both boundary sequences the same length |
| `LayoutAssumption` | relocation starts at the entry and copies at least what the jump overwrites, and no two instructions become code at the same place |
| `RelocateAssumption` | the instructions are well formed |
| `InjectorAssumption` | libil2cpp is smaller than the address it is mapped at, and its text functions are neither dlopen nor `il2cpp_class_get_methods` |
| `TextAssumption` | strings are whole 16-bit units, the map file is a sequence of lines with or without a bar |
| `AssemblerAssumption` | the architectures are among the five |
| `CasesAssumption` | the x86 code of a prologue is made of instructions (`Valid`), their fields bits of a byte |
| `MemoryAssumption`, `SizeAssumption` | hooked functions lie in the library, which is mapped; what goes into an arena fits into a page; a near trampoline is not longer than the longer normal one; a forward trampoline is more than a byte |
| `ApartAssumption` | no function begins inside what the patch of another overwrites |

In each module an invariant that is inductive is found first, checked with TLC on
the instance of the run, and then proved.

`InlineHookProofs`:

* `TypeCorrect`, from `TypeInv`: `TypeOK`, and that items in use are initialised,
  that a thread in code names that code, and that a call's index is in range.
* `RegistryIsASet`, `MemoryFollowsRegistry`, `RestoresOriginal`,
  `TrampolinesLive`, `ProtoPointsToLive`, `CacheStaleness`, from `TypeInv /\ RegInv`.
  `RegInv` is the conjunction of the properties with what makes them inductive: an
  item that is being removed (`HalfUnhooked`) is an exception to most of them, so
  the call in progress must be tied to its item (it exists, has the status the call
  found and is for the call's function), and two items must not share a page.
* `ImplementsRegistry`: initial states map to initial states and each step to a
  step of `HookRegistry` or a stutter. The registry changes only when an item is
  added, patched or deleted, `RegInv` gives that deleting slot `i` removes exactly
  that item's function, and the loops of the two All calls keep "every item below
  `pos` is done".

`InlineHookThreadProofs`:

* `FirstUseExact`: only `registerInlineHook` writes tables, it appends to the count
  it finds, and a deletion copies a whole item; so a table of the right length, at
  most four, is right.
* `MovesKeepProgress` (an action property): with exact tables the search of
  `processThreadPC` has one match, and the place it moves to is the other copy of the
  same instruction.
* `NoThreadLost`, from `ThreadsStaySafe`. `ThreadInv` says what "safe" is at each
  moment of a call: all threads are held once the freeze is over (`AllHeld`), a held
  thread is not among the instructions about to be overwritten (`BeingHooked`) and may
  be under a jump only while that is being removed (`BeingUnhooked`), one in a
  trampoline is at an instruction of a mapped page, and one in a replacement will find
  its trampoline. It is conditional on the four disturbances, which are exactly the
  steps that break it.

`RelocateProofs`: `RelocateTypes`, `BoundaryTablesPair`, `LiteralsAligned`,
`ResumesPastPatch`, from `RelocateInv`: the four properties and `Behind` (what was
recorded lies behind both positions and the loop is left only at its end). Case
lemmas give the size of every block: even in Thumb, whole words in ARM.

Also there: `TrampolineMeans` states `MeaningKept` for any prologue at any
address, from any entry boundary and with any registers and flags, as long as the
copied instructions are `Faithful`, that is, not of a form whose block is wrong:
conditions the block does not test, IT, the branch tables, ADR in Thumb and BX PC,
BL and B.W that do not lie on a word, MOV and LDR to r8 and above in 16-bit code, ADD
to or of SP and ADD to PC (the findings and the list under them). What an instruction
names must be an address, not below 0. `AllFaithful` holds in every state of the
run `relocate`, whose instances leave these forms out, so the theorem's
hypothesis takes nothing away there. The invariant (`MeaningInv`) has three parts:

* `Layout`: the blocks lie one behind the other, each with the address of its own
  instruction in it, and nothing stored later replaces a unit. It comes from
  `RelocateInv`, which bounds where the next block goes.
* `Idle`: before a thread enters, there is none.
* `Follows`: the thread entered a block in some state, is now in one of the states the
  block leads through from there (`Path`, a handful for each type), and the reference
  machine has done what the original instruction would have done with the state at
  entry.

A block is thus a finite case, whatever the length of the trampoline: for each type one
lemma shows that a step leads from a state of `Path` to the next or to the start of the
next block, and one (`Serves`) that its last state is the wanted one. No induction
over the program is needed, because `Follows` remembers only the state at the entry
of the current block.

`InjectorProofs`:

* `InjectorTypes` and `ReplacementsReady`, from `Shape`, which holds through every
  race and restart: a thread about to patch has already stored the pointer to the
  original and read the map (`HookReady`), and every address in use is an offset of
  libil2cpp plus some multiple of its base (`AddressesInside`), hence not NULL.
* `WildNeedsDisturbance` and `OneClassIsHooked`, from `CalmUntilDisturbed`. Undisturbed,
  at most one thread is past the entry of a replacement (`Solo`), and for each of its
  places `Doing` says whether `address_get` and `address_set` are addresses or offsets,
  of which class, and which of the hooks are listed; `Resting` says it for the times
  between.

`TextReplaceProofs`:

* `TextTypeOK`, from `TInv` and `HitFits` (a match found lies inside the buffer it is
  cut from), and `LengthsAgree`: the length a return hands on was added up by
  `SetLength` from byte lengths, one step before the characters are copied, and lies
  in a header that all calls share. `LengthSet` says that a call nothing overlaps finds
  it there again; the sum is even and is the number of bytes the three copies take
  (`BuiltIs`), so that half of it is the number of units handed on.
* `LinesInOrder`, `FreedOnlyInOverlap`, from `AloneOwns`: while a call is under way that
  nothing overlapped, all other threads are idle, and strtok's position is in that
  call's own copy, at the line it has counted to.
* `TextReplacedAsMapped`: `Mapped` follows such a call for a plain string. The buffers
  hold the whole string (it is shorter than `Split` and has no stop byte), the lines
  passed do not occur in it, a hit is the first occurrence of the first line that
  does, and what is built from it is `Wanted`, defined without buffers or calls.

`AssemblerProofs`: `BufferAlwaysHolds` and `AllReferencesFound`, from `SessionSound`. The
invariant says for a label that is bound what each reference to it holds, made before
(fixed when it was bound) or after (computed at once), and that on arm64, where
distances are in words, all positions are multiples of 4. `RequestsEncoded` states
`EncodedAsAsked`, both ways, for any set of registers: every method has a lemma that
gives the fields of what it emits and what the processor makes of them, by arithmetic
on the width of each field, for any register, offset and mode (arm64's also for any
immediate of its range), and the requests enumerated are instances of those lemmas.
For x64 and ia32 the memory operand has a lemma of its own (`X86Operand`): mod, SIB and
the displacement's size agree with what the processor takes, and the operand it finds
is the one asked for once REX names the upper registers, as `mov_mr` and `call` do and
`mov_rm` does not.

`DobbyRelocateProofs`: `LengthsRight` states `LengthAsManual`, both ways, for every
instruction of ia32 and x64. The rows of the table are compared with the manual in three
parts (`LowRows`, `MiddleRows`, `HighRows`); each says what its handler misses of the
immediate or counts too much, `ModRMLength` what `_DecodeModRM` misses of a
displacement, and the length is right where these are nothing or cancel. They do cancel
in `MUL [disp32]` with a SIB byte and its neighbours in opcode F7; and the second byte of
a two-byte opcode, read as an opcode, has a row of its own that may fit (`MOVZX` between
registers). `RightByChance` is that list. `case` does not change, so that what
`CasesAssumption` says of it is the invariant.

`DobbyMemoryProofs`:

* `MemorySound`: types; at each place of the code what a thread's job is (`Shape`); the
  pages of both arenas are mapped and begin where a page does (`Owned`), which needs
  that `search_near_blank_page` and the search for zeros yield pages and addresses of
  the process (the lemmas on `Layout`). While no call has overlapped another, one thread at most
  is inside (`Alone`) and what it tested still holds (`Ready`): the room, the cursor it
  read, the page it made writable.
* `WritesOnlyOwnBytes`, with `AllOwn`: each write is where it may be, and arenas only
  grow.
* `FaultsHaveCause`, with `Blamed` and `NoStub`: on x64 and ia32 the range is negative,
  so no page is ever in it, the near arena stays empty, and no call gets past it.
* `HooksStayIntact`, with `HookInv`. A finished hook is parts in arenas and a patch in the
  library. An arena part was free when it was cut (`AllPending`), because arena pages
  are distinct and off the library (`Distinct`) and everything cut before ends at the
  cursor; a patch stays on the library's pages (`InText`), because only the page of the
  copy under way is writable (`OneWritable`); two patches are of different functions
  (`AllFresh`, `Labelled`), which lie apart; and a page that is mapped held nothing
  (`WrittenMapped`), or the step is recorded as odd.

Only model-checked, because they are out of this prover's reach:

* liveness: `HookCompletes`, `CallCompletes`, `LoadedIsHooked`, `RelocationEnds`;
* what Dobby's relocated code does when it is executed: `DobbyMeaningKept`. Two programs
  of any length are run to their ends, one after the other, and only the outcomes are
  compared; what a whole run comes to needs induction over data;
* what the bridges do: `HandlerSeesTruth`, `ResumesFaithfully`, `StackUntouched`. Two fixed
  programs of about 80 instructions, without branches but one: an inductive invariant
  is a table of the stack and the registers at each instruction. TLC visits each of
  them for every architecture, every sp that the model admits and every field a handler
  may change, which leaves a proof nothing to generalise.

## 5. Findings

Listed in `PROJECT.json`, each with the line of a comment or document it
contradicts. `inline_reuse` is a run of its own; the others are seen by a small
change of a configuration:

| Finding | To see it |
|---|---|
| a reused slot keeps the old `count` (`inlineHook.c:310`) | `inline_reuse` |
| six Thumb instructions overflow `orig_boundaries[4]` (`inlineHook.c:68`) | `MCInlineHookReuse.cfg` with `thumb16` as the only target and `MaxCount = 6` |
| a conditional ARM branch becomes unconditional (`relocate.c:523`) | `MCRelocate.cfg` with `ArmInsn <- ArmConditional` |
| the NOP after IT takes the conditional slot (`relocate.c:276`) | `MCRelocate.cfg` with `ThumbInsn <- ThumbIf` |
| the dynamic search from `JNI_OnLoad` has no handle (`inject_dobby.cpp:226`) | `DynamicLookup` as an invariant of `MCInjector.cfg` |
| a NULL string is read before it is tested (`inject_dobby.cpp:272`) | `NullPassedOn` as an invariant of `MCTextReplace.cfg` |
| an instrumented ARM instruction is never left (`assembler-arm.h:424`) | `EveryArchitectureResumes` as an invariant of `MCClosureBridge.cfg` |

What else the models show of the code, kept in named exceptions of the
properties:

* `Relocate` has further instructions whose block does not do what the instruction
  does, left out of the passing run: BL and B.W at a halfword address (the PC is
  aligned first), 16-bit ADR (the sum is shifted), ADR.W (the immediate is
  assembled from the wrong end), TBB and TBH (a register is not restored), BX PC
  in Thumb (stays in Thumb state), MOV to a high register. `ThumbCall`, `ThumbAdr`
  and `ThumbTable` of `MCRelocate`, as `ThumbInsn`, each violate `MeaningKept`.
* `Misencoded`, `Misplaced`: requests and references the assemblers get wrong.
* `Untold`, `Lost`: registers a handler does not see, or that do not survive.
* `Distorts`, `Misread`: instructions Dobby's relocation changes or misreads.

## 6. Not modelled

* Concurrent callers of the `inlineHook` API (no lock: a second caller may see a
  half-initialised item), and targets that overlap.
* Bit patterns of instructions beyond the fields that a request sets; rotated ARM
  immediates of `relocate.c`; Rd = PC in ADD, which the comments of its enum
  exclude; emitting methods nothing calls.
* `new_func_dlsym` (never installed).
* The advertising throttle (`show_sa10`, `show_sa11`, `show_toast`), the hooks of
  fixed offsets (`inject1`, `inject`), screens and JNI getters: demonstrations,
  input and output.
* Dobby's plugins other than the near branch, its symbol resolvers, Darwin's headers, tables of opcodes nothing refers to, tests: not called
  by this program. The function wrapper does not compile as it stands. The parsing
  of `/proc/self/maps` is taken to give the regions there are.
* What the bytes do, when they run, that the x86 relocation copied after a wrong length.
* A second hook of a function with another replacement (`DobbyMemory!Begin`); a
  growth of the code buffer between two bytes of one x86 instruction.

## 7. Plan

1. `InlineHook` with `HookRegistry`, its proofs; `Relocate` with its proofs;
   `Injector`. Done.
2. Both builds in `Injector`; `TextReplace`; Dobby's assemblers, bridges, memory and
   relocation. Done.
3. Proofs of the invariants of `Injector`, `TextReplace`, `Assembler` and `DobbyMemory`, of
   the threads of `InlineHook`, and of what the trampolines of `Relocate` do. Done
   (section 4).
4. The copy loops of `DobbyRelocate` (positions, as in `RelocateProofs`), and
   `DobbyMeaningKept` for one instruction at a time.
5. Concurrent callers of the `inlineHook` API.
