--------------------------- MODULE ClosureBridge ---------------------------
(***************************************************************************)
(* DobbyInstrument's way from an instrumented instruction to its handler   *)
(* and back: the closure trampoline, the bridge that packs the registers   *)
(* into a RegisterContext on the stack, the handlers, and the bridge's way *)
(* out.  The programs are the ones CreateClosureTrampoline and             *)
(* get_closure_bridge assemble; each instruction does what Dobby's         *)
(* assemblers really emit for it (AsmX86, AsmArm, AsmArm64).               *)
(*                                                                         *)
(* Values are numbers: below 1000 a stack address, 1000 + r what register  *)
(* r held when the instruction was reached.                                *)
(***************************************************************************)
EXTENDS Integers, Sequences, SequencesExt, TLC

X86 == INSTANCE AsmX86
Arm == INSTANCE AsmArm
Arm64 == INSTANCE AsmArm64

CONSTANTS
  Arch,   \* subset of {"arm", "arm64", "x64", "ia32"}
  Bases   \* what sp may be at the instrumented instruction

ASSUME BridgeAssumption ==
  /\ Arch \subseteq {"arm", "arm64", "x64", "ia32"}
  /\ \A s \in Bases : s \in 800..992 /\ s % 8 = 0

VARIABLES
  arch,
  pack,     \* FULL_FLOATING_POINT_REGISTER_PACK
  base,     \* sp at the instrumented instruction
  at,       \* index of the next instruction
  reg,      \* the registers
  mem,      \* what was written to the stack: address -> value
  wrote,    \* the field the user's handler changed, or NoField
  status,   \* "running", "resumed" or "trapped"
  target    \* where the way out leads

vars == <<arch, pack, base, at, reg, mem, wrote, status, target>>

Entry == 5000    \* the ClosureTrampolineEntry
Bridge == 6000   \* the bridge
Hop == 7000      \* relocated_origin_instructions
Written == 8000  \* what the user's handler puts into a field
Junk == 9999

(* Register names: the codes of the general registers, then flags and the  *)
(* vector registers (one stands for all of x64's).                         *)
Flags == 32
Q(i) == 40 + i
Sp(a) == CASE a = "arm64" -> 31 [] a = "arm" -> 13 [] OTHER -> 4
General(a) == CASE a = "arm64" -> 0..30 [] a = "arm" -> 0..14 [] OTHER -> 0..15
Vector(a) == CASE a = "arm64" -> {Q(i) : i \in 0..31} [] a = "x64" -> {Q(0)} [] OTHER -> {}
Registers(a) == General(a) \cup {Sp(a), Flags} \cup Vector(a)
Interrupted(r) == 1000 + r

(* Fields of the context besides those: the original sp, and none at all.  *)
SpField == 90
NoField == 91

-----------------------------------------------------------------------------
(* x64: what CreateClosureTrampoline emits.                                *)
TrampolineX64 == << <<"push_literal", Entry>>, <<"jmp_literal", Bridge>> >>

(* The bridge for x64: flags, the registers in the order of                *)
(* RegisterContext, the original rsp above them.                           *)
ContextOrderX64 == <<0, 3, 1, 2, 5, 4, 7, 6, 8, 9, 10, 11, 12, 13, 14, 15>>
SubRsp(n) == <<"sub_ri", 4, 32, n>>
AddRsp(n) == <<"add_ri", 4, 32, n>>

SaveX64 ==
  << <<"pushfq">>, SubRsp(8), SubRsp(16 * 8) >>
    \o [i \in 1..16 |-> <<"mov_mr", ContextOrderX64[i], 4, -1, 0, 8 * (i - 1)>>]
    \o << <<"mov_rr", 0, 4>>, <<"add_ri", 0, 32, 8 + 8 + 8 + 16 * 8>>, SubRsp(2 * 8),
          <<"mov_mr", 0, 4, -1, 0, 8>>,
          <<"mov_rr", 7, 4>>, <<"mov_rm", 6, 4, -1, 0, 8 + 8 + 16 * 8 + 2 * 8>> >>

(* Mutant: the jump over the first call lands one byte early.              *)
CallX64Short ==
  << <<"test_rsp">>, <<"jnz", 20>>, <<"call_function">>, <<"jmp", 18>>,
     <<"push", 0>>, <<"call_function">>, <<"pop", 0>> >>

(* rax := rsp & 15; the call, behind a push where rsp is not aligned.      *)
CallX64 ==
  << <<"test_rsp">>, <<"jnz", 21>>, <<"call_function">>, <<"jmp", 18>>,
     <<"push", 0>>, <<"call_function">>, <<"pop", 0>> >>

RestoreX64 ==
  << AddRsp(2 * 8) >>
    \o [i \in 1..16 |-> IF i = 6 THEN AddRsp(8) ELSE <<"pop", ContextOrderX64[i]>>]
    \o << AddRsp(8), <<"popfq">>, <<"ret">> >>

-----------------------------------------------------------------------------
(* arm64.                                                                  *)
TrampolineArm64 == << <<"ldr_label", 16, Entry>>, <<"ldr_label", 17, Bridge>>, <<"br", 17>> >>

StoreQ(i, n) == <<"stp", "q", i, i + 1, 31, n * 16, "offset">>
StoreX(i, n) == <<"stp", "x", i, i + 1, 31, n * 8, "offset">>
LoadQ(i) == <<"ldp", "q", i, i + 1, 31, 32, "post">>
LoadX(i) == <<"ldp", "x", i, i + 1, 31, 16, "post">>

(* Mutant: too little room for {q0-q7}.                                    *)
SaveVectorsShort ==
  (IF pack THEN << <<"sub", 31, 31, 24 * 16>> >> \o [i \in 1..12 |-> StoreQ(32 - 2 * i, 24 - 2 * i)]
           ELSE <<>>)
    \o << <<"sub", 31, 31, 7 * 16>> >> \o [i \in 1..4 |-> StoreQ(8 - 2 * i, 8 - 2 * i)]

SaveVectors ==
  (IF pack THEN << <<"sub", 31, 31, 24 * 16>> >> \o [i \in 1..12 |-> StoreQ(32 - 2 * i, 24 - 2 * i)]
           ELSE <<>>)
    \o << <<"sub", 31, 31, 8 * 16>> >> \o [i \in 1..4 |-> StoreQ(8 - 2 * i, 8 - 2 * i)]

(* Mutant: the original sp is computed without the vector registers.       *)
SaveGeneralNoVectors ==
  << <<"sub", 31, 31, 30 * 8>> >> \o [i \in 1..15 |-> StoreX(31 - 2 * i, 30 - 2 * i)]
    \o << <<"sub", 31, 31, 16>>, <<"str", "x", 0, 31, 8>>, <<"add", 0, 31, 2 * 8 + 30 * 8>> >>

SaveGeneral ==
  << <<"sub", 31, 31, 30 * 8>> >> \o [i \in 1..15 |-> StoreX(31 - 2 * i, 30 - 2 * i)]
    \o << <<"sub", 31, 31, 16>>, <<"str", "x", 0, 31, 8>>,
          <<"add", 0, 31, 2 * 8 + 30 * 8 + 8 * 16>> >>

SaveSp ==
  (IF pack THEN << <<"add", 0, 0, 24 * 16>> >> ELSE <<>>)
    \o << <<"sub", 31, 31, 16>>, <<"str", "x", 0, 31, 8>>,
          <<"mov", 0, 31>>, <<"mov", 1, 16>>, <<"call_function">> >>

RestoreArm64 ==
  << <<"add", 31, 31, 16>>, <<"ldr", "x", 0, 31, 8>>, <<"add", 31, 31, 16>> >>
    \o [i \in 1..15 |-> LoadX(2 * i - 1)] \o [i \in 1..4 |-> LoadQ(2 * i - 2)]
    \o (IF pack THEN [i \in 1..12 |-> LoadQ(6 + 2 * i)] ELSE <<>>)
    \o << <<"br", 16>> >>

-----------------------------------------------------------------------------
(* arm, as far as it gets.                                                 *)
TrampolineArm == << <<"ldr_label", 12, Entry>>, <<"jmp_literal", Bridge>> >>

StoreArm(t, off) == <<"str", FALSE, t, 13, off, "offset">>
SubArm(d, n) == <<"sub", FALSE, d, 13, "imm", n>>
AddArm(d, n) == <<"add", FALSE, d, 13, "imm", n>>

BridgeArm ==
  << SubArm(13, 14 * 4), StoreArm(14, 13 * 4) >>
    \o [i \in 1..13 |-> StoreArm(13 - i, (13 - i) * 4)]
    \o << AddArm(0, 14 * 4), SubArm(13, 8), StoreArm(0, 4), SubArm(13, 8),
          <<"mov", FALSE, 0, "reg", 13>>, <<"mov", FALSE, 1, "reg", 12>>, <<"call_function">>,
          AddArm(13, 8), AddArm(13, 8) >>
    \o [i \in 1..13 |-> <<"ldr", FALSE, i - 1, 13, 4, "post">>]
    \o << <<"ldr", FALSE, 14, 13, 4, "post">>, <<"mov", FALSE, 15, "reg", 12>> >>

(* ia32 uses x64's trampoline: without rip-relative addressing it pushes   *)
(* the word at address 6.                                                  *)
TrampolineIa32 == << <<"push_absolute", 6>> >>

Program ==
  CASE arch = "x64" -> TrampolineX64 \o SaveX64 \o CallX64 \o RestoreX64
    [] arch = "arm64" -> TrampolineArm64 \o SaveVectors \o SaveGeneral \o SaveSp \o RestoreArm64
    [] arch = "arm" -> TrampolineArm \o BridgeArm
    [] arch = "ia32" -> TrampolineIa32

Raw == {"push_literal", "jmp_literal", "pushfq", "popfq", "ret", "test_rsp", "jnz", "jmp",
        "call_function", "ldr_label", "push_absolute"}

(* What the next instruction is to the processor.                          *)
Here ==
  LET q == Program[at]
  IN  IF q[1] \in Raw THEN q
      ELSE CASE arch = "arm64" -> Arm64!Meaning(q)
             [] arch = "arm" -> Arm!Meaning(q)
             [] OTHER -> X86!Meaning(arch = "x64", q)

Init ==
  /\ arch \in Arch
  /\ pack \in (IF arch = "arm64" THEN BOOLEAN ELSE {FALSE})
  /\ base \in {s \in Bases : arch = "arm64" => s % 16 = 0}
  /\ at = 1 /\ mem = <<>> /\ wrote = NoField /\ status = "running" /\ target = 0
  /\ reg = [r \in Registers(arch) |-> IF r = Sp(arch) THEN base ELSE Interrupted(r)]

-----------------------------------------------------------------------------
(* The processor (external).                                               *)
Load(m, a) == IF a \in DOMAIN m THEN m[a] ELSE Junk
Store(m, a, v) == (a :> v) @@ m
SP == reg[Sp(arch)]

Goto(i) == at' = i /\ UNCHANGED <<status, target>>
Set(r, v) == reg' = (r :> v) @@ reg /\ Goto(at + 1) /\ UNCHANGED mem
Put(m, r) == mem' = m /\ reg' = r /\ Goto(at + 1)

(* Arithmetic on x64 changes the flags.                                    *)
Arithmetic(d, v) ==
  /\ reg' = (IF arch = "x64" THEN (Flags :> Junk) ELSE <<>>) @@ (d :> v) @@ reg
  /\ UNCHANGED mem /\ Goto(at + 1)

PairSize(s) == IF s = "q" THEN 16 ELSE 8
Name(s, i) == IF s = "q" THEN Q(i) ELSE i

(* The length of what lies between a jump and where it lands: 16 bytes for *)
(* CallFunction, 5 for jmp, 1 for push and pop of rax.                     *)
Bytes(e) == CASE e[1] = "call_function" -> 16 [] e[1] = "jmp" -> 5 [] OTHER -> 1
Between(i, j) == FoldLeft(LAMBDA n, e : n + Bytes(e), 0, SubSeq(Program, i + 1, j - 1))
Landing(rel) == {j \in at + 1 .. at + 7 : Between(at, j) = rel}
Jump(rel) ==
  IF Landing(rel) = {} THEN status' = "trapped" /\ UNCHANGED <<at, target>>
  ELSE Goto(CHOOSE j \in Landing(rel) : TRUE)

Execute ==
  /\ status = "running"
  /\ LET e == Here
     IN  \/ e[1] \in {"sub", "sub_ri", "add", "add_ri"}
              /\ LET n == IF Len(e) = 4 /\ arch \in {"arm", "arm64"} THEN e[3] ELSE e[2]
                     v == IF e[1] \in {"sub", "sub_ri"} THEN reg[n] - e[4] ELSE reg[n] + e[4]
                 IN  Arithmetic(e[2], v)
         \/ e[1] = "mov_rr" /\ Set(e[2], reg[e[3]])
         \/ e[1] = "mov" /\ Set(e[2], reg[e[3]])
         \/ e[1] = "mov_mr" /\ Put(Store(mem, reg[e[3]] + e[6], reg[e[2]]), reg)
         \/ e[1] = "mov_rm" /\ Set(e[2], Load(mem, reg[e[3]] + e[6]))
         \/ e[1] = "push" /\ Put(Store(mem, SP - 8, reg[e[2]]), [reg EXCEPT ![4] = @ - 8])
         \/ e[1] = "push_literal" /\ Put(Store(mem, SP - 8, e[2]), [reg EXCEPT ![4] = @ - 8])
         \/ e[1] = "pushfq" /\ Put(Store(mem, SP - 8, reg[Flags]), [reg EXCEPT ![4] = @ - 8])
         \/ e[1] = "pop" /\ Put(mem, [reg EXCEPT ![e[2]] = Load(mem, SP), ![4] = @ + 8])
         \/ e[1] = "popfq" /\ Put(mem, [reg EXCEPT ![Flags] = Load(mem, SP), ![4] = @ + 8])
         \/ e[1] = "test_rsp" /\ Put(mem, [reg EXCEPT ![0] = SP % 16, ![Flags] = IF SP % 16 = 0 THEN 0 ELSE 1])
         \/ e[1] = "jnz" /\ UNCHANGED <<reg, mem>>
              /\ IF reg[Flags] = 0 THEN Goto(at + 1) ELSE Jump(e[2])
         \/ e[1] = "jmp" /\ UNCHANGED <<reg, mem>> /\ Jump(e[2])
         \/ e[1] = "ldr_label" /\ Set(e[2], e[3])
         \/ e[1] = "jmp_literal" /\ Goto(at + 1) /\ UNCHANGED <<reg, mem>>
         \/ e[1] = "stp" /\ Put(Store(Store(mem, SP + e[6], reg[Name(e[2], e[3])]),
                                      SP + e[6] + PairSize(e[2]), reg[Name(e[2], e[4])]), reg)
         \/ e[1] = "ldp" /\ Put(mem, [reg EXCEPT ![Name(e[2], e[3])] = Load(mem, SP),
                                                ![Name(e[2], e[4])] = Load(mem, SP + PairSize(e[2])),
                                                ![31] = @ + e[6]])
         \/ e[1] = "str" /\ arch = "arm64" /\ Put(Store(mem, SP + e[5], reg[e[3]]), reg)
         \/ e[1] = "ldr" /\ arch = "arm64" /\ Set(e[3], Load(mem, SP + e[5]))
         \/ e[1] = "ldr" /\ arch = "arm" /\ Set(e[2], Load(mem, SP + e[4]))
  /\ UNCHANGED <<arch, pack, base, wrote>>

(* A word that is no instruction, a read of page 0.                        *)
Trap ==
  /\ status = "running" /\ Here[1] \in {"garbled", "push_absolute"}
  /\ status' = "trapped"
  /\ UNCHANGED <<arch, pack, base, at, reg, mem, wrote, target>>

(* br and ret: into the bridge, or out of it.                              *)
Branch ==
  /\ status = "running" /\ Here[1] \in {"br", "ret"}
  /\ LET to == IF Here[1] = "br" THEN reg[Here[2]] ELSE Load(mem, SP)
     IN  IF to = Bridge THEN Goto(at + 1)
         ELSE status' = "resumed" /\ target' = to /\ UNCHANGED at
  /\ reg' = IF Here[1] = "ret" THEN [reg EXCEPT ![4] = @ + 8] ELSE reg
  /\ UNCHANGED <<arch, pack, base, mem, wrote>>

-----------------------------------------------------------------------------
(* RegisterContext: where each field lies.                                 *)
Position(r) == CHOOSE i \in 1..16 : ContextOrderX64[i] = r
Offset(f) ==
  IF arch = "arm64"
    THEN IF f = SpField THEN 8 ELSE IF f < 31 THEN 24 + 8 * f ELSE 272 + 16 * (f - 40)
    ELSE IF f = SpField THEN 8 ELSE IF f = Flags THEN 152 ELSE 16 + 8 * (Position(f) - 1)
Fields ==
  IF arch = "arm64" THEN 0..30 \cup {Q(i) : i \in 0..(IF pack THEN 31 ELSE 7)}
  ELSE 0..15 \cup {Flags}

ContextArg == IF arch = "arm64" THEN 0 ELSE 7
EntryArg == IF arch = "arm64" THEN 1 ELSE 6

(* set_routing_bridge_next_hop: x16 of the context on arm64; on x64 the    *)
(* slot under the rsp the context names, which the trampoline's push left. *)
NextHopArm64(ctx, m) == Store(m, ctx + Offset(16), Hop)
NextHopX64(ctx, m) == Store(m, Load(m, ctx + Offset(SpField)) - 8, Hop)

(* What a C function may change: the caller-saved registers, the flags,    *)
(* vector registers, and the stack below its frame (external: the ABIs).   *)
CallerSaved ==
  IF arch = "arm64" THEN 0..18 \cup {30, Flags} \cup Vector(arch)
  ELSE {0, 1, 2, 6, 7, 8, 9, 10, 11, Flags} \cup Vector(arch)

(* intercept_routing_common_bridge_handler calls instrument_routing_       *)
(* dispatch with the entry, which calls the user's handler, if there is    *)
(* one, and sets the next hop.  The handler may change a field.            *)
Handler(ctx, m, f) ==
  LET user == IF f = NoField THEN m ELSE Store(m, ctx + Offset(f), Written)
  IN  IF arch = "arm64" THEN NextHopArm64(ctx, user) ELSE NextHopX64(ctx, user)

CallFunction ==
  /\ status = "running" /\ Here[1] = "call_function"
  /\ \E f \in Fields \cup {NoField, SpField} :
       /\ wrote' = f
       /\ mem' = Handler(reg[ContextArg], [a \in {b \in DOMAIN mem : b >= SP} |-> mem[a]], f)
  /\ reg' = [r \in Registers(arch) |-> IF r \in CallerSaved THEN Junk ELSE reg[r]]
  /\ Goto(at + 1)
  /\ UNCHANGED <<arch, pack, base>>

Done == status # "running" /\ UNCHANGED vars

Next == Execute \/ Trap \/ Branch \/ CallFunction \/ Done

Spec == Init /\ [][Next]_vars
-----------------------------------------------------------------------------
(* Where a field of the context does not show the interrupted register:    *)
(* the two the arm64 trampoline uses, and x64's general.regs.rsp, which    *)
(* was stored after the frame was made.                                    *)
Untold == IF arch = "arm64" THEN {16, 17} ELSE {4}

(* The handler is called with the stack aligned, the entry of this         *)
(* instruction, and a RegisterContext whose every field but those holds    *)
(* what the interrupted code had, its sp included.                         *)
HandlerSeesTruth ==
  status = "running" /\ Here[1] = "call_function" =>
    /\ SP % 16 = 0
    /\ reg[EntryArg] = Entry
    /\ Load(mem, reg[ContextArg] + Offset(SpField)) = base
    /\ \A f \in Fields :
         Load(mem, reg[ContextArg] + Offset(f)) = Interrupted(f) <=> f \notin Untold

(* What does not survive an instrumented instruction: x16, x17, the flags  *)
(* and vector registers that are not packed on arm64, the vector registers *)
(* on x64.                                                                 *)
Lost ==
  IF arch = "arm64" THEN {16, 17, Flags} \cup (IF pack THEN {} ELSE {Q(i) : i \in 8..31})
  ELSE Vector(arch)

(* The way out: execution goes on at the relocated instructions with sp as *)
(* it was and every register as it was or as the handler set it, except    *)
(* the ones above.  Writing sp has no effect on arm64; on x64 it misplaces *)
(* the next hop, and the bridge returns into the trampoline's entry.       *)
ResumesFaithfully ==
  /\ status = "resumed" =>
       /\ target = (IF arch = "x64" /\ wrote = SpField THEN Entry ELSE Hop)
       /\ SP = base
       /\ \A r \in Registers(arch) \ {Sp(arch)} :
            reg[r] = (IF wrote = r THEN Written ELSE Interrupted(r)) <=>
              r \notin Lost \/ (wrote = r /\ r # 16)
  /\ status = "trapped" => arch \in {"arm", "ia32"}

(* Nothing the trampoline, the bridge or the handlers write is at or above *)
(* the interrupted sp: the caller's frame stays as it is.  The red zone of *)
(* x64, 128 bytes below rsp that a leaf function may use, is overwritten.  *)
StackUntouched == wrote # SpField => \A a \in DOMAIN mem : a < base

(* Every instrumented instruction is left again, on every architecture.    *)
EveryArchitectureResumes == status # "trapped"
=============================================================================
