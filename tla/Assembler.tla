----------------------------- MODULE Assembler -----------------------------
(***************************************************************************)
(* A session with one of Dobby's five assemblers: instructions are emitted *)
(* into a code buffer that grows, some of them refer to labels that are    *)
(* bound later, and RelocBind appends the data of the labels.  The code is *)
(* right when every instruction means what was asked for and every         *)
(* reference finds its label's data.                                       *)
(***************************************************************************)
EXTENDS Integers, Sequences

X86 == INSTANCE AsmX86
Arm == INSTANCE AsmArm
Arm64 == INSTANCE AsmArm64

CONSTANTS
  Arch,       \* subset of {"arm", "thumb", "arm64", "x64", "ia32"}
  Label,      \* labels of a session
  Registers,  \* register codes used in requests, those below 8 on ia32
  MaxItems    \* bound: emitted items

ASSUME AssemblerAssumption ==
  /\ Arch \subseteq {"arm", "thumb", "arm64", "x64", "ia32"}
  /\ Registers \subseteq 0..15
  /\ MaxItems \in Nat

VARIABLES
  arch,     \* the assembler in use
  asked,    \* the last request, or <<>>
  size,     \* bytes emitted: the cursor of the buffer
  cap,      \* its capacity
  bound,    \* label -> position, or Unbound
  refs,     \* label -> references <<position, displacement in the code, late>>
  data,     \* data_labels_: the labels RelocBind will bind, in order
  closed,   \* RelocBind has run
  items     \* how many items were emitted

vars == <<arch, asked, size, cap, bound, refs, data, closed, items>>

Unbound == -1
X(a) == a \in {"x64", "ia32"}

Capacity(a) == IF a \in {"arm", "thumb"} THEN 64 ELSE 32

Init ==
  /\ arch \in Arch
  /\ asked = <<>>
  /\ size = 0 /\ cap = Capacity(arch)
  /\ bound = [l \in Label |-> Unbound]
  /\ refs = [l \in Label |-> {}]
  /\ data = <<>> /\ closed = FALSE /\ items = 0

-----------------------------------------------------------------------------
(* Mutant: the buffer grows to the multiple of 64 below what is needed.    *)
GrownShort(need) == IF need <= cap THEN cap ELSE (need \div 64) * 64

(* LiteMutableBuffer::ensureCapacity; ALIGN rounds down.                   *)
Grown(need) == IF need <= cap THEN cap ELSE ((need + 64) \div 64) * 64

Write(n) == size' = size + n /\ cap' = Grown(size + n) /\ items' = items + 1

(* The length of an instruction; on x86 what matters is that they differ.  *)
(* Of Thumb only the lengths and the labels are followed here: what its    *)
(* methods emit is in module ArmRewrite.                                   *)
Length(a) == IF X(a) THEN {1, 7} ELSE IF a = "thumb" THEN {2, 4} ELSE {4}

Requests ==
  CASE arch = "arm" -> Arm!Requests(Registers \cap 0..15, {-4, 0, 52})
    [] arch = "thumb" -> {}
    [] arch = "arm64" -> Arm64!Requests({0, 1, 16, 31}, {-16, 0, 32, 384, 4096, 40000})
    [] arch = "x64" -> X86!Requests(Registers, {-4, 0, 8, 160},
                         {<<32, 8>>, <<64, 8>>} \cup {X86!ImmediateX64(v) : v \in {8, 300, 70000}})
    [] arch = "ia32" -> X86!Requests(Registers \cap 0..7, {-4, 0, 8, 160},
                         {<<32, 8>>, X86!ImmediateIa32(8), X86!ImmediateIa32(70000)})

Meaning(q) ==
  CASE arch = "arm" -> Arm!Meaning(q)
    [] arch = "arm64" -> Arm64!Meaning(q)
    [] OTHER -> X86!Meaning(arch = "x64", q)

(* One emitting method.  What it emits does not depend on what is in the   *)
(* buffer: the first of a session is any request, the others only differ   *)
(* in length.                                                              *)
EmitRequest ==
  /\ items = 0 /\ asked = <<>>
  /\ \E q \in Requests : asked' = q
  /\ Write(4)
  /\ UNCHANGED <<arch, bound, refs, data, closed>>

EmitFiller ==
  /\ items < MaxItems /\ ~closed /\ asked = <<>>
  /\ \E n \in Length(arch) : Write(n)
  /\ UNCHANGED <<arch, asked, bound, refs, data, closed>>

(* TurboAssembler::Ldr(rt, label) on arm and arm64, T2_Ldr on thumb: a     *)
(* bound label's distance goes straight into the instruction, without the  *)
(* 8 bytes, or 4, by which pc runs ahead on arm and thumb and, on arm64,   *)
(* in bytes where words belong; an unbound one is noted.  The caller that  *)
(* made the label appends it, once.                                        *)
LdrArm(l) == IF bound[l] = Unbound THEN 0 ELSE bound[l] - size
T2_Ldr(l) == IF bound[l] = Unbound THEN 0 ELSE bound[l] - size
LdrArm64(l) == IF bound[l] = Unbound THEN 0 ELSE 4 * (bound[l] - size)

AppendRelocLabelEntry(l) == Append(data, l)
New(l) == bound[l] = Unbound /\ \A i \in 1..Len(data) : data[i] # l

Ldr ==
  /\ items < MaxItems /\ ~closed /\ asked = <<>> /\ ~X(arch)
  /\ \E l \in Label, reloc \in BOOLEAN :
       /\ refs' = [refs EXCEPT ![l] = @ \cup
            {<<size, CASE arch = "arm" -> LdrArm(l)
                       [] arch = "thumb" -> T2_Ldr(l)
                       [] arch = "arm64" -> LdrArm64(l), bound[l] # Unbound>>}]
       /\ data' = IF reloc /\ New(l) THEN AppendRelocLabelEntry(l) ELSE data
  /\ Write(4)
  /\ UNCHANGED <<arch, asked, bound, closed>>

(* TurboAssembler::CallFunction on x64 and ia32: nop, call to the next     *)
(* instruction, pop of the address of that pop, call through a            *)
(* displacement from it, nop.  The reference is noted at the end of the    *)
(* indirect call; pop and call take 9 bytes on x64, 7 on ia32.             *)
CallFunctionX64 == 2 + 7
CallFunctionIa32 == 1 + 6
PopToEnd == IF arch = "x64" THEN CallFunctionX64 ELSE CallFunctionIa32

CallFunction ==
  /\ items < MaxItems /\ ~closed /\ asked = <<>> /\ X(arch)
  /\ \E l \in Label :
       /\ New(l) /\ refs[l] = {}
       /\ refs' = [refs EXCEPT ![l] = {<<size + 6 + PopToEnd, 0, FALSE>>}]
       /\ data' = AppendRelocLabelEntry(l)
  /\ Write(7 + PopToEnd)
  /\ UNCHANGED <<arch, asked, bound, closed>>

(* Mutant: pc is taken to be the address of the instruction.               *)
FixedArmNoPc(p, r) == p - r

(* PseudoLabel::link_confused_instructions of each assembler: the          *)
(* displacement stored for a reference at r to a label bound at p.         *)
FixedArm(p, r) == p - r - 8
FixedThumb(p, r) == p - (r - (r % 4)) - 4
FixedArm64(p, r) == ((p - r) \div 4) * 4
FixedX64(p, r) == p - r + 9
FixedIa32(p, r) == p - r + 9

Fixed(p, r) ==
  CASE arch = "arm" -> FixedArm(p, r)
    [] arch = "thumb" -> FixedThumb(p, r)
    [] arch = "arm64" -> FixedArm64(p, r)
    [] arch = "x64" -> FixedX64(p, r)
    [] arch = "ia32" -> FixedIa32(p, r)

Linked(l, p) == {IF r[3] THEN r ELSE <<r[1], Fixed(p, r[1]), FALSE>> : r \in refs[l]}

(* PseudoBind and the address or data emitted at the label.                *)
WordData == 4
LongData == 8
DataSize == IF arch \in {"arm", "thumb", "ia32"} THEN WordData ELSE LongData

PseudoBind ==
  /\ items < MaxItems /\ ~closed /\ asked = <<>>
  /\ \E l \in Label :
       /\ New(l)
       /\ bound' = [bound EXCEPT ![l] = size]
       /\ refs' = [refs EXCEPT ![l] = Linked(l, size)]
  /\ Write(DataSize)
  /\ UNCHANGED <<arch, asked, data, closed>>

(* RelocBind: each label of data_labels_ in turn.                          *)
Place(l) == LET i == CHOOSE j \in 1..Len(data) : data[j] = l IN size + (i - 1) * DataSize

RelocBind ==
  /\ ~closed /\ asked = <<>>
  /\ closed' = TRUE
  /\ bound' = [l \in Label |-> IF \E i \in 1..Len(data) : data[i] = l THEN Place(l) ELSE bound[l]]
  /\ refs' = [l \in Label |-> IF \E i \in 1..Len(data) : data[i] = l THEN Linked(l, Place(l)) ELSE refs[l]]
  /\ size' = size + Len(data) * DataSize
  /\ cap' = Grown(size')
  /\ UNCHANGED <<arch, asked, data, items>>

Next == EmitRequest \/ EmitFiller \/ Ldr \/ CallFunction \/ PseudoBind \/ RelocBind

Spec == Init /\ [][Next]_vars
-----------------------------------------------------------------------------
(* Where the processor looks for the data of a reference.                  *)
Effective(r) ==
  CASE arch = "arm" -> r[1] + 8 + r[2]
    [] arch = "thumb" -> r[1] - (r[1] % 4) + 4 + r[2]
    [] arch = "arm64" -> r[1] + r[2]
    [] OTHER -> r[1] - PopToEnd + r[2]

(* References these assemblers get wrong: those made after their label was *)
(* bound; on arm those less than 8 bytes before it, whose negative         *)
(* displacement overwrites the instruction; all of ia32, which is fixed    *)
(* with the distance of x64.                                               *)
Misplaced(l, r) ==
  \/ r[3] /\ (arch \in {"arm", "thumb"} \/ bound[l] # r[1])
  \/ arch = "arm" /\ ~r[3] /\ r[2] < 0
  \/ arch = "ia32"

(* Every reference to a bound label finds the label's data, however many   *)
(* instructions, references and other labels were emitted in between,      *)
(* except those named above, which never do.                               *)
ReferencesFound ==
  closed => \A l \in Label : bound[l] # Unbound =>
    \A r \in refs[l] : (Effective(r) = bound[l] /\ ~(arch = "arm" /\ r[2] < 0)) <=> ~Misplaced(l, r)

Asked(q) ==
  CASE arch = "arm" -> Arm!Asked(q)
    [] arch = "arm64" -> Arm64!Asked(q)
    [] OTHER -> q
Misencoded(q) ==
  CASE arch = "arm" -> Arm!Misencoded(q)
    [] arch = "arm64" -> Arm64!Misencoded(q)
    [] OTHER -> X86!Misencoded(arch = "x64", q)

(* The words and bytes emitted for a request mean what was asked, for      *)
(* every register, offset and mode, except the requests each assembler is  *)
(* known to get wrong, and those it does get wrong.                        *)
EncodedAsAsked == asked # <<>> => (Meaning(asked) = Asked(asked) <=> ~Misencoded(asked))

(* Nothing is written beyond the code buffer, nor are two labels bound to  *)
(* the same place.                                                         *)
BufferHolds ==
  /\ size <= cap
  /\ \A l, m \in Label : l # m /\ bound[l] # Unbound /\ bound[m] # Unbound =>
       bound[l] + DataSize <= bound[m] \/ bound[m] + DataSize <= bound[l]
=============================================================================
