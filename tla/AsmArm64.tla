----------------------------- MODULE AsmArm64 -----------------------------
(***************************************************************************)
(* Dobby's assembler for arm64 (assembler-arm64.h): what the words it      *)
(* emits mean to the processor.                                            *)
(*                                                                         *)
(* A request is the method and its operands: registers by their codes, 31  *)
(* is SP; "w", "x" or "q" is the size of the register loaded or stored.    *)
(***************************************************************************)
EXTENDS Integers, Sequences

Garbled == <<"garbled">>

(* Two's complement of n in w bits, and back.                              *)
Field(n, w) == n % (2 ^ w)
Signed(f, w) == IF f >= 2 ^ (w - 1) THEN f - 2 ^ w ELSE f

(* MemOperand: base, offset and mode; an Operand that is a register has   *)
(* the code of InvalidRegister, 0, when it is x0.                          *)
MemOperand(base, offset, mode) == [base |-> base, offset |-> offset, mode |-> mode]
IsImmediate(reg) == reg = 0

(* LoadStore: always the opcode of the 64-bit register, its offset scaled  *)
(* as that opcode says.                                                    *)
Scale == 8
LoadStore(q, addr) ==
  [cls |-> q[1], size |-> "x", t |-> q[3], n |-> addr.base, imm |-> Field(addr.offset \div Scale, 12)]

(* OpEncode::LoadStorePair: seven bits, in units of the registers' size.   *)
PairScale(size) == IF size = "q" THEN 16 ELSE 8
PairImm7(size, addr) == Field(addr.offset \div PairScale(size), 7)
LoadStorePair(q, addr) ==
  [cls |-> q[1], size |-> q[2], t |-> q[3], t2 |-> q[4], n |-> addr.base,
   imm |-> PairImm7(q[2], addr), mode |-> addr.mode]

(* EmitLoadRegLiteral: the byte offset itself, 26 bits of it, where the    *)
(* 19 bits of the offset in words belong.                                  *)
LoadLiteral(q) == [cls |-> "lit", size |-> q[2], t |-> q[3], imm |-> Field(q[4], 26)]

AddSubImmediate(q) == [cls |-> q[1], d |-> q[2], n |-> q[3], imm |-> Field(q[4], 12)]

(* LogicalImmediate leaves its fixed bits out.                             *)
Logical(d, m) == IF IsImmediate(m) THEN [cls |-> "bad"] ELSE [cls |-> "orr", d |-> d, m |-> m]

(* mov: add with 0 when SP takes part; otherwise orr.                      *)
Move(q) ==
  IF 31 \in {q[2], q[3]} THEN AddSubImmediate(<<"add", q[2], q[3], 0>>) ELSE Logical(q[2], q[3])

(* MoveWide: shift is a multiple of 16.                                    *)
MoveWide(q) == [cls |-> q[1], d |-> q[2], imm |-> Field(q[3], 16), hw |-> q[4] \div 16]

(* TurboAssembler::Mov: the four halves of the value, the lowest first.    *)
Mov(q) == [i \in 1..4 |-> MoveWide(<<IF i = 1 THEN "movz" ELSE "movk", q[2], q[3][i], 16 * (i - 1)>>)]

Adrp(q) == [cls |-> "adrp", d |-> q[2], imm |-> Field(q[3] \div 4096, 21)]

(* TurboAssembler::AdrpAdd, run at q[3].                                   *)
PageOf(a) == a - (a % 4096)
AdrpAdd(q) ==
  <<Adrp(<<"adrp", q[2], PageOf(q[4]) - PageOf(q[3])>>),
    AddSubImmediate(<<"add", q[2], q[2], q[4] % 4096>>)>>

Encode(q) ==
  CASE q[1] \in {"add", "sub"} -> AddSubImmediate(q)
    [] q[1] = "adrp" -> Adrp(q)
    [] q[1] = "b" -> [cls |-> "b", imm |-> Field(q[2] \div 4, 26)]
    [] q[1] \in {"br", "blr"} -> [cls |-> q[1], n |-> q[2]]
    [] q[1] \in {"ldr", "str"} -> LoadStore(q, MemOperand(q[4], q[5], "offset"))
    [] q[1] = "ldr_lit" -> LoadLiteral(q)
    [] q[1] \in {"ldp", "stp"} -> LoadStorePair(q, MemOperand(q[5], q[6], q[7]))
    [] q[1] = "mov" -> Move(q)
    [] q[1] \in {"movz", "movk", "movn"} -> MoveWide(q)

(* The processor (external: Arm Architecture Reference Manual).            *)
Decode(e) ==
  CASE e.cls = "bad" -> Garbled
    [] e.cls \in {"add", "sub"} -> <<e.cls, e.d, e.n, e.imm>>
    [] e.cls = "adrp" -> <<"adrp", e.d, Signed(e.imm, 21) * 4096>>
    [] e.cls = "b" -> <<"b", Signed(e.imm, 26) * 4>>
    [] e.cls \in {"br", "blr"} -> <<e.cls, e.n>>
    [] e.cls \in {"ldr", "str"} -> <<e.cls, e.size, e.t, e.n, e.imm * 8>>
    [] e.cls = "lit" -> IF e.imm >= 2 ^ 19 THEN Garbled
                        ELSE <<"ldr_lit", e.size, e.t, Signed(e.imm, 19) * 4>>
    [] e.cls \in {"ldp", "stp"} -> <<e.cls, e.size, e.t, e.t2, e.n,
                                     Signed(e.imm, 7) * PairScale(e.size), e.mode>>
    [] e.cls = "orr" -> <<"mov", e.d, e.m>>
    [] e.cls \in {"movz", "movk", "movn"} -> <<e.cls, e.d, e.imm, e.hw * 16>>

(* A half written by movz (the others become 0) or movk; adrp and add.     *)
RunMoves(es) ==
  [i \in 1..4 |-> LET last == {k \in 1..4 : es[k].hw = i - 1}
                  IN  IF last = {} THEN 0 ELSE es[CHOOSE k \in last : TRUE].imm]
Meaning(q) ==
  CASE q[1] = "Mov" -> <<"Mov", q[2], RunMoves(Mov(q))>>
    [] q[1] = "AdrpAdd" -> LET e == AdrpAdd(q)
                           IN  <<"AdrpAdd", e[2].d, q[3], PageOf(q[3]) + Decode(e[1])[3] + e[2].imm>>
    [] OTHER -> Decode(Encode(q))

(* What the caller meant: mov with SP is add with 0.                       *)
Asked(q) ==
  IF q[1] = "mov" /\ (q[2] = 31 \/ q[3] = 31) THEN <<"add", q[2], q[3], 0>> ELSE q

(* The requests it gets wrong: immediates beyond the field, 32-bit and     *)
(* vector registers in ldr and str, a literal at any distance, mov from x0.*)
Misencoded(q) ==
  CASE q[1] \in {"add", "sub"} -> q[4] < 0 \/ q[4] > 4095
    [] q[1] \in {"ldr", "str"} -> q[2] # "x" \/ q[5] < 0 \/ q[5] > 8 * 4095
    [] q[1] = "ldr_lit" -> q[4] # 0
    [] q[1] = "mov" -> q[3] = 0 /\ q[2] # 31
    [] q[1] \in {"ldp", "stp"} -> q[6] \div PairScale(q[2]) \notin -64..63
    [] OTHER -> FALSE

Requests(Regs, Imms) ==
  {<<m, d, n, i>> : m \in {"add", "sub"}, d \in Regs, n \in Regs, i \in Imms}
    \cup {<<m, s, t, n, i>> : m \in {"ldr", "str"}, s \in {"w", "x", "q"}, t \in Regs, n \in Regs, i \in Imms}
    \cup {<<"ldr_lit", s, t, i>> : s \in {"w", "x", "q"}, t \in Regs, i \in Imms}
    \cup {<<m, s, t, t + 1, n, i, mode>> : m \in {"ldp", "stp"}, s \in {"x", "q"}, t \in Regs, n \in Regs,
                                           i \in Imms, mode \in {"offset", "pre", "post"}}
    \cup {<<"mov", d, n>> : d \in Regs, n \in Regs}
    \cup {<<m, d, i, h>> : m \in {"movz", "movk", "movn"}, d \in Regs, i \in 0..2, h \in {0, 16, 32, 48}}
    \cup {<<m, n>> : m \in {"br", "blr"}, n \in Regs}
    \cup {<<"b", i>> : i \in Imms}
    \cup {<<"adrp", d, 4096 * i>> : d \in Regs, i \in {-3, 0, 5}}
    \cup {<<"Mov", d, <<i, 65535, j, 1>>>> : d \in Regs, i \in 0..1, j \in 0..1}
    \cup {<<"AdrpAdd", d, i, j>> : d \in Regs, i \in {4092, 4096, 20004}, j \in {0, 4095, 8192, 12300}}
=============================================================================
