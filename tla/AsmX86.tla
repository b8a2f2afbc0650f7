------------------------------ MODULE AsmX86 ------------------------------
(***************************************************************************)
(* Dobby's assemblers for x64 (assembler-x64.h) and ia32                   *)
(* (assembler-ia32.h): what the bytes they emit mean to the processor.     *)
(*                                                                         *)
(* A request is the call of an emitting method, a tuple of its name and    *)
(* operands; a memory operand is base, index, scale, displacement, an      *)
(* immediate its size and value.  Registers are their codes.  An encoding  *)
(* keeps the fields of the instruction: the bits of REX, the opcode, mod,  *)
(* reg and rm, SIB, displacement and immediate with their sizes.           *)
(***************************************************************************)
EXTENDS Integers, Sequences

NoReg == -1
None == <<0, 0>>       \* no displacement, no immediate

(* Immediate(v): the size the constructor picks when it is given none; on  *)
(* x64 two bytes are written as one.                                       *)
ImmediateX64(v) == <<IF v \in -32768..32767 THEN 8 ELSE 32, v>>
ImmediateIa32(v) ==
  <<IF v \in -128..127 THEN 8 ELSE IF v \in -32768..32767 THEN 16 ELSE 32, v>>

(* EmitImmediate writes that many bits of the value.                       *)
Emitted(imm) == IF imm[1] = 8 THEN <<8, ((imm[2] + 128) % 256) - 128>> ELSE imm

-----------------------------------------------------------------------------
(* Mutant: rbp and r13 may go without a displacement.                      *)
DispModeNoRbp(base, disp) ==
  IF disp = 0 THEN 0 ELSE IF disp \in -128..127 THEN 1 ELSE 2

(* Address and its bases SetModRM, SetSIB, SetDisp8 and SetDisp32: mod and *)
(* rm, a SIB byte for rsp, r12 and whatever has an index, the shortest     *)
(* displacement, and the bits of REX that belong to the operand.           *)
DispMode(base, disp) ==
  IF disp = 0 /\ base % 8 # 5 THEN 0 ELSE IF disp \in -128..127 THEN 1 ELSE 2

Address(base, index, scale, disp) ==
  LET based == base # NoReg
      mod == IF based THEN DispMode(base, disp) ELSE 0
      sib == index # NoReg \/ base % 8 = 4
  IN  [rex |-> (IF based /\ base > 7 THEN {"B"} ELSE {})
                 \cup (IF index > 7 THEN {"X"} ELSE {}),
       mod |-> mod,
       rm |-> IF sib THEN 4 ELSE base % 8,
       sib |-> IF sib THEN <<scale, IF index = NoReg THEN 4 ELSE index % 8,
                             IF based THEN base % 8 ELSE 5>>
               ELSE <<>>,
       disp |-> IF ~based \/ mod = 2 THEN <<32, disp>>
                ELSE IF mod = 1 THEN <<8, disp>> ELSE None]

(* The same on ia32, which has no REX and no register above 7.             *)
AddressIa32(base, index, scale, disp) == [Address(base, index, scale, disp) EXCEPT !.rex = {}]

(* EmitModRM ORs the fields together without cutting them to three bits:   *)
(* the fourth bit of rm falls into reg.                                    *)
RegisterForm(reg, rm) ==
  [rex |-> {}, mod |-> 3, rm |-> rm % 8, sib |-> <<>>, disp |-> None,
   reg |-> IF rm > 7 /\ reg % 2 = 0 THEN (reg % 8) + 1 ELSE reg % 8]
MemoryForm(reg, a) ==
  [rex |-> {}, mod |-> a.mod, rm |-> a.rm, sib |-> a.sib, disp |-> a.disp, reg |-> reg % 8]
NoForm == [rex |-> {}, mod |-> 3, rm |-> 0, sib |-> <<>>, disp |-> None, reg |-> 0]

Encoding(op, rex, form, imm) ==
  [op |-> op, rex |-> rex, mod |-> form.mod, reg |-> form.reg, rm |-> form.rm,
   sib |-> form.sib, disp |-> form.disp, imm |-> Emitted(imm)]

(* EmitREX_Register, EmitREX_ExtraRegister.                                *)
RexR(reg) == {"W"} \cup (IF reg > 7 THEN {"R"} ELSE {})
RexRB(reg) == {"W"} \cup (IF reg > 7 THEN {"R", "B"} ELSE {})

(* The methods of the assembler for x64.                                   *)
EncodeX64(q) ==
  CASE q[1] = "sub_ri"  -> Encoding("81", RexR(q[2]), RegisterForm(5, q[2]), <<q[3], q[4]>>)
    [] q[1] = "add_ri"  -> Encoding("81", RexR(q[2]), RegisterForm(0, q[2]), <<q[3], q[4]>>)
    [] q[1] = "mov_ri"  -> Encoding("B8", RexR(q[2]), [NoForm EXCEPT !.rm = q[2] % 8], <<q[3], q[4]>>)
    [] q[1] = "mov_rr"  -> Encoding("8B", RexR(q[2]), RegisterForm(q[2], q[3]), None)
    [] q[1] = "mov_rm"  -> LET a == Address(q[3], q[4], q[5], q[6])
                           IN  Encoding("8B", RexR(q[2]), MemoryForm(q[2], a), None)
    [] q[1] = "mov_mr"  -> LET a == Address(q[3], q[4], q[5], q[6])
                           IN  Encoding("89", RexR(q[2]) \cup a.rex, MemoryForm(q[2], a), None)
    [] q[1] = "call_m"  -> LET a == Address(q[2], q[3], q[4], q[5])
                           IN  Encoding("FF", a.rex, MemoryForm(2, a), None)
    [] q[1] = "call_r"  -> Encoding("FF", RexR(q[2]), RegisterForm(2, q[2]), None)
    [] q[1] = "call_i"  -> Encoding("E8", {}, NoForm, <<q[2], q[3]>>)
    [] q[1] = "push"    -> Encoding("50", RexRB(q[2]), [NoForm EXCEPT !.rm = q[2] % 8], None)
    [] q[1] = "pop"     -> Encoding("58", RexRB(q[2]), [NoForm EXCEPT !.rm = q[2] % 8], None)

(* The methods of the assembler for ia32: the same opcodes and operands.   *)
MemoryMethodIa32(op, reg, a) == Encoding(op, {}, MemoryForm(reg, AddressIa32(a[1], a[2], a[3], a[4])), None)
EncodeIa32(q) ==
  CASE q[1] = "mov_rm" -> MemoryMethodIa32("8B", q[2], SubSeq(q, 3, 6))
    [] q[1] = "mov_mr" -> MemoryMethodIa32("89", q[2], SubSeq(q, 3, 6))
    [] q[1] = "call_m" -> MemoryMethodIa32("FF", 2, SubSeq(q, 2, 5))
    [] OTHER -> [EncodeX64(q) EXCEPT !.rex = {}]

-----------------------------------------------------------------------------
(* The processor (external: Intel's instruction set reference).            *)
Reg(e) == e.reg + (IF "R" \in e.rex THEN 8 ELSE 0)
Rm(e) == e.rm + (IF "B" \in e.rex THEN 8 ELSE 0)

Memory(e) ==
  LET b == IF "B" \in e.rex THEN 8 ELSE 0
      x == IF "X" \in e.rex THEN 8 ELSE 0
  IN  IF e.sib = <<>> THEN <<e.rm + b, NoReg, 0, e.disp[2]>>
      ELSE <<IF e.mod = 0 /\ e.sib[3] = 5 THEN NoReg ELSE e.sib[3] + b,
             IF e.sib[2] = 4 /\ x = 0 THEN NoReg ELSE e.sib[2] + x,
             e.sib[1], e.disp[2]>>

(* The bytes that follow do not have the length the opcode calls for: the  *)
(* processor takes more, or fewer, than were emitted.                      *)
DispSize(e) ==
  CASE e.mod = 1 -> 8
    [] e.mod = 2 -> 32
    [] e.mod = 0 /\ e.rm = 5 -> 32
    [] e.mod = 0 /\ e.sib # <<>> /\ e.sib[3] = 5 -> 32
    [] OTHER -> 0
ImmSize(e) ==
  CASE e.op \in {"81", "E8"} -> 32
    [] e.op = "B8" -> IF "W" \in e.rex THEN 64 ELSE 32
    [] OTHER -> 0

Garbled == <<"garbled">>
Decode(e) ==
  IF e.imm[1] # ImmSize(e) \/ (e.mod # 3 /\ e.disp[1] # DispSize(e)) THEN Garbled
  ELSE CASE e.op = "81" -> <<CASE e.reg = 0 -> "add_ri" [] e.reg = 1 -> "or_ri" [] e.reg = 5 -> "sub_ri",
                             Rm(e), e.imm[1], e.imm[2]>>
         [] e.op = "B8" -> <<"mov_ri", Rm(e), e.imm[1], e.imm[2]>>
         [] e.op = "8B" /\ e.mod = 3 -> <<"mov_rr", Reg(e), Rm(e)>>
         [] e.op = "8B" /\ e.mod # 3 -> <<"mov_rm", Reg(e)>> \o Memory(e)
         [] e.op = "89" -> <<"mov_mr", Reg(e)>> \o Memory(e)
         [] e.op = "FF" /\ e.reg = 3 -> Garbled
         [] e.op = "FF" /\ e.reg # 3 /\ e.mod = 3 -> <<"call_r", Rm(e)>>
         [] e.op = "FF" /\ e.reg # 3 /\ e.mod # 3 -> <<"call_m">> \o Memory(e)
         [] e.op = "E8" -> <<"call_i", e.imm[1], e.imm[2]>>
         [] e.op = "50" -> <<"push", Rm(e)>>
         [] e.op = "58" -> <<"pop", Rm(e)>>

Meaning(x64, q) == Decode(IF x64 THEN EncodeX64(q) ELSE EncodeIa32(q))

(* The requests these assemblers get wrong: immediates of another size     *)
(* than the opcode takes, and the registers above rdi wherever a method    *)
(* sets REX.R for a register it encodes in rm, or drops the operand's REX. *)
Misencoded(x64, q) ==
  CASE q[1] \in {"sub_ri", "add_ri"} -> q[3] # 32 \/ q[2] > 7
    [] q[1] = "mov_ri" -> q[3] # (IF x64 THEN 64 ELSE 32) \/ q[2] > 7
    [] q[1] = "mov_rr" -> q[3] > 7
    [] q[1] = "mov_rm" -> q[3] > 7 \/ q[4] > 7
    [] q[1] = "call_r" -> q[2] > 7
    [] q[1] = "call_i" -> q[2] # 32
    [] OTHER -> FALSE

Requests(Regs, Disps, Imms) ==
  LET Mems == {<<b, NoReg, 0, d>> : b \in Regs, d \in Disps}
                \cup {<<b, i, 2, d>> : b \in Regs \cup {NoReg}, i \in Regs \ {4}, d \in Disps}
  IN  {<<m, r>> \o i : m \in {"sub_ri", "add_ri", "mov_ri"}, r \in Regs, i \in Imms}
        \cup {<<"mov_rr", r, s>> : r \in Regs, s \in Regs}
        \cup {<<m, r>> \o a : m \in {"mov_rm", "mov_mr"}, r \in Regs, a \in Mems}
        \cup {<<"call_m">> \o a : a \in Mems}
        \cup {<<m, r>> : m \in {"call_r", "push", "pop"}, r \in Regs}
        \cup {<<"call_i">> \o i : i \in Imms}
=============================================================================
