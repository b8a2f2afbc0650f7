------------------------------ MODULE AsmArm ------------------------------
(***************************************************************************)
(* Dobby's assembler for ARM (assembler-arm.h): what the words it emits    *)
(* mean to the processor.                                                  *)
(*                                                                         *)
(* A request is <<method, whether the overload that takes a condition was  *)
(* called, operands>>.  An Operand is <<"imm", value>> or <<"reg", code>>; *)
(* a MemOperand is base, offset and mode.  r0 is register 0, sp 13, lr 14, *)
(* pc 15.                                                                  *)
(***************************************************************************)
EXTENDS Integers, Sequences

Garbled == <<"garbled">>

(* Operand(Register) leaves imm_ at -1: ORed into the word it sets every   *)
(* bit.                                                                    *)
Ones == [cls |-> "ones"]

(* sub ORs the code of rn into an opcode that already has 13 there.        *)
Or13(rn) == 13 + 2 * ((rn \div 2) % 2)

Data(q) ==
  LET sub == q[1] = "sub" \/ ~q[2]       \* add without a condition calls sub
  IN  IF q[5] = "reg" THEN Ones
      ELSE [cls |-> "dp", op |-> IF sub THEN "sub" ELSE "adds", d |-> q[3],
            n |-> IF sub THEN Or13(q[4]) ELSE q[4], imm |-> q[6]]

(* EncodeUtility::MemOperand: the bits of the mode, U flipped for a        *)
(* negative offset, ORed into opcodes that have P set.  str without a      *)
(* condition calls ldr.                                                    *)
LoadStore(q) ==
  [cls |-> "mem", load |-> q[1] = "ldr" \/ ~q[2], t |-> q[3], n |-> q[4],
   P |-> TRUE, W |-> q[6] = "pre", U |-> q[5] >= 0,
   off |-> IF q[5] < 0 THEN -q[5] ELSE q[5]]

(* EncodeUtility::Operand takes IsValid, "the code is not 0", for "has a   *)
(* register" and then the wrong branch of it.                              *)
Move(q) ==
  IF q[4] = "reg" /\ q[5] # 0 THEN Ones ELSE [cls |-> "mov", d |-> q[3], m |-> 0]

(* b has the opcode of bl and bl that of b.                                *)
Branch(q) == [cls |-> "br", link |-> q[1] = "b", off |-> q[3]]

Encode(q) ==
  CASE q[1] \in {"sub", "add"} -> Data(q)
    [] q[1] \in {"ldr", "str"} -> LoadStore(q)
    [] q[1] = "mov" -> Move(q)
    [] q[1] \in {"b", "bl"} -> Branch(q)

(* The processor (external: ARM Architecture Reference Manual).  An        *)
(* immediate above 255 is a rotated byte.                                  *)
Decode(e) ==
  CASE e.cls = "ones" -> Garbled
    [] e.cls = "dp" -> IF e.imm < 256 THEN <<e.op, e.d, e.n, e.imm>> ELSE Garbled
    [] e.cls = "mem" -> <<IF e.load THEN "ldr" ELSE "str", e.t, e.n,
                          IF e.U THEN e.off ELSE -e.off,
                          IF ~e.P THEN "post" ELSE IF e.W THEN "pre" ELSE "offset">>
    [] e.cls = "mov" -> <<"mov", e.d, "reg", e.m>>
    [] e.cls = "br" -> <<IF e.link THEN "bl" ELSE "b", e.off>>

Meaning(q) == Decode(Encode(q))

(* What the caller meant.                                                  *)
Asked(q) ==
  IF q[1] \in {"sub", "add"} THEN <<q[1], q[3], q[4], q[6]>> ELSE <<q[1]>> \o SubSeq(q, 3, Len(q))

(* The requests it gets wrong: nearly all but ldr with an offset.          *)
Misencoded(q) ==
  CASE q[1] = "sub" -> q[5] = "reg" \/ q[6] > 255 \/ q[4] # 13
    [] q[1] = "add" -> TRUE
    [] q[1] = "ldr" -> q[6] = "post"
    [] q[1] = "str" -> q[6] = "post" \/ ~q[2]
    [] q[1] = "mov" -> q[4] = "imm" \/ q[5] # 0
    [] OTHER -> TRUE

Requests(Regs, Offs) ==
  {<<m, c, d, n>> \o o : m \in {"sub", "add"}, c \in BOOLEAN, d \in Regs, n \in Regs \ {15},
                         o \in {<<"imm", 56>>, <<"imm", 300>>, <<"reg", 1>>}}
    \cup {<<m, c, t, n, o, mode>> : m \in {"ldr", "str"}, c \in BOOLEAN, t \in Regs, n \in Regs,
                                    o \in Offs, mode \in {"offset", "pre", "post"}}
    \cup {<<"mov", c, d>> \o o : c \in BOOLEAN, d \in Regs, o \in {"reg", "imm"} \X Regs}
    \cup {<<m, FALSE, o>> : m \in {"b", "bl"}, o \in Offs}
=============================================================================
