------------------------------ MODULE Rewrite ------------------------------
(***************************************************************************)
(* Code as Dobby's instruction relocation sees it: the instructions of a   *)
(* prologue, the items they are rewritten to, and a processor that runs    *)
(* either.                                                                 *)
(*                                                                         *)
(* An instruction is [op, len, off, r, cc]: off is what it adds to its pc, *)
(* r the register it writes ("rt", or "pc"), cc whether it is conditional. *)
(* An item is what the processor runs: [op, len, r, v, w, cc], v an        *)
(* address, a value, or how far from the item a branch goes, w the width   *)
(* of a load; placed in memory it also has an address and an instruction   *)
(* set.  "ldl" loads the word of a label, which RelocBind puts behind the  *)
(* code: that it is found there is ReferencesFound of module Assembler.    *)
(***************************************************************************)
EXTENDS Integers, Sequences, SequencesExt

Ins(op, len, off, r, cc) == [op |-> op, len |-> len, off |-> off, r |-> r, cc |-> cc]

Item(op, len, r, v) == [op |-> op, len |-> len, r |-> r, v |-> v, w |-> "w", cc |-> FALSE]
If(cc, i) == [i EXCEPT !.cc = cc]
Width(w, i) == [i EXCEPT !.w = w]
Nop(len) == Item("nop", len, "none", 0)
Plain(len, id) == Item("plain", len, "none", id)
Data(len, v) == Item("data", len, "none", v)
(* Load the word v bytes after the item; load a label's word; load through *)
(* the register itself, or (v = 1) the scratch register.                   *)
Near(len, r, v) == Item("near", len, r, v)
Ldl(r, v) == Item("ldl", 4, r, v)
Deref(r, v) == Item("deref", 4, r, v)

Floor(a, n) == a - (a % n)
Sum(lens) == LET upto[n \in 0..Len(lens)] == IF n = 0 THEN 0 ELSE upto[n - 1] + lens[n] IN upto
Size(items) == Sum([n \in 1..Len(items) |-> items[n].len])[Len(items)]
Placed(i, at, isa) ==
  [op |-> i.op, len |-> i.len, r |-> i.r, v |-> i.v, w |-> i.w, cc |-> i.cc, at |-> at, isa |-> isa]
Place(items, at, isa) ==
  LET upto == Sum([n \in 1..Len(items) |-> items[n].len])
  IN  [n \in 1..Len(items) |-> Placed(items[n], at + upto[n - 1], isa)]

-----------------------------------------------------------------------------
(* The processor.  lr is 0 while it holds the caller's address; a branch   *)
(* out of the code with an lr of this code is a call, which comes back.    *)
Address(a) == [k |-> "address", w |-> "none", v |-> a]
Memory(w, a) == [k |-> "memory", w |-> w, v |-> a]
Fresh(pc, isa, flag) ==
  [pc |-> pc, isa |-> isa, rt |-> Address(0), sc |-> Address(0), lr |-> 0, back |-> isa,
   trace |-> <<>>, flag |-> flag, skip |-> FALSE, out |-> "running"]

Saw(c, what, v, isa) == [c EXCEPT !.trace = Append(@, <<what, v, isa>>)]
(* A word loaded to the pc of an Arm processor chooses the instruction     *)
(* set.                                                                    *)
Goto(c, v) ==
  IF c.isa \in {"arm", "thumb"}
    THEN [c EXCEPT !.pc = Floor(v, 2), !.isa = IF v % 2 = 1 THEN "thumb" ELSE "arm"]
    ELSE [c EXCEPT !.pc = v]
Put(c, i, x) ==
  CASE i.r = "pc" -> IF x.k = "address" THEN Goto(c, x.v)
                     ELSE [Saw(c, "jump", x.v, x.w) EXCEPT !.out = "left", !.pc = 0]
    [] i.r = "sc" -> [c EXCEPT !.sc = x, !.pc = @ + i.len]
    [] OTHER -> [c EXCEPT !.rt = x, !.pc = @ + i.len]

Linked(c, i) == [c EXCEPT !.lr = c.pc + i.len, !.back = c.isa]
Other(isa) == IF isa = "arm" THEN "thumb" ELSE "arm"

Effect(code, c, i) ==
  CASE i.op = "nop" -> [c EXCEPT !.pc = @ + i.len]
    [] i.op = "plain" -> [Saw(c, "plain", i.v, "") EXCEPT !.pc = @ + i.len]
    [] i.op = "it" -> [c EXCEPT !.pc = @ + i.len, !.skip = ~c.flag]
    [] i.op = "b" -> [c EXCEPT !.pc = @ + i.v, !.flag = IF i.cc THEN FALSE ELSE @]
    [] i.op = "bnot" -> [c EXCEPT !.pc = @ + IF c.flag THEN i.len ELSE i.v, !.flag = FALSE]
    [] i.op = "bl" -> [Linked(c, i) EXCEPT !.pc = @ + i.v]
    [] i.op = "blx" -> [Linked(c, i) EXCEPT !.pc = Floor(@ + i.v, 4), !.isa = Other(@)]
    [] i.op = "goto" -> Goto(c, i.v)
    [] i.op = "call" -> Goto(Linked(c, i), i.v)
    [] i.op = "load" -> Put(c, i, Memory(i.w, i.v))
    [] i.op = "mov" -> Put(c, i, Address(i.v))
    [] i.op = "movsc" -> Put(c, i, c.sc)
    [] i.op = "ldl" -> Put(c, i, Address(i.v))
    [] i.op = "near" -> LET d == {k \in 1..Len(code) : code[k].at = c.pc + i.v}
                        IN  IF d = {} THEN [c EXCEPT !.out = "wild"]
                            ELSE Put(c, i, Address(code[CHOOSE k \in d : TRUE].v))
    [] i.op = "deref" -> Put(c, i, Memory(i.w, (IF i.v = 1 THEN c.sc ELSE c.rt).v))
    [] i.op = "pcadd" -> Put(c, i, Address(c.pc + i.v))
    [] i.op = "br" -> Goto(c, c.sc.v)
    [] i.op = "blr" -> Goto(Linked(c, i), c.sc.v)
    [] OTHER -> [c EXCEPT !.out = "wild"]

(* One instruction of the code in lo .. hi - 1.                            *)
Run(code, lo, hi, c) ==
  LET here == {k \in 1..Len(code) : code[k].at = c.pc /\ code[k].isa = c.isa}
      i == code[CHOOSE k \in here : TRUE]
  IN  IF c.pc < lo \/ c.pc >= hi
        THEN IF c.lr = 0 THEN [c EXCEPT !.out = "left"]
             ELSE [Saw(c, "call", c.pc, c.isa) EXCEPT !.pc = c.lr, !.isa = c.back, !.lr = 0]
      ELSE IF here = {} THEN [c EXCEPT !.out = "wild"]
      ELSE IF c.skip \/ (i.cc /\ ~c.flag) THEN [c EXCEPT !.pc = @ + i.len, !.skip = FALSE]
      ELSE Effect(code, c, i)

(* What a run comes to: all but the scratch register.                      *)
Outcome(c) == [out |-> c.out, pc |-> c.pc, isa |-> c.isa, rt |-> c.rt, lr |-> c.lr, trace |-> c.trace]
=============================================================================
