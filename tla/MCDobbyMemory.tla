--------------------------- MODULE MCDobbyMemory ---------------------------
(* A library of one page, page 2 of 4, with a run of zeros before f2 and   *)
(* f3 on the edge of the page; nothing, one or two pages mapped below it,  *)
(* page 0 read-only, with a run of zeros of its own.                       *)
EXTENDS DobbyMemory

MCZeros == 2..9 \cup 44..51
MCStart == [f1 |-> 40, f2 |-> 52, f3 |-> 58]
MCSymmetry == Permutations(Thread)
(* Bound: only hooks overlap, an instruction is instrumented alone.        *)
InstrumentedAlone ==
  \A t \in Thread : pc'[t] # "idle" /\ job'[t].f \in Instrumented =>
    \A u \in Thread \ {t} : pc'[u] = "idle"
MCLows == {{}, {0}, {0, 1}}
=============================================================================
