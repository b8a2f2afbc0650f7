---------------------------- MODULE MCInlineHook ----------------------------
(***************************************************************************)
(* Small instances of InlineHook.  The functions are laid out as           *)
(* relocate.c relocates their first 8 (ARM) or 12 (Thumb) bytes:           *)
(*   armLoad   ARM: PUSH (1 word), LDR Rd,[PC,#imm] (2 and a literal)      *)
(*   armTail   ARM: MOV (1 word), BL (2 words and a literal)               *)
(*   armCall   ARM: BL (2 words and a literal), MOV (1 word)               *)
(*   thumbOdd  Thumb at a half-word: a 16-bit, two 32-bit instructions and *)
(*             a third that straddles the copied bytes and is left out     *)
(*   thumb16   Thumb, word aligned: six 16-bit instructions, each followed *)
(*             by the NOP relocate.c adds                                  *)
(***************************************************************************)
EXTENDS InlineHook, TLC

CONSTANTS armLoad, armTail, armCall, thumbOdd, thumb16

AllTargets == {armLoad, armTail, armCall, thumbOdd, thumb16}

Layout(orig, tramp, mid, calls, tcalls, end, resume, patch) ==
  [orig |-> orig, tramp |-> tramp, mid |-> mid, calls |-> calls,
   tcalls |-> tcalls, end |-> end, resume |-> resume, patch |-> patch]

LayoutOf(t) ==
  CASE t = armLoad  -> Layout(<<0, 4>>, <<0, 4>>, {8}, {}, {}, 16, 8, 8)
    [] t = armTail  -> Layout(<<0, 4>>, <<0, 4>>, {8}, {4}, {8}, 16, 8, 8)
    [] t = armCall  -> Layout(<<0, 4>>, <<0, 12>>, {4}, {0}, {4}, 16, 8, 8)
    [] t = thumbOdd -> Layout(<<0, 2, 6, 10>>, <<0, 4, 8, 12>>, {2}, {}, {}, 12, 10, 10)
    [] t = thumb16  -> Layout(<<0, 2, 4, 6, 8, 10>>, <<0, 4, 8, 12, 16, 20>>,
                              {2, 6, 10, 14, 18, 22}, {}, {}, 24, 12, 8)

mcOrigOffs   == [t \in Target |-> LayoutOf(t).orig]
mcTrampOffs  == [t \in Target |-> LayoutOf(t).tramp]
mcTrampMid   == [t \in Target |-> LayoutOf(t).mid]
mcCallOffs   == [t \in Target |-> LayoutOf(t).calls]
mcTrampCalls == [t \in Target |-> LayoutOf(t).tcalls]
mcTrampEnd   == [t \in Target |-> LayoutOf(t).end]
mcResume     == [t \in Target |-> LayoutOf(t).resume]
mcPatchLen   == [t \in Target |-> LayoutOf(t).patch]

(* Pages are interchangeable, and so are threads.                          *)
PageSymmetry == Permutations(Page)
PageThreadSymmetry == Permutations(Page) \cup Permutations(Thread)

(* State constraint: what follows a first disturbance is not explored.     *)
Undisturbed == hist = {}
=============================================================================
