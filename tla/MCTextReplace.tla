--------------------------- MODULE MCTextReplace ---------------------------
(***************************************************************************)
(* Instances of TextReplace: a = <<1, 0>>, A = <<2, 0>>, x a character     *)
(* outside ASCII, and units whose bytes can be taken across two of them.   *)
(***************************************************************************)
EXTENDS TextReplace

a == <<1, 0>>
A == <<2, 0>>
x == <<3, 3>>
y == <<0, 1>>       \* its high byte and the low byte of z look like a
z == <<0, 3>>

cp(c) == c \o <<0>>
emoji == <<3, 3, 1>>

Texts == {<<>>, x \o a, a \o A, y \o z, x \o x \o x \o a}

Line1 == [left |-> <<cp(a)>>, right |-> <<cp(x)>>]
ToLong == [left |-> <<cp(a)>>, right |-> <<cp(x), emoji>>]
ToNothing == [left |-> <<cp(x)>>, right |-> <<Bad, cp(a)>>]
Empty == [left |-> <<>>, right |-> <<cp(a)>>]
Pair == [left |-> <<cp(A), cp(x)>>, right |-> <<cp(a)>>]

Files == {<<Line1, Pair, ToNothing>>, <<Line1, Empty, ToLong>>, <<Line1, NoBar>>, <<>>}

Threads == {"t1", "t2"}
=============================================================================
