---------------------------- MODULE TextReplace ----------------------------
(***************************************************************************)
(* new_func_set and new_func_get: the hooks that replace the game's text   *)
(* by the map file's, in both builds of the injector: lib = "dobby" is     *)
(* inject_dobby.cpp, lib = "inline" is inject_inlinehook.cpp.  The game    *)
(* calls them on any thread; their header and middle buffers are static    *)
(* and strtok keeps one position for the process.                          *)
(*                                                                         *)
(* A string of the game is a sequence of bytes, two for each unit of       *)
(* UTF-16, low byte first.  Bytes: 0, two cases of one letter and a byte   *)
(* that is no letter.  A phrase of the map file is a sequence of code      *)
(* points <<low byte, high byte, plane>> or Bad, an invalid UTF-8 sequence.*)
(* The lines are short enough for left, right and convert_str.             *)
(***************************************************************************)
EXTENDS Integers, Sequences, SequencesExt

CONSTANTS
  Thread,     \* the game's threads that set or read text
  Lib,        \* the builds considered: subset of {"dobby", "inline"}
  Text,       \* strings the game uses
  MapFile,    \* map files: sequences of lines [left, right] or NoBar
  Stop,       \* low byte of the address end, where memccpy stops copying
  Split,      \* SplitSize, 100 in the code
  UnhookAt,   \* 500 in inject_inlinehook.cpp
  MaxCalls    \* bound: calls of the hooks

Lower == 1
Upper == 2
Bad == <<>>
NoBar == <<>>
NULL == <<-1>>

(* The map file: code points as low byte, high byte and plane.             *)
Phrase == Seq({Bad} \cup (0..255) \X (0..255) \X Nat)
MapLine == [left : Phrase, right : Phrase]

ASSUME TextAssumption ==
  /\ Lib \subseteq {"dobby", "inline"}
  /\ \A s \in Text : s \in Seq(0..255) /\ Len(s) % 2 = 0
  /\ \A f \in MapFile : f \in Seq({NoBar} \cup MapLine)
  /\ Split \in Nat /\ UnhookAt \in Nat /\ MaxCalls \in Nat
  /\ NULL \notin Text /\ Stop \subseteq 0..255

VARIABLES
  lib, file, stop,  \* the build, the buffer read from the map file, end's low byte
  alive,    \* the process runs
  pc,       \* thread -> where it is in the hook
  fn,       \* thread -> "set" or "get"
  arg,      \* thread -> the string given to set, or returned by get
  header,   \* header_set and header_get: the length field, in units
  middle,   \* middle_set and middle_get
  pos,      \* strtok's position: <<whose temp_buffer, line>> or NULL
  p,        \* thread -> the line strtok returned: the same, or NULL
  lines,    \* thread -> current_lines
  hit,      \* thread -> cp_bit - middle, the left length and right phrase
  out,      \* thread -> what the caller or the original setter got
  index,    \* current_set_index and current_get_index
  dlopenHooked,  \* the hook of dlopen is in place (inline build)
  solo,     \* thread -> no other call overlapped its call (history)
  why       \* what killed the process (history)

given == <<lib, file, stop>>
static == <<header, middle>>
local == <<fn, arg, index, dlopenHooked>>
vars == <<lib, file, stop, alive, pc, fn, arg, header, middle, pos, p, lines,
          hit, out, index, dlopenHooked, solo, why>>

Function == {"set", "get"}
NoHit == [at |-> 0, left |-> 0, right |-> <<>>]
NoOut == [len |-> 0, text |-> <<>>]
AsIs(s) == [len |-> Len(s) \div 2, text |-> s]

Init ==
  /\ lib \in Lib /\ file \in MapFile /\ stop \in Stop
  /\ alive = TRUE
  /\ pc = [t \in Thread |-> "idle"]
  /\ fn = [t \in Thread |-> "set"]
  /\ arg = [t \in Thread |-> <<>>]
  /\ header = [f \in Function |-> 0]
  /\ middle = [f \in Function |-> [i \in 1..Split |-> 0]]
  /\ pos = NULL
  /\ p = [t \in Thread |-> NULL]
  /\ lines = [t \in Thread |-> 0]
  /\ hit = [t \in Thread |-> NoHit]
  /\ out = [t \in Thread |-> NoOut]
  /\ index = [f \in Function |-> 0] /\ dlopenHooked = TRUE
  /\ solo = [t \in Thread |-> TRUE]
  /\ why = "none"

-----------------------------------------------------------------------------
(* The helpers of tools.cpp.                                               *)

(* Up to the first invalid sequence; a code point loses its plane.         *)
UTF8_to_Unicode(phrase) ==
  LET valid == SelectInSeq(phrase \o <<Bad>>, LAMBDA c : c = Bad) - 1
  IN  [i \in 1..2 * valid |-> phrase[(i + 1) \div 2][2 - (i % 2)]]

(* In place, up to and including the unit at offset length.                *)
tolower_unicode(c, length) ==
  [i \in DOMAIN c |->
     IF /\ i % 2 = 1 /\ i - 1 <= length /\ i < Len(c)
        /\ c[i] = Upper /\ c[i + 1] = 0
       THEN Lower
       ELSE c[i]]

Matches(p0, p1, o) == SubSeq(p0, o + 1, o + Len(p1)) = p1

(* Mutant: the phrase must not end the string.                             *)
memcmp_short(p0, p1, lt1) == {o \in 0..lt1 - Len(p1) - 1 : p1 # <<>> /\ Matches(p0, p1, o)}

(* The offsets, even or odd, at which p1 is found within lt1 bytes: the    *)
(* code returns the first.                                                 *)
memcmp_plus(p0, p1, lt1) == {o \in 0..lt1 - Len(p1) : p1 # <<>> /\ Matches(p0, p1, o)}

(* Mutant: a terminator is written behind the bytes copied.                *)
memccpyTerminated(s) ==
  [i \in 1..(IF Len(s) < Split THEN Split ELSE Split + 1) |-> IF i <= Len(s) THEN s[i] ELSE 0]

(* memset and memccpy of Split bytes: the copy ends after the stop byte.   *)
memccpy(s) ==
  LET cut == SelectInSeq(s, LAMBDA b : b = stop)
  IN  [i \in 1..Split |-> IF i <= Len(s) /\ (cut = 0 \/ i <= cut) THEN s[i] ELSE 0]

ByteAt(s, i) == IF i < Len(s) THEN s[i + 1] ELSE 0
-----------------------------------------------------------------------------
Goto(t, l) == pc' = [pc EXCEPT ![t] = l]
Return(t, s) ==
  /\ out' = [out EXCEPT ![t] = s]
  /\ p' = [p EXCEPT ![t] = NULL]
  /\ lines' = [lines EXCEPT ![t] = 0]
  /\ hit' = [hit EXCEPT ![t] = NoHit]
  /\ Goto(t, "idle")
Die(cause) == alive' = FALSE /\ why' = cause

(* The hook is entered: the length (dobby) or the first bytes (inline set) *)
(* are read before the pointer is compared with NULL; an empty string goes *)
(* straight to the original.                                               *)
ReadsBeforeTest(f) == lib = "dobby" \/ f = "set"
EarlySetDobby(s) == s = <<>>
EarlyGetDobby(s) == s = <<>> \/ ByteAt(s, 0) = 0
EarlySetInline(s) == ByteAt(s, 0) = 0 /\ ByteAt(s, 2) = 0
EarlyGetInline(s) == ByteAt(s, 0) = 0
Early(f, s) ==
  CASE lib = "dobby" /\ f = "set" -> EarlySetDobby(s)
    [] lib = "dobby" /\ f = "get" -> EarlyGetDobby(s)
    [] lib = "inline" /\ f = "set" -> EarlySetInline(s)
    [] lib = "inline" /\ f = "get" -> EarlyGetInline(s)

Busy == {t \in Thread : pc[t] # "idle"}

Enter(t) ==
  /\ alive /\ pc[t] = "idle" /\ index["set"] + index["get"] < MaxCalls
  /\ \E f \in Function, s \in Text \cup {NULL} :
       /\ fn' = [fn EXCEPT ![t] = f]
       /\ arg' = [arg EXCEPT ![t] = s]
       /\ index' = [index EXCEPT ![f] = @ + 1]
       /\ dlopenHooked' = (dlopenHooked /\ ~(lib = "inline" /\ index'["set"] = UnhookAt))
       /\ solo' = [u \in Thread |-> IF u = t THEN Busy = {}
                                    ELSE solo[u] /\ u \notin Busy]
       /\ \/ /\ s = NULL /\ ReadsBeforeTest(f)
             /\ Die("null")
             /\ UNCHANGED <<pc, out, p, lines, hit>>
          \/ /\ s = NULL /\ ~ReadsBeforeTest(f)
             /\ Return(t, NoOut)
             /\ UNCHANGED <<alive, why>>
          \/ /\ s # NULL /\ Early(f, s)
             /\ Return(t, AsIs(s))
             /\ UNCHANGED <<alive, why>>
          \/ /\ s # NULL /\ ~Early(f, s)
             /\ Goto(t, "header")
             /\ UNCHANGED <<out, p, lines, hit, alive, why>>
  /\ UNCHANGED <<given, static, pos>>

CopyHeader(t) ==
  /\ alive /\ pc[t] = "header"
  /\ header' = [header EXCEPT ![fn[t]] = Len(arg[t]) \div 2]
  /\ Goto(t, "middle")
  /\ UNCHANGED <<given, alive, local, middle, pos, p, lines, hit, out, solo, why>>

CopyMiddle(t) ==
  /\ alive /\ pc[t] = "middle"
  /\ middle' = [middle EXCEPT ![fn[t]] = memccpy(arg[t])]
  /\ Goto(t, "first")
  /\ UNCHANGED <<given, alive, local, header, pos, p, lines, hit, out, solo, why>>

(* strtok(s): the position moves past the token returned, to NULL after    *)
(* the last line.                                                          *)
Token(t, q) ==
  /\ p' = [p EXCEPT ![t] = q]
  /\ pos' = IF q = NULL \/ q[2] = Len(file) THEN NULL ELSE <<q[1], q[2] + 1>>

(* Mutant: strtok is given NULL and goes on where an earlier call stopped. *)
strtok_stale(t) ==
  /\ alive /\ pc[t] = "first"
  /\ Token(t, IF pos = NULL /\ file # <<>> THEN <<t, 1>> ELSE pos)
  /\ lines' = [lines EXCEPT ![t] = 0]
  /\ Goto(t, "line")
  /\ UNCHANGED <<given, alive, local, static, hit, out, solo, why>>

strtok_first(t) ==
  /\ alive /\ pc[t] = "first"
  /\ Token(t, IF file = <<>> THEN NULL ELSE <<t, 1>>)
  /\ lines' = [lines EXCEPT ![t] = 0]
  /\ Goto(t, "line")
  /\ UNCHANGED <<given, alive, local, static, hit, out, solo, why>>

(* A line is read through a buffer that its thread may have freed: the     *)
(* process may die of it, or find the old contents.                        *)
Freed(q) == q # NULL /\ pc[q[1]] = "idle"
UseAfterFree(t) ==
  /\ alive /\ pc[t] \in {"line", "next"}
  /\ Freed(IF pc[t] = "line" THEN p[t] ELSE pos)
  /\ Die("freed")
  /\ UNCHANGED <<given, pc, local, static, pos, p, lines, hit, out, solo>>

strtok_next(t) ==
  /\ alive /\ pc[t] = "next"
  /\ Token(t, pos)
  /\ lines' = [lines EXCEPT ![t] = lines[t] + 1]
  /\ Goto(t, "line")
  /\ UNCHANGED <<given, alive, local, static, hit, out, solo, why>>

(* After the last line the buffers are freed; set passes the string it was *)
(* given, get asks the original again.                                     *)
NoLine(t) ==
  /\ alive /\ pc[t] = "line" /\ p[t] = NULL
  /\ Return(t, AsIs(arg[t]))
  /\ UNCHANGED <<given, alive, local, static, pos, solo, why>>

(* strlen is given the NULL of strstr, even for the first line.            *)
NoBarLine(t) ==
  /\ alive /\ pc[t] = "line" /\ p[t] # NULL /\ file[p[t][2]] = NoBar
  /\ Die("nobar")
  /\ UNCHANGED <<given, pc, local, static, pos, p, lines, hit, out, solo>>

(* A line with a bar.  The first is skipped.  Of any other the left phrase *)
(* and as much of the shared middle buffer are made lower case, then       *)
(* dobby looks for the phrase anywhere in a short string, inline at its    *)
(* beginning.                                                              *)
OffsetsDobby(t, mid, left) ==
  IF Len(arg[t]) < Split /\ Len(left) < Split THEN memcmp_plus(mid, left, Len(arg[t])) ELSE {}
OffsetsInline(mid, left) == IF Matches(mid, left, 0) THEN {0} ELSE {}
Offsets(t, mid, left) ==
  IF lib = "dobby" THEN OffsetsDobby(t, mid, left) ELSE OffsetsInline(mid, left)

Line(t) ==
  /\ alive /\ pc[t] = "line" /\ p[t] # NULL /\ file[p[t][2]] # NoBar
  /\ LET line == file[p[t][2]]
         unit == UTF8_to_Unicode(line.left)
         left == tolower_unicode(unit, Len(unit))
         mid == tolower_unicode(middle[fn[t]], Len(unit))
         offsets == Offsets(t, mid, left)
     IN  IF lines[t] = 0
           THEN Goto(t, "next") /\ UNCHANGED <<middle, hit>>
           ELSE /\ middle' = [middle EXCEPT ![fn[t]] = mid]
                /\ IF offsets = {}
                     THEN Goto(t, "next") /\ UNCHANGED hit
                     ELSE /\ hit' = [hit EXCEPT ![t] =
                               [at |-> Min(offsets), left |-> Len(left), right |-> line.right]]
                          /\ Goto(t, IF lib = "dobby" THEN "length" ELSE "build")
  /\ UNCHANGED <<given, alive, local, header, pos, p, lines, out, solo, why>>

(* The string that replaces it.  dobby puts the right phrase between what  *)
(* precedes and what follows the left one in the middle buffer.  It counts *)
(* the bytes of the three parts, writes half their sum into the header it  *)
(* shares with every call of the hook, and then copies that header and the *)
(* three parts.  inline keeps the right phrase alone and the old length,   *)
(* and its get frees the string and returns the original's.                *)
LengthStart(t) == hit[t].at
LengthRight(t) == Len(UTF8_to_Unicode(hit[t].right))
LengthEnd(t) == Len(arg[t]) - LengthStart(t) - hit[t].left

(* Mutant: the bytes left are counted as if the left phrase stayed.        *)
LengthMiddleWithLeft(t) == LengthStart(t) + LengthRight(t) + (Len(arg[t]) - LengthStart(t))

LengthMiddle(t) == LengthStart(t) + LengthRight(t) + LengthEnd(t)

CopiedFrom(t, first, length) == SubSeq(middle[fn[t]], first + 1, first + length)
BuiltDobby(t) ==
  CopiedFrom(t, 0, LengthStart(t)) \o UTF8_to_Unicode(hit[t].right)
    \o CopiedFrom(t, LengthStart(t) + hit[t].left, LengthEnd(t))
BuiltSetInline(t) == [len |-> header["set"], text |-> UTF8_to_Unicode(hit[t].right)]
BuiltGetInline(t) == AsIs(arg[t])

SetLength(t) ==
  /\ alive /\ lib = "dobby" /\ pc[t] = "length"
  /\ header' = [header EXCEPT ![fn[t]] = LengthMiddle(t) \div 2]
  /\ Goto(t, "build")
  /\ UNCHANGED <<given, alive, local, middle, pos, p, lines, hit, out, solo, why>>

Build(t) ==
  /\ alive /\ pc[t] = "build"
  /\ Return(t, IF lib = "dobby" THEN [len |-> header[fn[t]], text |-> BuiltDobby(t)]
               ELSE IF fn[t] = "set" THEN BuiltSetInline(t) ELSE BuiltGetInline(t))
  /\ UNCHANGED <<given, alive, local, static, pos, solo, why>>

Step(t) ==
  \/ CopyHeader(t)
  \/ CopyMiddle(t)
  \/ strtok_first(t)
  \/ strtok_next(t)
  \/ UseAfterFree(t)
  \/ NoLine(t)
  \/ NoBarLine(t)
  \/ Line(t)
  \/ SetLength(t)
  \/ Build(t)

Next == \E t \in Thread : Enter(t) \/ Step(t)

Spec == Init /\ [][Next]_vars

-----------------------------------------------------------------------------
(* The types; the static buffers keep their size (memccpy), and the only   *)
(* ends of the process are the three that `why' names.                     *)
TypeOK ==
  /\ alive \in BOOLEAN /\ dlopenHooked \in BOOLEAN
  /\ pc \in [Thread -> {"idle", "header", "middle", "first", "line", "next", "length", "build"}]
  /\ fn \in [Thread -> Function]
  /\ \A f \in Function : header[f] \in Nat /\ middle[f] \in Seq(0..255) /\ Len(middle[f]) = Split
  /\ index \in [Function -> 0..MaxCalls]
  /\ why \in {"none", "null", "nobar", "freed"} /\ alive = (why = "none")

(* What the map asks for a string: the first line, after the first of the  *)
(* file, whose left phrase occurs in it, and the string with the first     *)
(* occurrence replaced.                                                    *)
LeftOf(k) == LET u == UTF8_to_Unicode(file[k].left) IN tolower_unicode(u, Len(u))
Occurs(k, s) ==
  {o \in 0..Len(s) - 1 : LeftOf(k) # <<>> /\ o + Len(LeftOf(k)) <= Len(s) /\ Matches(s, LeftOf(k), o)}
Lines(s) == {k \in 2..Len(file) : file[k] # NoBar /\ Occurs(k, s) # {}}

Wanted(s) ==
  IF Lines(s) = {} THEN s
  ELSE LET k == Min(Lines(s))
           o == Min(Occurs(k, s))
       IN  SubSeq(s, 1, o) \o UTF8_to_Unicode(file[k].right)
             \o SubSeq(s, o + Len(LeftOf(k)) + 1, Len(s))

(* A string the copy in middle holds whole, without capitals, in which no  *)
(* phrase straddles two units, and that is not too long for the search.    *)
Plain(s) ==
  /\ stop \notin Range(s)
  /\ tolower_unicode(s, Len(s)) = s
  /\ \A k \in Lines(s) : \A o \in Occurs(k, s) : o % 2 = 0
  /\ Len(s) < Split

Ended(t) == alive /\ pc[t] = "idle" /\ arg[t] # NULL /\ solo[t]

(* The hook of get tests the first byte behind the header as if it were    *)
(* the whole first unit: a string that begins with a character U+xx00 is   *)
(* returned as it is.                                                      *)
TakenForEmpty(t) == fn[t] = "get" /\ arg[t] # <<>> /\ ByteAt(arg[t], 0) = 0

(* A call of the dobby build that no other call overlapped hands on the    *)
(* game's string as the map wants it, the length field included, whatever  *)
(* calls came before through the same buffers.  The hook of get does not   *)
(* look at a string it takes for empty.                                    *)
ReplacedAsMapped ==
  \A t \in Thread :
    lib = "dobby" /\ Ended(t) /\ Plain(arg[t]) /\ ~TakenForEmpty(t)
      => out[t] = AsIs(Wanted(arg[t]))

(* For any string, capitals and cut copies included, a call of the dobby   *)
(* build that no other overlapped never gives Unity a length field that    *)
(* disagrees with the characters: the field is counted from the lengths of *)
(* the parts, goes through a header that all calls share, and the          *)
(* characters are copied from elsewhere.                                   *)
LengthAgrees ==
  \A t \in Thread :
    lib = "dobby" /\ Ended(t) => 2 * out[t].len = Len(out[t].text)

(* The hooks kill the game only through a NULL string, a line without a    *)
(* bar, or strtok's position shared by two calls under way at once.        *)
FreedNeedsOverlap ==
  (why = "freed") => (\E t \in Thread : pc[t] # "idle" /\ ~solo[t])

(* A call that no other overlaps examines its own copy of the map file,    *)
(* line after line, so its loop ends with the file: strtok's position left *)
(* behind by an earlier call, even one that returned in mid-file, is never *)
(* taken up again.                                                         *)
OwnLinesInOrder ==
  \A t \in Thread :
    alive /\ solo[t] /\ pc[t] \in {"line", "length", "build"} =>
      p[t] = IF lines[t] < Len(file) THEN <<t, lines[t] + 1>> ELSE NULL

(* What the comment at inject_dobby.cpp:273 allows for: "the second        *)
(* argument of set may be 0".                                              *)
NullPassedOn == why # "null"
=============================================================================
