------------------------------ MODULE RLPCursor ------------------------------
(***************************************************************************)
(* What a Stream promises (doc.go, decode.go:526): a cursor over an input  *)
(* that stands before a value, inside some lists.  It takes a value,       *)
(* enters a list, leaves a list at its end, and fails only on what is not  *)
(* RLP, or not there.                                                      *)
(*                                                                         *)
(* The layout of RLP is kept, its numbers are parameters: a byte below     *)
(* Single stands for itself; Short small sizes and Long widths of larger   *)
(* ones fill the rest, first for strings and then for lists.  In RLP they  *)
(* are 128, 56 and 8.                                                      *)
(***************************************************************************)
EXTENDS Integers, Sequences

CONSTANTS
  Single, Short, Long,
  Inputs,       \* byte sequences a new stream reads
  Again,        \* those it reads when it is used again
  Limits        \* limits of the input, in bytes; 0: none

Base == 2 * Single

VARIABLES
  input, limit,
  at,      \* the bytes before the cursor
  ends,    \* where the lists around it end, the innermost last
  got,     \* what the last operation returned
  failed

vars == <<input, limit, at, ends, got, failed>>

\* A value that starts with tag t, behind b bytes: its kind, where its content
\* starts and how long that is.
Number(b, from, n) ==
  LET f[k \in 0 .. n] == IF k = 0 THEN 0 ELSE Base * f[k - 1] + b[from + k] IN f[n]

Sized(kind, b, i, t) ==
  IF t < Short THEN [kind |-> kind, from |-> i + 1, size |-> t]
  ELSE LET n == t - Short + 1 IN
       [kind |-> kind, from |-> i + 1 + n, size |-> Number(b, i + 1, n)]

HasTag(b, i) == i < Len(b)
Width(b, i) ==          \* bytes of the size after the tag
  LET t == (b[i + 1] - Single) % (Short + Long) IN
  IF b[i + 1] < Single \/ t < Short THEN 0 ELSE t - Short + 1

Header(b, i) ==
  LET tag == b[i + 1] IN
  CASE tag < Single -> [kind |-> "Byte", from |-> i, size |-> 1]
    [] tag >= Single + Short + Long -> Sized("List", b, i, tag - Single - Short - Long)
    [] OTHER -> Sized("String", b, i, tag - Single)

\* The size is there, has no leading zero, and does not fit a short tag.
GoodHeader(b, i) ==
  /\ HasTag(b, i) /\ i + 1 + Width(b, i) <= Len(b)
  /\ Width(b, i) > 0 => b[i + 2] # 0 /\ Header(b, i).size >= Short

Visible == IF limit = 0 \/ limit > Len(input) THEN input ELSE SubSeq(input, 1, limit)
Within(n) == IF ends # <<>> THEN n <= ends[Len(ends)] ELSE limit = 0 \/ n <= limit

Value == Header(Visible, at)
End == Value.from + Value.size
Fits == GoodHeader(Visible, at) /\ Within(End)
Whole == Fits /\ End <= Len(Visible)
Content == SubSeq(Visible, Value.from + 1, End)

\* A string of one byte that should have been the byte itself.
NotShortest == Value.kind = "String" /\ Value.size = 1 /\ Content[1] < Single

Init ==
  /\ input \in Inputs /\ limit \in Limits
  /\ at = 0 /\ ends = <<>> /\ got = <<>> /\ failed = FALSE

Open == ~failed /\ UNCHANGED <<input, limit, failed>>

\* A string is returned.
Take == Open /\ Whole /\ Value.kind # "List" /\ ~NotShortest
        /\ got' = Content /\ at' = End /\ UNCHANGED ends

\* A value is returned with its header.
TakeRaw == Open /\ Whole
           /\ got' = SubSeq(Visible, at + 1, End) /\ at' = End /\ UNCHANGED ends

Enter == Open /\ Fits /\ Value.kind = "List"
         /\ ends' = Append(ends, End) /\ at' = Value.from /\ UNCHANGED got

\* A list is left at its end.  ListEnd looks at the bytes that have been read,
\* so it also leaves behind a last value that is all header and that its caller
\* has looked at: a single byte, an empty string, an empty list.
AtEnd == ends # <<>> /\ at = ends[Len(ends)]
AtTrifle == ends # <<>> /\ Fits /\ End = ends[Len(ends)]
            /\ (Value.kind = "Byte" \/ Value.size = 0)
Leave == Open /\ (AtEnd \/ AtTrifle)
         /\ at' = ends[Len(ends)] /\ ends' = SubSeq(ends, 1, Len(ends) - 1) /\ UNCHANGED got

\* Nothing well-formed is there, or no integer without leading zeros.  The cursor
\* is lost.
Fail == /\ ~failed /\ ~AtEnd
        /\ ~Whole \/ NotShortest \/ (Value.kind = "String" /\ Value.size > 1 /\ Content[1] = 0)
        /\ failed' = TRUE /\ at' = 0 /\ ends' = <<>>
        /\ UNCHANGED <<input, limit, got>>

Reset == /\ input' \in Again /\ limit' \in Limits
         /\ at' = 0 /\ ends' = <<>> /\ got' = <<>> /\ failed' = FALSE

Next == Take \/ TakeRaw \/ Enter \/ Leave \/ Fail \/ Reset

Spec == Init /\ [][Next]_vars
=============================================================================
