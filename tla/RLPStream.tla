------------------------------ MODULE RLPStream ------------------------------
(***************************************************************************)
(* Stream (src/util/serialize/rlp/decode.go): a reader of RLP that notes,  *)
(* for every list it is in, how many bytes of it have been read.  The      *)
(* header of the value ahead is read by Kind, once, and kept with its      *)
(* error; whatever reads on discards it.                                   *)
(*                                                                         *)
(* Every method is a function of the stream that gives the stream after    *)
(* it, an error and a value.  Contents and headers are bytes; the layout   *)
(* of RLP is that of RLPCursor.                                            *)
(***************************************************************************)
EXTENDS Integers, Sequences

CONSTANTS Single, Short, Long, Inputs, Again, Limits,
          MaxUint   \* bytes of the integers that are asked for

VARIABLES
  s,       \* the Stream, with its reader
  limit,   \* inputLimit; 0: none
  got,     \* what the last operation returned
  mark,    \* history: where the header of the value ahead starts
  failed   \* history: an operation failed on what it read

vars == <<s, limit, got, mark, failed>>

Base == 2 * Single

ASSUME LayoutAssumption ==
  /\ {Single, Short, Long} \subseteq Nat /\ Short > 0 /\ Single = 2 * (Short + Long)
  /\ Limits \subseteq Nat
  /\ Again \subseteq Inputs /\ \A b \in Inputs : b \in Seq(0 .. (Base - 1))

\* An error that leaves the value where it is.
Refusals == {"EOL", "ExpectedString", "ExpectedList", "UintOverflow", "NotInList", "NotAtEOL",
             "CanonByte"}

Result(stream, err, v) == [s |-> stream, err |-> err, v |-> v]
Top(st) == st.stack[Len(st.stack)]
Room(st) == Top(st).size - Top(st).pos
Rearmed(st) == [st EXCEPT !.kind = "none"]

-----------------------------------------------------------------------------
\* Reading.

\* The innermost list has n bytes less left.
Counted(st, n) ==
  IF st.stack = <<>> THEN st ELSE [st EXCEPT !.stack[Len(st.stack)].pos = @ + n]

\* willRead: the list and the limit are charged before anything is read.
WillRead(st, n) ==
  LET s1 == Rearmed(st)
      s2 == Counted(s1, n)
  IN IF st.stack # <<>> /\ n > Room(st) THEN Result(s1, "ElemTooLarge", 0)
     ELSE IF st.limited /\ n > st.remaining THEN Result(s2, "ValueTooLarge", 0)
     ELSE Result(IF st.limited THEN [s2 EXCEPT !.remaining = @ - n] ELSE s2, "nil", 0)

\* readFull, and readByte for n = 1: what there is is read, also when it is short.
Read(st, n) ==
  LET last == st.at + n
      Charged(w) ==
        IF w.err # "nil" THEN w
        ELSE IF last > Len(st.in)
        THEN Result([w.s EXCEPT !.at = Len(st.in)], "UnexpectedEOF", 0)
        ELSE Result([w.s EXCEPT !.at = last], "nil", SubSeq(st.in, st.at + 1, last))
  IN Charged(WillRead(st, n))

Value(bytes) ==
  LET f[k \in 0 .. Len(bytes)] == IF k = 0 THEN 0 ELSE Base * f[k - 1] + bytes[k]
  IN f[Len(bytes)]

\* readUint: a leading zero is an error, but not in a single byte.
ReadUint(st, n) ==
  LET Number(r) ==
        IF r.err # "nil" THEN Result(r.s, r.err, 0)
        ELSE IF n > 1 /\ r.v[1] = 0 THEN Result(r.s, "CanonSize", 0)
        ELSE Result(r.s, "nil", Value(r.v))
  IN IF n = 0 THEN Result(Rearmed(st), "nil", 0) ELSE Number(Read(st, n))

Ahead(kind, size, byte) == [kind |-> kind, size |-> size, byte |-> byte]

\* A size that takes n bytes, and is not one a tag could hold.
LongHeader(st, kind, n) ==
  LET Sized(r) ==
        Result(r.s, IF r.err = "nil" /\ r.v < Short THEN "CanonSize" ELSE r.err,
               Ahead(kind, r.v, 0))
  IN Sized(ReadUint(st, n))

\* readKind.
ReadKind(st) ==
  LET lists == Single + Short + Long
      Tagged(r) ==
        LET b == r.v[1] IN
        IF r.err # "nil"
        THEN Result(r.s, IF st.stack = <<>> /\ r.err \in {"UnexpectedEOF", "ValueTooLarge"}
                         THEN "EOF" ELSE r.err, Ahead("Byte", 0, 0))
        ELSE IF b < Single THEN Result(r.s, "nil", Ahead("Byte", 0, b))
        ELSE IF b < Single + Short THEN Result(r.s, "nil", Ahead("String", b - Single, 0))
        ELSE IF b < lists THEN LongHeader(r.s, "String", b - (Single + Short - 1))
        ELSE IF b < lists + Short THEN Result(r.s, "nil", Ahead("List", b - lists, 0))
        ELSE LongHeader(r.s, "List", b - (lists + Short - 1))
  IN Tagged(Read(st, 1))

\* The check of Kind on the size of a value.
TooLarge(st, size) ==
  IF st.stack = <<>> THEN IF st.limited /\ size > st.remaining THEN "ValueTooLarge" ELSE "nil"
  ELSE IF size > Room(st) THEN "ElemTooLarge" ELSE "nil"

\* Kind.  The error it has found once is found again, until something is read.
Kind(st) ==
  LET Kept(r, err) ==
        Result([r.s EXCEPT !.kind = r.v.kind, !.size = r.v.size, !.byteval = r.v.byte,
                           !.kinderr = err], err, 0)
      Checked(r) == Kept(r, IF r.err = "nil" THEN TooLarge(r.s, r.v.size) ELSE r.err)
  IN IF st.kind # "none" THEN Result(st, st.kinderr, 0)
     ELSE IF st.stack # <<>> /\ Room(st) = 0
     THEN Result([st EXCEPT !.kinderr = "nil"], "EOL", 0)
     ELSE Checked(ReadKind(st))

-----------------------------------------------------------------------------
\* Values.

TakeByte(st) == Result(Rearmed(st), "nil", <<st.byteval>>)

\* Bytes.
Bytes(st) ==
  LET Known(k) ==
        LET r == Read(k.s, k.s.size) IN
        IF k.err # "nil" THEN k
        ELSE IF k.s.kind = "Byte" THEN TakeByte(k.s)
        ELSE IF k.s.kind = "List" THEN Result(k.s, "ExpectedString", 0)
        ELSE IF r.err = "nil" /\ k.s.size = 1 /\ r.v[1] < Single
             THEN Result(r.s, "CanonSize", 0) ELSE r
  IN Known(Kind(st))

\* The bytes of a number, the shortest that hold it (putint).
Digits(n) ==
  LET f[k \in Nat] == IF k = 0 THEN <<>> ELSE Append(f[k \div Base], k % Base) IN f[n]

\* puthead: the header of a string or list of some size.
Header(kind, size) ==
  LET tag == IF kind = "List" THEN Single + Short + Long ELSE Single IN
  IF size < Short THEN <<tag + size>>
  ELSE <<tag + Short - 1 + Len(Digits(size))>> \o Digits(size)

\* Raw puts a new header before the content.
Raw(st) ==
  LET Known(k) ==
        LET r == Read(k.s, k.s.size) IN
        IF k.err # "nil" THEN k
        ELSE IF k.s.kind = "Byte" THEN TakeByte(k.s)
        ELSE IF r.err # "nil" THEN r
        ELSE Result(r.s, "nil", Header(k.s.kind, k.s.size) \o r.v)
  IN Known(Kind(st))

\* uint, for integers of some number of bytes; the value as the bytes read.
Uint(st, max) ==
  LET Number(k, r) ==
        IF r.err # "nil" THEN Result(r.s, IF r.err = "CanonSize" THEN "CanonInt" ELSE r.err, 0)
        ELSE IF k.size > 0 /\ r.v < Single THEN Result(r.s, "CanonSize", 0)
        ELSE Result(r.s, "nil", SubSeq(st.in, k.at + 1, r.s.at))
      Known(k) ==
        IF k.err # "nil" THEN k
        ELSE IF k.s.kind = "Byte"
             THEN IF k.s.byteval = 0 THEN Result(k.s, "CanonByte", 0) ELSE TakeByte(k.s)
        ELSE IF k.s.kind = "List" THEN Result(k.s, "ExpectedString", 0)
        ELSE IF k.s.size > max THEN Result(k.s, "UintOverflow", 0)
        ELSE Number(k.s, ReadUint(k.s, k.s.size))
  IN Known(Kind(st))

\* List.
List(st) ==
  LET Known(k) ==
        IF k.err # "nil" THEN k
        ELSE IF k.s.kind # "List" THEN Result(k.s, "ExpectedList", 0)
        ELSE Result([Rearmed(k.s) EXCEPT !.size = 0,
                       !.stack = Append(@, [pos |-> 0, size |-> k.s.size])],
                    "nil", k.s.size)
  IN Known(Kind(st))

\* Variant: the enclosing list does not learn what the inner one took.
Popped_Forgets(st) == [st EXCEPT !.stack = SubSeq(@, 1, Len(@) - 1)]

\* A list is done: all of it is counted in the list around it.
Popped(st) ==
  LET rest == [st EXCEPT !.stack = SubSeq(@, 1, Len(@) - 1)] IN Counted(rest, Top(st).size)

\* ListEnd.
ListEnd(st) ==
  IF st.stack = <<>> THEN Result(st, "NotInList", 0)
  ELSE IF Room(st) # 0 THEN Result(st, "NotAtEOL", 0)
  ELSE Result([Rearmed(Popped(st)) EXCEPT !.size = 0], "nil", 0)

\* Reset; a new Stream is zero before it.
Fresh(st, in, lim) ==
  [st EXCEPT !.in = in, !.at = 0, !.limited = (lim > 0),
             !.remaining = IF lim > 0 THEN lim ELSE @,
             !.stack = <<>>, !.kind = "none", !.size = 0, !.byteval = 0, !.kinderr = "nil"]
New == [in |-> <<>>, at |-> 0, limited |-> FALSE, remaining |-> 0, stack |-> <<>>,
        kind |-> "none", size |-> 0, byteval |-> 0, kinderr |-> "nil"]

-----------------------------------------------------------------------------
\* A caller reads on until a read fails, as the decoders do; an operation that
\* does not fit what is ahead is refused, and another one may be tried.

Operation(r) ==
  /\ ~failed
  /\ s' = r.s
  /\ mark' = IF s.kind = "none" THEN s.at ELSE mark
  /\ failed' = (r.err \notin Refusals \cup {"nil"})
  /\ UNCHANGED limit

Returns(r) == got' = IF r.err = "nil" THEN r.v ELSE got

CallKind    == Operation(Kind(s)) /\ UNCHANGED got
CallBytes   == LET r == Bytes(s) IN Operation(r) /\ Returns(r)
CallRaw     == LET r == Raw(s) IN Operation(r) /\ Returns(r)
CallUint    == \E max \in MaxUint : LET r == Uint(s, max) IN Operation(r) /\ Returns(r)
CallList    == Operation(List(s)) /\ UNCHANGED got
CallListEnd == Operation(ListEnd(s)) /\ UNCHANGED got

\* The Stream comes out of the pool, whatever state it was put back in.
Reset ==
  \E in \in Again, lim \in Limits :
    /\ s' = Fresh(s, in, lim) /\ limit' = lim
    /\ got' = <<>> /\ mark' = 0 /\ failed' = FALSE

Init ==
  \E in \in Inputs, lim \in Limits :
    /\ s = Fresh(New, in, lim) /\ limit = lim
    /\ got = <<>> /\ mark = 0 /\ failed = FALSE

Next == CallKind \/ CallBytes \/ CallRaw \/ CallUint \/ CallList \/ CallListEnd \/ Reset

Spec == Init /\ [][Next]_vars

-----------------------------------------------------------------------------

\* RefinesCursor: the stream is a cursor over its input.  The value ahead of it
\* starts at mark when its header has been read; a list ends where what is left
\* of it, and of the lists around it, ends (doc.go; decode.go:526-536).
Ends(st) ==
  LET n == Len(st.stack)
      f[k \in 0 .. n - 1] ==       \* the end of list n - k
        IF k = 0 THEN st.at + Room(st)
        ELSE f[k - 1] + st.stack[n - k].size - st.stack[n - k].pos - st.stack[n - k + 1].size
  IN [i \in 1 .. n |-> f[n - i]]

Cursor == INSTANCE RLPCursor WITH
  input <- s.in,
  at <- IF failed THEN 0 ELSE IF s.kind = "none" THEN s.at ELSE mark,
  ends <- IF failed THEN <<>> ELSE Ends(s)

RefinesCursor == Cursor!Spec
=============================================================================
