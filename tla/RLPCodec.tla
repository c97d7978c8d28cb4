------------------------------- MODULE RLPCodec -------------------------------
(***************************************************************************)
(* Encoding and decoding of Go values (encode.go, decode.go, raw.go of     *)
(* src/util/serialize/rlp), by the type a value has:                       *)
(*   uint n     an unsigned integer of n bytes        bytes   a byte slice *)
(*   array n    a byte array of length n              bigint  a big.Int    *)
(*   slice e    a slice of e                          raw     a RawValue   *)
(*   fixed n e  an array of n elements e                                   *)
(*   struct fs  the fields fs; a last field tail e takes what is left      *)
(*   nilptr e k a pointer tagged "nil": an empty value of kind k is nil    *)
(* A value is a string of bytes, an encoded value, a list or a rest of     *)
(* values, or nil.                                                         *)
(***************************************************************************)
EXTENDS RLPStream, SequencesExt

CONSTANTS
  Types,         \* the types of values
  ValuesOf(_),   \* some values of a type
  Chunks         \* sizes of the buffers a reader is given

Str(bytes) == [str |-> bytes]
Vals(vs) == [list |-> vs]
Rest(vs) == [rest |-> vs]
Encoded(bytes) == [raw |-> bytes]
NilOf(kind) == [nil |-> kind]

-----------------------------------------------------------------------------
\* encbuf: string data, and the headers of lists apart, because their sizes are
\* known only at their end.

Empty == [str |-> <<>>, lheads |-> <<>>, lhsize |-> 0]
SizeOf(w) == Len(w.str) + w.lhsize
Append_(w, bytes) == [w EXCEPT !.str = @ \o bytes]

HeadSize(size) == IF size < Short THEN 1 ELSE 1 + Len(Digits(size))

EncodeString(w, b) ==
  IF Len(b) = 1 /\ b[1] < Single THEN Append_(w, b)
  ELSE Append_(w, Header("String", Len(b)) \o b)

\* list: the header remembers the size of the headers before it.
BeginList(w) == [w EXCEPT !.lheads = Append(@, [offset |-> Len(w.str), size |-> w.lhsize])]

\* listEnd of header k.
EndList(w, k) ==
  LET size == SizeOf(w) - w.lheads[k].offset - w.lheads[k].size IN
  [w EXCEPT !.lheads[k].size = size, !.lhsize = @ + HeadSize(size)]

\* Pieces of the encoding: string data up to a header, the header, and so on;
\* next of encReader and toWriter pass over empty pieces.
Pieces(w) ==
  LET n == Len(w.lheads)
      before(k) == SubSeq(w.str, (IF k = 1 THEN 0 ELSE w.lheads[k - 1].offset) + 1,
                          IF k = n + 1 THEN Len(w.str) ELSE w.lheads[k].offset)
      piece(j) == LET k == (j + 1) \div 2 IN
                  IF j % 2 = 1 THEN before(k) ELSE Header("List", w.lheads[k].size)
  IN [j \in 1 .. 2 * n + 1 |-> piece(j)]

\* toBytes, toWriter: all of them in order.
ToBytes(w) == FlattenSeq(Pieces(w))

\* One Read of encReader: pieces go out until one does not fit.
RECURSIVE ReadChunk(_, _)
ReadChunk(pieces, c) ==
  LET p == SelectSeq(pieces, LAMBDA x : x # <<>>) IN
  IF p = <<>> THEN [out |-> <<>>, left |-> <<>>]
  ELSE IF Len(p[1]) > c
  THEN [out |-> SubSeq(p[1], 1, c), left |-> <<SubSeq(p[1], c + 1, Len(p[1]))>> \o Tail(p)]
  ELSE LET r == ReadChunk(Tail(p), c - Len(p[1])) IN [out |-> p[1] \o r.out, left |-> r.left]

RECURSIVE ReadAll(_, _)
ReadAll(pieces, c) ==
  LET r == ReadChunk(pieces, c) IN
  IF r.left = <<>> THEN r.out ELSE r.out \o ReadAll(r.left, c)

-----------------------------------------------------------------------------
\* Writers.  An element of a fixed or tail type is written as one of a slice.

RECURSIVE Write(_, _, _), WriteElems(_, _, _)
WriteElems(w, types, vs) ==
  IF vs = <<>> THEN w
  ELSE WriteElems(Write(w, types[1], vs[1]), Tail(types), Tail(vs))

WriteList(w, types, vs) ==
  EndList(WriteElems(BeginList(w), types, vs), Len(w.lheads) + 1)

Repeat(e, n) == [i \in 1 .. n |-> e]

\* The writer makeWriter gives a type.
Write(w, t, v) ==
  CASE t.kind \in {"uint", "bigint", "bytes", "array"} -> EncodeString(w, v.str)
    [] t.kind = "raw" -> Append_(w, v.raw)
    [] t.kind \in {"slice", "fixed"} -> WriteList(w, Repeat(t.elem, Len(v.list)), v.list)
    [] t.kind = "tail" -> WriteElems(w, Repeat(t.elem, Len(v.rest)), v.rest)
    [] t.kind = "struct" -> WriteList(w, t.fields, v.list)
    [] t.kind = "nilptr" ->
         IF "nil" \notin DOMAIN v THEN Write(w, t.elem, v)
         ELSE IF t.nilKind = "String" THEN Append_(w, <<Single>>)
         ELSE EndList(BeginList(w), Len(w.lheads) + 1)

\* EncodeToBytes.
Encode(t, v) == ToBytes(Write(Empty, t, v))

-----------------------------------------------------------------------------
\* Decoders.

WithV(r, v) == [r EXCEPT !.v = v]
Ok(r) == r.err = "nil"
As(Type(_), r) == IF Ok(r) THEN WithV(r, Type(r.v)) ELSE r

\* The number some bytes are, as its own bytes (SetBytes).
Bare(b) ==
  LET digits == {i \in DOMAIN b : b[i] # 0} IN
  IF digits = {} THEN <<>> ELSE SubSeq(b, Min(digits), Len(b))

\* Variant: leading zeros are taken.
DecodeBigInt_Lax(st) ==
  LET Known(r) == IF Ok(r) THEN WithV(r, Str(Bare(r.v))) ELSE r IN Known(Bytes(st))

\* decodeBigInt.
DecodeBigInt(st) ==
  LET Known(r) ==
        CASE ~Ok(r) -> r
          [] r.v # <<>> /\ r.v[1] = 0 -> Result(r.s, "CanonInt", 0)
          [] OTHER -> WithV(r, Str(Bare(r.v)))
  IN Known(Bytes(st))

\* decodeByteArray.  The error of Uint for a zero byte is ignored, and the byte
\* stays ahead.
DecodeByteArray(st, n) ==
  LET Filled(r) ==
        CASE ~Ok(r) -> r
          [] n = 1 /\ r.v[1] < Single -> Result(r.s, "CanonSize", 0)
          [] OTHER -> Result(r.s, "nil", Str(r.v))
      Known(k) ==
        CASE ~Ok(k) -> k
          [] k.s.kind = "List" -> Result(k.s, "ExpectedString", 0)
          [] k.s.kind = "Byte" -> IF n # 1 THEN Result(k.s, "WrongLength", 0)
                                  ELSE Result(Uint(k.s, n).s, "nil", Str(<<k.s.byteval>>))
          [] OTHER -> IF k.s.size # n THEN Result(k.s, "WrongLength", 0)
                      ELSE Filled(Read(k.s, n))
  IN Known(Kind(st))

\* A value before others, unless they fail.
Before(v, rest) == IF Ok(rest) THEN WithV(rest, <<v>> \o rest.v) ELSE rest

RECURSIVE Decode(_, _), DecodeElems(_, _), DecodeFields(_, _)

\* decodeSliceElems: elements up to the end of the list.
DecodeElems(st, e) ==
  LET First(r) ==
        CASE r.err = "EOL" -> Result(r.s, "nil", <<>>)
          [] ~Ok(r) -> r
          [] OTHER -> Before(r.v, DecodeElems(r.s, e))
  IN First(Decode(st, e))

\* The fields of a struct, or the elements of an array; one that is missing is
\* an error.
DecodeFields(st, types) ==
  LET First(r) ==
        CASE r.err = "EOL" -> Result(r.s, "TooFew", 0)
          [] ~Ok(r) -> r
          [] OTHER -> Before(r.v, DecodeFields(r.s, Tail(types)))
  IN IF types = <<>> THEN Result(st, "nil", <<>>) ELSE First(Decode(st, types[1]))

\* ListEnd after the elements: none may be left.
Finished(r) ==
  LET Left(e) == IF Ok(e) THEN WithV(e, Vals(r.v)) ELSE e IN
  IF Ok(r) THEN Left(ListEnd(r.s)) ELSE r

\* makeNilPtrDecoder.
DecodeNilPtr(st, t) ==
  LET Known(k) ==
        CASE ~Ok(k) -> k
          [] k.s.kind # "Byte" /\ k.s.size = 0 ->
               IF k.s.kind # t.nilKind THEN Result(k.s, "WrongKind", 0)
               ELSE Result(Rearmed(k.s), "nil", NilOf(t.nilKind))
          [] OTHER -> Decode(k.s, t.elem)
  IN Known(Kind(st))

\* The decoder makeDecoder gives a type.
Decode(st, t) ==
  LET Entered(l) ==
        CASE ~Ok(l) -> l
          [] t.kind = "slice" -> Finished(DecodeElems(l.s, t.elem))
          [] t.kind = "fixed" -> Finished(DecodeFields(l.s, Repeat(t.elem, t.n)))
          [] t.kind = "struct" -> Finished(DecodeFields(l.s, t.fields))
  IN CASE t.kind = "uint" -> As(Str, Uint(st, t.n))
       [] t.kind = "bigint" -> DecodeBigInt(st)
       [] t.kind = "bytes" -> As(Str, Bytes(st))
       [] t.kind = "raw" -> As(Encoded, Raw(st))
       [] t.kind = "array" -> DecodeByteArray(st, t.n)
       [] t.kind = "tail" -> As(Rest, DecodeElems(st, t.elem))
       [] t.kind = "nilptr" -> DecodeNilPtr(st, t)
       [] OTHER -> Entered(List(st))

\* DecodeBytes: one value and nothing behind it.
DecodeBytes(b, t) ==
  LET Only(r) == IF Ok(r) /\ r.s.at < Len(b) THEN Result(r.s, "MoreThanOneValue", 0) ELSE r
  IN Only(Decode(Fresh(New, b, Len(b)), t))

-----------------------------------------------------------------------------
\* raw.go: the first value of some bytes, without a Stream.

\* readSize.
ReadSize(b, n) ==
  CASE n > Len(b) -> Result(0, "UnexpectedEOF", 0)
    [] Value(SubSeq(b, 1, n)) < Short \/ b[1] = 0 -> Result(0, "CanonSize", 0)
    [] OTHER -> Result(0, "nil", Value(SubSeq(b, 1, n)))

\* Less follows the tag than the content takes.
Missing(b, tag, content) == content > Len(b) - tag

\* readKind, with the bytes of the tag and of the content.
RawKind(b) ==
  LET tag == b[1]
      lists == Single + Short + Long
      kind == IF tag < Single THEN "Byte" ELSE IF tag < lists THEN "String" ELSE "List"
      code == IF tag < lists THEN tag - Single ELSE tag - lists
      long == IF kind = "Byte" \/ code < Short THEN 0 ELSE code - Short + 1
      size == ReadSize(Tail(b), long)
      content == IF kind = "Byte" THEN 1 ELSE IF long = 0 THEN code ELSE size.v
      tagsize == IF kind = "Byte" THEN 0 ELSE long + 1
  IN CASE b = <<>> -> Result(0, "UnexpectedEOF", 0)
       [] long > 0 /\ size.err # "nil" -> Result(0, size.err, 0)
       [] kind = "String" /\ code = 1 /\ Len(b) > 1 /\ b[2] < Single -> Result(0, "CanonSize", 0)
       [] Missing(b, tagsize, content) -> Result(0, "ValueTooLarge", 0)
       [] OTHER -> Result(0, "nil", [kind |-> kind, tag |-> tagsize, size |-> content])

\* Split: kind, content, rest.
Split(b) ==
  LET k == RawKind(b) IN
  IF ~Ok(k) THEN k
  ELSE WithV(k, [kind |-> k.v.kind, content |-> SubSeq(b, k.v.tag + 1, k.v.tag + k.v.size),
                 rest |-> SubSeq(b, k.v.tag + k.v.size + 1, Len(b))])

\* CountValues.
RECURSIVE CountValues(_)
CountValues(b) ==
  LET r == Split(b)
      more == CountValues(r.v.rest)
  IN CASE b = <<>> -> Result(0, "nil", 0)
       [] ~Ok(r) -> r
       [] ~Ok(more) -> more
       [] OTHER -> WithV(more, more.v + 1)

-----------------------------------------------------------------------------
\* Properties of the bytes a new stream is given.

Given == s.at = 0 /\ s.kind = "none" /\ s.stack = <<>> /\ ~failed /\ limit = 0

\* The definition of RLP (doc.go).
RECURSIVE Defined(_)
Defined(v) ==
  CASE "nil" \in DOMAIN v -> Header(v.nil, 0)
    [] "str" \in DOMAIN v -> IF Len(v.str) = 1 /\ v.str[1] < Single THEN v.str
                            ELSE Header("String", Len(v.str)) \o v.str
    [] "raw" \in DOMAIN v -> v.raw
    [] "rest" \in DOMAIN v -> FlattenSeq([i \in DOMAIN v.rest |-> Defined(v.rest[i])])
    [] OTHER -> LET content == Defined(Rest(v.list)) IN
                Header("List", Len(content)) \o content

Samples == UNION {{[t |-> t, v |-> v, bytes |-> Defined(v)] : v \in ValuesOf(t)} : t \in Types}

\* A zero in a byte array of length 1 with something behind it in its list: the byte
\* stays ahead and is decoded again (decode.go:360, against doc.go:78-81).
RECURSIVE Retaken(_, _)
Retaken(t, v) ==
  "list" \in DOMAIN v /\
    LET n == Len(v.list)
        type(i) == IF t.kind = "struct" THEN t.fields[i] ELSE t.elem
    IN \E i \in 1 .. n : \/ i < n /\ type(i) = [kind |-> "array", n |-> 1] /\ v.list[i] = Str(<<0>>)
                        \/ Retaken(type(i), v.list[i])

\* RoundTrip: the encoding of a value is what RLP defines, however large the
\* buffers it is read with, and decodes to the value (encode.go:141-192, 233-246);
\* and only the encoding of a value decodes to it, at every type: two inputs never
\* mean the same (decode.go:45-46).  Values with a zero that is taken again are not
\* decoded so; decoding a slice of such arrays does not end.
RoundTrip ==
  Given =>
    /\ \A x \in Samples : x.bytes = s.in =>
         /\ Encode(x.t, x.v) = s.in
         /\ \A c \in Chunks : ReadAll(Pieces(Write(Empty, x.t, x.v)), c) = s.in
         /\ LET r == DecodeBytes(s.in, x.t) IN ~Retaken(x.t, x.v) => Ok(r) /\ r.v = x.v
    /\ \A t \in Types :
         LET r == DecodeBytes(s.in, t) IN Ok(r) /\ ~Retaken(t, r.v) => Encode(t, r.v) = s.in

RawList == [kind |-> "slice", elem |-> [kind |-> "raw"]]

\* RawAgrees: Split finds the value the stream reads, and no other; it alone
\* refuses a string that should have been a byte.  CountValues counts the values
\* a list is read as (raw.go:49-61, 97-101).
RawAgrees ==
  Given => LET p == Split(s.in)
               r == Raw(Fresh(New, s.in, Len(s.in)))
               n == CountValues(p.v.content)
               d == DecodeBytes(s.in, RawList)
               trifle == s.in # <<>> /\ s.in[1] = Single + 1
           IN /\ Ok(p) => Ok(r) /\ r.v = SubSeq(s.in, 1, Len(s.in) - Len(p.v.rest))
              /\ Ok(r) => Ok(p) \/ (trifle /\ p.err = "CanonSize")
              /\ Ok(p) /\ p.v.kind = "List" /\ p.v.rest = <<>> /\ Ok(n)
                   => Ok(d) /\ Len(d.v.list) = n.v

\* CodecAgrees: encoding, decoding, and splitting without a Stream agree on every
\* value and on every input, except where a zero is taken again
\* (encode.go:141-246, decode.go:45-46, raw.go:49-156).
CodecAgrees == RoundTrip /\ RawAgrees
=============================================================================
