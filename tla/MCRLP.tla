-------------------------------- MODULE MCRLP --------------------------------
(***************************************************************************)
(* RLP with small numbers: bytes below 8 stand for themselves, sizes 0 and *)
(* 1 fit the tag, others take one or two bytes.                            *)
(***************************************************************************)
EXTENDS RLPCodec

UInt(n) == [kind |-> "uint", n |-> n]
BytesT == [kind |-> "bytes"]
BigInt == [kind |-> "bigint"]
RawT == [kind |-> "raw"]
Array(n) == [kind |-> "array", n |-> n]
Slice(e) == [kind |-> "slice", elem |-> e]
Fixed(n, e) == [kind |-> "fixed", n |-> n, elem |-> e]
TailOf(e) == [kind |-> "tail", elem |-> e]
Struct(fs) == [kind |-> "struct", fields |-> fs]
NilPtr(e, k) == [kind |-> "nilptr", elem |-> e, nilKind |-> k]

Pair == Struct(<<UInt(1), Slice(BytesT)>>)
MCTypes == {UInt(1), UInt(2), BytesT, BigInt, RawT, Array(0), Array(1), Array(2), Slice(BytesT),
            Slice(Slice(BytesT)), Fixed(2, UInt(1)), Pair, Slice(RawT), Slice(Fixed(2, UInt(1))),
            Struct(<<BytesT, TailOf(UInt(1))>>), Fixed(2, Array(1)), Struct(<<Array(1), UInt(1)>>),
            Struct(<<BytesT, Struct(<<Array(1)>>)>>),
            Struct(<<NilPtr(UInt(1), "String"), NilPtr(Slice(BytesT), "List"), UInt(1)>>)}

Few(set, n) == UNION {[1 .. k -> set] : k \in 0 .. n}
Ints == {<<>>, <<3>>, <<9>>, <<3, 0>>}

RECURSIVE MCValuesOf(_)
MCValuesOf(t) ==
  CASE t.kind = "uint" -> {Str(b) : b \in {i \in Ints : Len(i) <= t.n}}
    [] t.kind = "bigint" -> {Str(b) : b \in Ints}
    [] t.kind = "bytes" -> {Str(b) : b \in Few({0, 9}, 1) \cup {<<9, 0>>}}
    [] t.kind = "array" -> {Str(b) : b \in [1 .. t.n -> {0, 3, 9}]}
    [] t.kind = "raw" -> {Encoded(b) : b \in {<<3>>, <<8>>, <<13, 1>>}}
    [] t.kind = "slice" -> {Vals(vs) : vs \in Few(MCValuesOf(t.elem), 2)}
    [] t.kind = "tail" -> {Rest(vs) : vs \in Few(MCValuesOf(t.elem), 2)}
    [] t.kind = "fixed" -> {Vals(vs) : vs \in [1 .. t.n -> MCValuesOf(t.elem)]}
    [] t.kind = "struct" ->
         LET f[k \in 0 .. Len(t.fields)] ==
               IF k = 0 THEN {<<>>}
               ELSE {Append(vs, v) : vs \in f[k - 1], v \in MCValuesOf(t.fields[k])}
         IN {Vals(vs) : vs \in f[Len(t.fields)]}
    [] t.kind = "nilptr" ->
         {NilOf(t.nilKind)} \cup {v \in MCValuesOf(t.elem) : v \notin {Str(<<>>), Vals(<<>>)}}

Alphabet == {0, 1, 3, 8, 9, 10, 11, 12, 13, 14, 15}
SeqsUpTo(n) == UNION {[1 .. k -> Alphabet] : k \in 0 .. n}
Strings == {<<10, n, a, b>> : n \in 1 .. 3, a \in {0, 3, 9}, b \in {0, 9}}
Nests == {<<14, n>> \o x : n \in 2 .. 4, x \in [1 .. 3 -> {1, 8, 9, 10, 12, 13, 14}]}
MCInputs == SeqsUpTo(3) \cup Strings \cup Nests \cup {x.bytes : x \in Samples}
MCAgain == {<<13, 1>>, <<>>}
==============================================================================
