------------------------------ MODULE WasmSections ------------------------------
(***************************************************************************)
(* wagon/wasm/section.go, types.go, encode.go: a module as bytes.  A       *)
(* reader is a cursor: the bytes left (s), the values read so far (v) and  *)
(* the error, after which nothing is read any more.  Numbers are small     *)
(* enough for one byte of LEB128 (others: MachineWords), and records are   *)
(* tuples of their fields.                                                 *)
(***************************************************************************)
EXTENDS Integers, Sequences, SequencesExt

Ok(c) == c.err = "none"
Start(s) == [s |-> s, v |-> <<>>, err |-> "none"]
Fail(c, err) == IF Ok(c) THEN [c EXCEPT !.err = err] ELSE c
Got(c, value, n) == [c EXCEPT !.s = SubSeq(@, n + 1, Len(@)), !.v = Append(@, value)]
\* n bytes at once, or none of them.
ReadBytes(c, n) ==
  CASE ~Ok(c) -> c
    [] Ok(c) /\ Len(c.s) < n -> Fail(c, "error")
    [] OTHER -> Got(c, SubSeq(c.s, 1, n), n)
Unsigned(c) == IF Ok(c) /\ c.s # <<>> THEN Got(c, c.s[1], 1) ELSE Fail(c, "error")
ToSigned(b) == IF b < 64 THEN b ELSE b - 128
Signed(c) == IF Ok(c) /\ c.s # <<>> THEN Got(c, ToSigned(c.s[1]), 1) ELSE Fail(c, "error")
\* What is read within a record or a list becomes one value.
Within(c, Fields(_)) ==
  LET Closed(d) == [d EXCEPT !.v = Append(c.v, @)] IN Closed(Fields([c EXCEPT !.v = <<>>]))
Latest(c) == c.v[Len(c.v)]
Rest(c) == [c EXCEPT !.v = SubSeq(@, 1, Len(@) - 1)]
\* A count, and as many entries; every entry takes a byte, and the first that fails is
\* the last.
Many(c, Entry(_)) ==
  LET Entries(n, d) ==
        Within(d, LAMBDA q : FoldLeft(LAMBDA r, i : Entry(r), q,
                               [i \in 1 .. (IF n <= Len(d.s) THEN n ELSE Len(d.s) + 1) |-> i]))
      Counted(d) == IF Ok(d) THEN Entries(Latest(d), Rest(d)) ELSE d
  IN Counted(Unsigned(c))
Text(c) == LET Counted(d) == IF Ok(d) THEN ReadBytes(Rest(d), Latest(d)) ELSE d IN Counted(Unsigned(c))
-------------------------------------------------------------------------------
ValueType(c) == Signed(c)
External(c) == Unsigned(c)
FunctionSig(c) == Within(c, LAMBDA f : Many(Many(Signed(f), ValueType), ValueType))
GlobalVar(c) ==
  LET Mutable(g) == IF Ok(g) THEN [g EXCEPT !.v[2] = @ = 1] ELSE g
  IN Within(c, LAMBDA g : Mutable(Unsigned(ValueType(g))))
\* A maximum that is not there is 0.
ResizableLimits(c) ==
  LET Maximum(l) == CASE ~Ok(l) -> l
                      [] Ok(l) /\ l.v[1] % 2 = 1 -> Unsigned(l)
                      [] OTHER -> Got(l, 0, 0)
  IN Within(c, LAMBDA l : Maximum(Unsigned(Unsigned(l))))
Table(c) == Within(c, LAMBDA t : ResizableLimits(Signed(t)))

\* The expression with its end; f32 and f64 constants have four and eight bytes.
end == 11
OperandSize == (65 :> 1) @@ (66 :> 1) @@ (67 :> 4) @@ (68 :> 8) @@ (35 :> 1)
InitExprSize(s) ==
  LET Ends[i \in 1 .. Len(s) + 9] ==
        CASE i > Len(s) -> 0
          [] i <= Len(s) /\ s[i] = end -> i
          [] i <= Len(s) /\ s[i] \in DOMAIN OperandSize -> Ends[i + 1 + OperandSize[s[i]]]
          [] OTHER -> 0
  IN Ends[1]
InitExpr(c) ==
  LET Sized(n) == IF n = 0 THEN Fail(c, "error") ELSE ReadBytes(c, n) IN Sized(InitExprSize(c.s))

ImportEntry(c) ==
  LET Type(i) == CASE ~Ok(i) -> i
                   [] Ok(i) /\ i.v[3] = 0 -> Unsigned(i)
                   [] Ok(i) /\ i.v[3] = 1 -> Table(i)
                   [] Ok(i) /\ i.v[3] = 2 -> ResizableLimits(i)
                   [] Ok(i) /\ i.v[3] = 3 -> GlobalVar(i)
                   [] OTHER -> Fail(i, "error")
  IN Within(c, LAMBDA i : Type(External(Text(Text(i)))))
GlobalEntry(c) == Within(c, LAMBDA g : InitExpr(GlobalVar(g)))
ExportEntry(c) == Within(c, LAMBDA e : Unsigned(External(Text(e))))
ElementSegment(c) == Within(c, LAMBDA e : Many(InitExpr(Unsigned(e)), Unsigned))
DataSegment(c) == Within(c, LAMBDA d : Text(InitExpr(Unsigned(d))))
LocalEntry(c) == Within(c, LAMBDA l : ValueType(Unsigned(l)))

\* The last byte of a body is looked at even when there is none.
FunctionBody(c) ==
  LET Code(b) == CASE ~Ok(b) -> b
                   [] Ok(b) /\ b.s = <<>> -> Fail(b, "panic")
                   [] Ok(b) /\ b.s # <<>> /\ b.s[Len(b.s)] # end -> Fail(b, "error")
                   [] OTHER -> Got(b, Front(b.s), Len(b.s))
      Body(b) == Code(Many(Start(b), LocalEntry))
      Outer(d, b) == IF Ok(b) THEN [d EXCEPT !.v = Append(Front(@), b.v)] ELSE Fail(d, b.err)
      Split(d) == IF Ok(d) THEN Outer(d, Body(Latest(d))) ELSE d
  IN Split(Text(c))

\* Entries by name; a name may occur once.
SectionExports(c) ==
  LET Distinct(es) == \A i, j \in DOMAIN es : es[i][1] = es[j][1] => i = j
      Keyed(d) == CASE ~Ok(d) -> d
                    [] Ok(d) /\ Distinct(Latest(d)) -> [d EXCEPT !.v[Len(d.v)] = Range(@)]
                    [] OTHER -> Fail(d, "error")
  IN Keyed(Many(c, ExportEntry))

SectionTypes(c) == Many(c, FunctionSig)
SectionImports(c) == Many(c, ImportEntry)
SectionFunctions(c) == Many(c, Unsigned)
SectionTables(c) == Many(c, Table)
SectionMemories(c) == Many(c, ResizableLimits)
SectionGlobals(c) == Many(c, GlobalEntry)
SectionStartFunction(c) == Unsigned(c)
SectionElements(c) == Many(c, ElementSegment)
SectionCode(c) == Many(c, FunctionBody)
SectionData(c) == Many(c, DataSegment)
RawSection(c) == ReadBytes(c, Len(c.s))

ReadPayload(id, c) ==
  CASE id = 0 -> RawSection(c)           [] id = 1 -> SectionTypes(c)
    [] id = 2 -> SectionImports(c)       [] id = 3 -> SectionFunctions(c)
    [] id = 4 -> SectionTables(c)        [] id = 5 -> SectionMemories(c)
    [] id = 6 -> SectionGlobals(c)       [] id = 7 -> SectionExports(c)
    [] id = 8 -> SectionStartFunction(c) [] id = 9 -> SectionElements(c)
    [] id = 10 -> SectionCode(c)         [] id = 11 -> SectionData(c)
    [] OTHER -> Fail(c, "error")
-------------------------------------------------------------------------------
\* A module: the sections there are, by number, and the custom ones.
Empty == [sections |-> <<>>, Other |-> <<>>]
With(m, id, value) ==
  IF id = 0 THEN [m EXCEPT !.Other = Append(@, value)] ELSE [m EXCEPT !.sections = (id :> value) @@ @]
\* A code section comes after its functions and their types.
CodeFits(m) ==
  /\ {1, 3} \subseteq DOMAIN m.sections
  /\ m.sections[3] # <<>> /\ Len(m.sections[3]) = Len(m.sections[10])

\* One section.  A section whose length is missing is passed over; of one that is longer
\* than what its entries take, the rest is read as the next section.
readSection(r) ==
  LET id == r.s[1]
      size == r.s[2]
      data == SubSeq(r.s, 3, Len(r.s))
      Limited == SubSeq(data, 1, IF size < Len(data) THEN size ELSE Len(data))
      Taken(c, m) ==
        [r EXCEPT !.err = CASE ~Ok(c) -> c.err [] Ok(c) /\ id = 10 /\ ~CodeFits(m) -> "error" [] OTHER -> "none",
                  !.m = m, !.s = SubSeq(data, Len(Limited) - Len(c.s) + 1, Len(data))]
      Read(c) == IF Ok(c) THEN Taken(c, With(r.m, id, c.v[1])) ELSE Taken(c, r.m)
  IN CASE ~Ok(r) \/ r.s = <<>> -> r
       [] Ok(r) /\ Len(r.s) = 1 -> [r EXCEPT !.s = <<>>]
       [] Ok(r) /\ Len(r.s) > 1 /\ id = 0 /\ Len(data) < size -> Fail(r, "error")
       [] OTHER -> Read(ReadPayload(id, Start(Limited)))

MaxSections == 16      \* that a module is read for; those written have 13
Magic == <<0, 97, 115, 109>>
DecodeModule(bytes) ==
  LET Sections(s) == FoldLeft(LAMBDA r, i : readSection(r), [m |-> Empty, s |-> s, err |-> "none"],
                              [i \in 1 .. MaxSections |-> i])
      Result(r) == [err |-> r.err, m |-> IF Ok(r) THEN r.m ELSE Empty]
  IN IF Len(bytes) < 8 \/ SubSeq(bytes, 1, 4) # Magic THEN [err |-> "error", m |-> Empty]
     ELSE Result(Sections(SubSeq(bytes, 9, Len(bytes))))
-------------------------------------------------------------------------------
writeBytesUint(p) == <<Len(p)>> \o p
WriteSigned(n) == <<n % 128>>
\* Count and entries, each in bytes.
WriteMany(entries, Write(_)) ==
  FoldLeft(LAMBDA w, e : w \o Write(e), <<Len(entries)>>, entries)

WriteNumber(n) == <<n>>
WriteFunctionSig(f) == WriteSigned(f[1]) \o WriteMany(f[2], WriteSigned) \o WriteMany(f[3], WriteSigned)
WriteGlobalVar(g) == WriteSigned(g[1]) \o <<IF g[2] THEN 1 ELSE 0>>
WriteLimits(l) == <<l[1], l[2]>> \o (IF l[1] % 2 = 1 THEN <<l[3]>> ELSE <<>>)
WriteTable(t) == WriteSigned(t[1]) \o WriteLimits(t[2])
WriteImportType(kind, type) ==
  CASE kind = 0 -> <<type>> [] kind = 1 -> WriteTable(type)
    [] kind = 2 -> WriteLimits(type) [] OTHER -> WriteGlobalVar(type)
writeImportEntry(i) ==
  writeBytesUint(i[1]) \o writeBytesUint(i[2]) \o <<i[3]>> \o WriteImportType(i[3], i[4])
WriteGlobalEntry(g) == WriteGlobalVar(g[1]) \o g[2]
WriteExportEntry(e) == writeBytesUint(e[1]) \o <<e[2], e[3]>>
WriteElementSegment(e) == <<e[1]>> \o e[2] \o WriteMany(e[3], WriteNumber)
WriteDataSegment(d) == <<d[1]>> \o d[2] \o writeBytesUint(d[3])
WriteLocalEntry(l) == <<l[1]>> \o WriteSigned(l[2])
WriteFunctionBody(f) == writeBytesUint(WriteMany(f[1], WriteLocalEntry) \o f[2] \o <<end>>)

\* The entries of a map come in any order that the sort by index leaves.
SortedExports(es) == {q \in SetToSeqs(es) : \A i, j \in DOMAIN q : i < j => q[i][3] <= q[j][3]}

WriteTypes(es) == WriteMany(es, WriteFunctionSig)
WriteImports(es) == WriteMany(es, writeImportEntry)
WriteFunctions(ts) == WriteMany(ts, WriteNumber)
WriteTables(ts) == WriteMany(ts, WriteTable)
WriteMemories(ls) == WriteMany(ls, WriteLimits)
WriteGlobals(gs) == WriteMany(gs, WriteGlobalEntry)
WriteExports(es) == WriteMany(es, WriteExportEntry)
WriteStart(index) == WriteNumber(index)
WriteElements(es) == WriteMany(es, WriteElementSegment)
WriteCode(bs) == WriteMany(bs, WriteFunctionBody)
WriteData(ds) == WriteMany(ds, WriteDataSegment)

WritePayload(id, entries) ==
  CASE id = 1 -> WriteTypes(entries)     [] id = 2 -> WriteImports(entries)
    [] id = 3 -> WriteFunctions(entries) [] id = 4 -> WriteTables(entries)
    [] id = 5 -> WriteMemories(entries)  [] id = 6 -> WriteGlobals(entries)
    [] id = 7 -> WriteExports(entries)   [] id = 8 -> WriteStart(entries)
    [] id = 9 -> WriteElements(entries)  [] id = 10 -> WriteCode(entries)
    [] OTHER -> WriteData(entries)

\* The sections in the order of their numbers, the custom ones last; the version is 1.
Written(m, exports) ==
  LET Value(id) == IF id = 7 THEN exports ELSE m.sections[id]
      Section(id) == IF id \in DOMAIN m.sections THEN <<id>> \o writeBytesUint(WritePayload(id, Value(id))) ELSE <<>>
  IN [i \in 1 .. 11 |-> Section(i)] \o [i \in DOMAIN m.Other |-> <<0>> \o writeBytesUint(m.Other[i])]
EncodeModule(m, exports) == FoldLeft(LAMBDA w, s : w \o s, Magic \o <<1, 0, 0, 0>>, Written(m, exports))
ExportsOf(m) == IF 7 \in DOMAIN m.sections THEN SortedExports(m.sections[7]) ELSE {<<>>}
-------------------------------------------------------------------------------
CONSTANTS Modules, Tokens, MaxTokens   \* what is written, and what strings to read are made of

Decoded(m) == [err |-> "none", m |-> m]
Sum(ns) == FoldLeft(+, 0, ns)
\* The module of the first so many sections of what is written.
Cut(m, n) == [sections |-> [id \in DOMAIN m.sections \cap 1 .. n |-> m.sections[id]],
              Other |-> SubSeq(m.Other, 1, n - 11)]

\* SectionsReadBack: a module that is written is read back, in whatever order its
\* exports come; what breaks off is refused, except between two sections and, as the
\* error of the length is dropped (section.go:131-133), after the number of one.
SectionsReadBack ==
  \A m \in Modules : \A exports \in ExportsOf(m) :
    \E sections \in {Written(m, exports)}, bytes \in {EncodeModule(m, exports)} :
      \E ends \in {[n \in 0 .. Len(sections) |-> 8 + Sum([i \in 1 .. n |-> Len(sections[i])])]} :
        \A k \in 0 .. Len(bytes) :
          \E decoded \in {DecodeModule(SubSeq(bytes, 1, k))} :
            IF \E n \in DOMAIN ends : k \in {ends[n], ends[n] + 1}
              THEN \E n \in DOMAIN ends : k \in {ends[n], ends[n] + 1} /\ decoded = Decoded(Cut(m, n))
              ELSE decoded.err = "error"

\* WrittenAsRead: whatever is read, out of order, repeated or followed by more than its
\* section needs, is written so that it is read as the same module again
\* (section.go:119-245, encode.go:18-83).
WrittenAsRead ==
  \A s \in UNION {[1 .. n -> Tokens] : n \in 0 .. MaxTokens} :
    \E decoded \in {DecodeModule(Magic \o <<1, 0, 0, 0>> \o s)} :
      decoded.err = "none" =>
        \A exports \in ExportsOf(decoded.m) : DecodeModule(EncodeModule(decoded.m, exports)) = decoded
==============================================================================
