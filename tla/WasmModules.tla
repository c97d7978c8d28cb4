------------------------------ MODULE WasmModules ------------------------------
(***************************************************************************)
(* ReadModule (src/wagon/wasm/module.go, index.go, imports.go and          *)
(* init_expr.go): a module is decoded, takes what it imports from modules  *)
(* read before, and fills its index spaces, its table and its memory.      *)
(* Tables and memories are slices: an importer shares the array of the     *)
(* exporter, and goes on with an array of its own when it needs a longer   *)
(* one.                                                                    *)
(*                                                                         *)
(* A declaration is what DecodeModule makes of the bytes: the sections     *)
(* there are, and their entries.  Indices start at 0, as in the code.      *)
(***************************************************************************)
EXTENDS Integers, Sequences, SequencesExt

CONSTANTS
  Decls,       \* decoded modules
  Signatures,  \* signatures of functions
  MaxReads     \* modules that are read

ASSUME ReadsAssumption == MaxReads \in Nat

GlobalEntry == [mutable : BOOLEAN, type : STRING]
ImportEntry == [from : Nat, field : STRING, kind : STRING, type : Nat]
Segment == [index : Nat, offset : Seq([op : STRING, v : Int]), data : Seq(Int)]

\* What the decoder makes of the sections: an index may be out of range.
ASSUME DeclsAssumption ==
  \A decl \in Decls :
    /\ decl.types \in Seq(Signatures) /\ decl.funcs \in Seq(Nat)
    /\ decl.globals \in Seq(GlobalEntry) /\ decl.imports \in Seq(ImportEntry)
    /\ decl.tables \in Nat /\ decl.bodies \in Nat
    /\ decl.elems \in Seq(Segment) /\ decl.data \in Seq(Segment)

VARIABLES
  heap,     \* the arrays behind tables and memories
  mods,     \* the modules that have been read
  m,        \* the module that is being read
  phase,    \* what ReadModule does next
  todo,     \* entries this phase has left
  reads     \* modules begun

vars == <<heap, mods, m, phase, todo, reads>>

\* A nil slice; one that is not nil is its array.
Nil == 0
ArrayOf(h, ref) == IF ref = Nil THEN <<>> ELSE h[ref]
At(seq, i) == seq[i + 1]
Index(seq) == 0 .. (Len(seq) - 1)
Has(decl, section) == section \in decl.has

-----------------------------------------------------------------------------
\* readSection refuses a code section that does not match the function section.
Decodable(decl) ==
  Has(decl, "code") => /\ Has(decl, "function") /\ decl.funcs # <<>>
                       /\ Len(decl.funcs) = decl.bodies
                       /\ Has(decl, "types")

\* funcs: FunctionIndexSpace; bodies: Code.Bodies; types: Function.Types; taken:
\* imports.Funcs; found: history, the memory before the module's own segments.
NoModule == [decl |-> <<>>, funcs |-> <<>>, bodies |-> <<>>, types |-> <<>>, taken |-> <<>>,
             globals |-> <<>>, tables |-> <<>>, mem |-> Nil, found |-> <<>>]

\* A body is known by its module and its place in the code section.
Decoded(decl) ==
  [NoModule EXCEPT !.decl = decl, !.types = decl.funcs,
                   !.bodies = [k \in 1 .. decl.bodies |-> <<Len(mods) + 1, k>>],
                   !.tables = [t \in 1 .. decl.tables |-> Nil]]

\* A module has a memory, and the tables it declares, all empty.
Begin ==
  /\ phase = "idle" /\ reads < MaxReads
  /\ \E decl \in Decls :
       /\ Decodable(decl)
       /\ m' = Decoded(decl)
       /\ todo' = decl.imports
  /\ phase' = "imports" /\ reads' = reads + 1
  /\ UNCHANGED <<heap, mods>>

\* An error gives up the module; what it has done to other modules stays.
Refuse == phase' = "idle" /\ m' = NoModule /\ todo' = <<>> /\ UNCHANGED <<heap, mods, reads>>

\* An index out of range, or a section that is not there.
Panic == phase' = "panicked" /\ m' = NoModule /\ todo' = <<>> /\ UNCHANGED <<heap, mods, reads>>

-----------------------------------------------------------------------------
\* resolveImports, one entry.

Entry == Head(todo)
Exporter == mods[Entry.from]
Exported == Exporter.decl.exports[Entry.field]

\* The resolver knows the modules that have been read.
Exports ==
  /\ Entry.from \in DOMAIN mods
  /\ Has(Exporter.decl, "export")
  /\ Entry.field \in DOMAIN Exporter.decl.exports
  /\ Exported.kind = Entry.kind

Importing == phase = "imports" /\ todo # <<>>
Imported == todo' = Tail(todo) /\ UNCHANGED <<heap, mods, phase, reads>>

ImportUnknown == Importing /\ ~Exports /\ Refuse

\* Variant: the body is put where the index of the function says.
AddFunction_Front(f) ==
  [m EXCEPT !.funcs = Append(@, f), !.bodies = <<f.body>> \o @, !.taken = Append(@, Len(@))]

\* A function goes into three lists; the third has its number among the imported
\* functions where Function.Types has the index of a signature.
AddFunction(f) ==
  [m EXCEPT !.funcs = Append(@, f), !.bodies = Append(@, f.body), !.taken = Append(@, Len(@))]

ImportFunction ==
  /\ Importing /\ Exports /\ Exported.kind = "func"
  /\ IF Exported.index \notin Index(Exporter.funcs) THEN Refuse
     ELSE IF ~Has(m.decl, "types") \/ Entry.type \notin Index(m.decl.types) THEN Panic
     ELSE IF At(Exporter.funcs, Exported.index).sig # At(m.decl.types, Entry.type) THEN Refuse
     ELSE IF ~Has(m.decl, "code") THEN Panic
     ELSE /\ m' = AddFunction(At(Exporter.funcs, Exported.index))
          /\ Imported

ImportGlobal ==
  /\ Importing /\ Exports /\ Exported.kind = "global"
  /\ IF Exported.index \notin Index(Exporter.globals) THEN Refuse
     ELSE IF At(Exporter.globals, Exported.index).mutable THEN Refuse
     ELSE /\ m' = [m EXCEPT !.globals = Append(@, At(Exporter.globals, Exported.index))]
          /\ Imported

\* The first table is taken, whatever the index; the importer must have one.
ImportTable ==
  /\ Importing /\ Exports /\ Exported.kind = "table"
  /\ IF Exported.index \notin Index(Exporter.tables) THEN Refuse
     ELSE IF m.tables = <<>> THEN Panic
     ELSE m' = [m EXCEPT !.tables[1] = Exporter.tables[1]] /\ Imported

ImportMemory ==
  /\ Importing /\ Exports /\ Exported.kind = "memory"
  /\ IF Exported.index # 0 THEN Refuse
     ELSE m' = [m EXCEPT !.mem = Exporter.mem] /\ Imported

-----------------------------------------------------------------------------
\* Index spaces.

PopulateGlobals ==
  /\ phase = "imports" /\ todo = <<>>
  /\ m' = [m EXCEPT !.globals = @ \o m.decl.globals]
  /\ phase' = "functions"
  /\ UNCHANGED <<heap, mods, todo, reads>>

\* The own functions, each with the body at its index in Code.Bodies: no entry
\* there changes any more.
Own == [k \in DOMAIN m.types |-> [sig |-> At(m.decl.types, m.types[k]), body |-> m.bodies[k]]]

PopulateFunctions ==
  /\ phase = "functions"
  /\ IF ~Has(m.decl, "types") \/ ~Has(m.decl, "function")
     THEN m' = m /\ phase' = "tables" /\ todo' = m.decl.elems /\ UNCHANGED <<heap, mods, reads>>
     ELSE IF ~Has(m.decl, "code") /\ m.types # <<>>
             /\ m.types[1] \in Index(m.decl.types) THEN Panic
     ELSE IF \E k \in DOMAIN m.types : m.types[k] \notin Index(m.decl.types)
     THEN Refuse
     ELSE /\ m' = [m EXCEPT !.funcs = @ \o Own, !.types = m.taken \o @]
          /\ phase' = "tables" /\ todo' = m.decl.elems
          /\ UNCHANGED <<heap, mods, reads>>

-----------------------------------------------------------------------------
\* ExecInitExpr.  A global pushes nothing, but gives the result its type.

Executed(globals, r, op) ==
  IF r.err THEN r
  ELSE IF op.op # "get" THEN [r EXCEPT !.type = op.op, !.stack = Append(@, op.v)]
  ELSE IF op.v \in Index(globals) THEN [r EXCEPT !.type = At(globals, op.v).type]
  ELSE [r EXCEPT !.err = TRUE]

ExecInitExpr(globals, expr) ==
  LET result[n \in 0 .. Len(expr)] ==
        IF n = 0 THEN [err |-> FALSE, type |-> "none", stack |-> <<>>]
        ELSE Executed(globals, result[n - 1], expr[n])
  IN result[Len(expr)]

Gives(expr) == LET r == ExecInitExpr(m.globals, expr) IN ~r.err /\ r.stack # <<>> /\ r.type = "i32"
Offset(expr) == Last(ExecInitExpr(m.globals, expr).stack)

\* Variant: what was there is not copied.
Grown_Bare(old, offset, new) ==
  [i \in 1 .. (offset + Len(new)) |-> IF i > offset THEN new[i - offset] ELSE 0]

\* A longer array: the new elements are put in place, and then the old array over
\* them, whatever it covers.
Grown(old, offset, new) ==
  [i \in 1 .. (offset + Len(new)) |->
     IF i <= Len(old) THEN old[i] ELSE IF i > offset THEN new[i - offset] ELSE 0]

Over(old, offset, new) ==
  [i \in DOMAIN old |-> IF i > offset /\ i <= offset + Len(new) THEN new[i - offset] ELSE old[i]]

\* Variant: the array is extended where it is.
Put_InPlace(h, ref, offset, new) ==
  LET old == ArrayOf(h, ref)
      longer == offset + Len(new) > Len(old)
  IN IF ref = Nil THEN IF longer THEN [heap |-> Append(h, Grown(old, offset, new)), ref |-> Len(h) + 1]
                       ELSE [heap |-> h, ref |-> ref]
     ELSE [heap |-> [h EXCEPT ![ref] = IF longer THEN Grown(old, offset, new)
                                       ELSE Over(old, offset, new)], ref |-> ref]

\* The heap and the slice after elements are put at an offset.
Put(h, ref, offset, new) ==
  LET old == ArrayOf(h, ref) IN
  IF offset + Len(new) > Len(old)
  THEN [heap |-> Append(h, Grown(old, offset, new)), ref |-> Len(h) + 1]
  ELSE IF ref = Nil THEN [heap |-> h, ref |-> ref]
  ELSE [heap |-> [h EXCEPT ![ref] = Over(old, offset, new)], ref |-> ref]

\* populateTables, one segment; a module without a table section has none.
PopulateTable ==
  /\ phase = "tables" /\ todo # <<>> /\ Has(m.decl, "table") /\ m.decl.tables > 0
  /\ LET e == Entry
         put == Put(heap, At(m.tables, e.index), Offset(e.offset), e.data)
     IN IF e.index \notin Index(m.tables) \/ ~Gives(e.offset) THEN Refuse
        ELSE IF Offset(e.offset) < 0 THEN Panic
        ELSE /\ heap' = put.heap /\ m' = [m EXCEPT !.tables[e.index + 1] = put.ref]
             /\ todo' = Tail(todo)
             /\ UNCHANGED <<mods, phase, reads>>

TablesPopulated ==
  /\ phase = "tables" /\ (todo = <<>> \/ ~Has(m.decl, "table") \/ m.decl.tables = 0)
  /\ phase' = "memory" /\ todo' = m.decl.data
  /\ m' = [m EXCEPT !.found = ArrayOf(heap, m.mem)]
  /\ UNCHANGED <<heap, mods, reads>>

\* populateLinearMemory, one segment.
PopulateMemory ==
  /\ phase = "memory" /\ todo # <<>>
  /\ LET e == Entry
         put == Put(heap, m.mem, Offset(e.offset), e.data)
     IN IF e.index # 0 \/ ~Gives(e.offset) THEN Refuse
        ELSE IF Offset(e.offset) < 0 THEN Panic
        ELSE /\ heap' = put.heap /\ m' = [m EXCEPT !.mem = put.ref]
             /\ todo' = Tail(todo)
             /\ UNCHANGED <<mods, phase, reads>>

Finish ==
  /\ phase = "memory" /\ todo = <<>>
  /\ mods' = Append(mods, m) /\ m' = NoModule /\ phase' = "idle"
  /\ UNCHANGED <<heap, todo, reads>>

Init ==
  /\ heap = <<>> /\ mods = <<>> /\ m = NoModule
  /\ phase = "idle" /\ todo = <<>> /\ reads = 0

Next ==
  \/ Begin \/ ImportUnknown \/ ImportFunction \/ ImportGlobal \/ ImportTable \/ ImportMemory
  \/ PopulateGlobals \/ PopulateFunctions \/ PopulateTable \/ TablesPopulated
  \/ PopulateMemory \/ Finish

Spec == Init /\ [][Next]_vars

-----------------------------------------------------------------------------

\* FunctionsResolve: the function index space of a module that has been read is
\* what it imports, in order, and then its own functions, each with its own
\* signature and the body that was decoded for it, however many modules a function
\* was exported through; Function.Types is as long, and has the signature of every
\* own function at its index.  The entries it has for imported functions are their
\* numbers, not signatures (index.go:36-59, imports.go:172-195).
Taken(read, decl) ==
  LET taken[n \in 0 .. Len(decl.imports)] ==
        IF n = 0 THEN <<>>
        ELSE LET e == decl.imports[n] IN
             IF e.kind # "func" THEN taken[n - 1]
             ELSE Append(taken[n - 1],
                         At(read[e.from].funcs, read[e.from].decl.exports[e.field].index))
  IN taken

Typing(decl) == Has(decl, "types") /\ Has(decl, "function")
OwnOf(decl, k) ==
  IF Typing(decl)
  THEN [j \in DOMAIN decl.funcs |-> [sig |-> At(decl.types, decl.funcs[j]), body |-> <<k, j>>]]
  ELSE <<>>

Space(read, decl) == Taken(read, decl)[Len(decl.imports)] \o OwnOf(decl, Len(read) + 1)

\* The function index spaces of modules read one after the other.
Meaning(decls) ==
  LET read[k \in 0 .. Len(decls)] ==
        IF k = 0 THEN <<>>
        ELSE Append(read[k - 1], [decl |-> decls[k], funcs |-> Space(read[k - 1], decls[k])])
  IN read[Len(decls)]

\* Function.Types beside the function index space.
Aligned(read) ==
  /\ Len(read.types) = Len(read.funcs)
  /\ \A i \in (Len(read.taken) + 1) .. Len(read.funcs) :
       At(read.decl.types, read.types[i]) = read.funcs[i].sig

FunctionsResolve ==
  LET read == Meaning([k \in DOMAIN mods |-> mods[k].decl]) IN
  \A k \in DOMAIN mods :
    /\ mods[k].funcs = read[k].funcs
    /\ Typing(mods[k].decl) => Aligned(mods[k])

\* SegmentsLoaded: when a module has been read each byte of its memory is that of
\* the last segment that landed on it, or what was found in the memory, imported
\* or empty, before the first segment.  A segment lands on all its places, but for
\* one: where it begins inside the memory and ends beyond it, what was inside stays
\* (index.go:148-166).
EndOf(e) == Offset(e.offset) + Len(e.data)
Extent(e) == (Offset(e.offset) + 1) .. EndOf(e)

\* Before segment k the memory has n bytes or more.
Reaches(data, k, n) == n <= Len(m.found) \/ \E l \in 1 .. (k - 1) : n <= EndOf(data[l])
Lands(data, k, i) ==
  /\ i \in Extent(data[k])
  /\ Reaches(data, k, i) => Reaches(data, k, EndOf(data[k]))

SegmentsLoaded ==
  phase = "memory" /\ todo = <<>> =>
    LET data == m.decl.data
        memory == ArrayOf(heap, m.mem)
    IN
    /\ \A k \in DOMAIN data : EndOf(data[k]) <= Len(memory)
    /\ \A i \in DOMAIN memory :
         /\ \A k \in DOMAIN data :
              Lands(data, k, i) /\ (\A l \in (k + 1) .. Len(data) : ~Lands(data, l, i))
                => memory[i] = data[k].data[i - Offset(data[k].offset)]
         /\ (\A k \in DOMAIN data : ~Lands(data, k, i))
              => memory[i] = IF i <= Len(m.found) THEN m.found[i] ELSE 0

\* The modules it imports a memory from.
Sources(decl) == {e.from : e \in {i \in Range(decl.imports) : i.kind = "memory"}}

\* KeepsOthers: reading a module, also one that is then refused, changes another
\* module's memory only if it imports it, itself or through others, and only where
\* its segments are; the memory keeps its length (index.go:158-167).
Closed(S) == \A x \in S : Sources(mods[x].decl) \cap DOMAIN mods \subseteq S
Lineage(decl) ==     \* the modules whose memory it can have got
  {x \in DOMAIN mods :
     \A S \in SUBSET DOMAIN mods :
       Closed(S) /\ Sources(decl) \cap DOMAIN mods \subseteq S => x \in S}
Related(k) == ({k} \cup Lineage(mods[k].decl)) \cap Lineage(m.decl) # {}

Changed(k, i) == ArrayOf(heap', mods[k].mem)[i] # ArrayOf(heap, mods[k].mem)[i]

KeepsOthers ==
  [][\A k \in DOMAIN mods :
       /\ Len(ArrayOf(heap', mods[k].mem)) = Len(ArrayOf(heap, mods[k].mem))
       /\ \A i \in DOMAIN ArrayOf(heap, mods[k].mem) :
            Changed(k, i) => /\ phase = "memory" /\ i \in Extent(Entry)
                             /\ Related(k)]_vars
==============================================================================
