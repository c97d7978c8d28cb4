--------------------------- MODULE WasmModulesProofs ---------------------------
(***************************************************************************)
(* Proofs about WasmModules, for any modules that import from each other   *)
(* in any way: what reading one does to the memories of the others, what   *)
(* its own memory holds, and what its function indices mean.               *)
(***************************************************************************)
EXTENDS WasmModules, FiniteSetTheorems, TLAPS

\* A set of natural numbers that is not empty has a least one: the intervals up to
\* its elements are finite sets, ordered as the elements are.
LEMMA LeastNat ==
  ASSUME NEW S \in SUBSET Nat, S # {}
  PROVE  \E x \in S : \A y \in S : x <= y
<1> DEFINE R == StrictSubsetOrdering(Nat)
           Below == {0 .. x : x \in S}
<1>1. IsWellFoundedOn(R, FiniteSubsetsOf(Nat))
  BY FS_StrictSubsetOrderingWellFounded
<1>2. Below \subseteq FiniteSubsetsOf(Nat)
  <2>1. \A x \in S : 0 .. x \subseteq Nat /\ IsFiniteSet(0 .. x)
    BY FS_Interval
  <2> QED
    BY <2>1 DEF FiniteSubsetsOf
<1>3. Below # {}
  OBVIOUS
<1> HIDE DEF R
<1>4. PICK b \in Below : \A c \in Below : ~ (<<c, b>> \in R)
  BY <1>1, <1>2, <1>3, WFMin, Zenon
<1>5. PICK x \in S : b = 0 .. x
  OBVIOUS
<1>6. \A y \in S : y < x => <<0 .. y, b>> \in R
  <2> TAKE y \in S
  <2> HAVE y < x
  <2>1. 0 .. y \in SUBSET Nat /\ b \in SUBSET Nat
    BY <1>5
  <2>2. 0 .. y \subseteq b /\ x \in b /\ x \notin 0 .. y
    BY <1>5
  <2> QED
    BY <2>1, <2>2 DEF R, StrictSubsetOrdering
<1>7. \A y \in S : x <= y
  <2> TAKE y \in S
  <2>1. 0 .. y \in Below
    OBVIOUS
  <2>2. ~ (y < x)
    BY <1>4, <1>6, <2>1
  <2> QED
    BY <2>2
<1> QED
  BY <1>7

-----------------------------------------------------------------------------
Function == [sig : Signatures, body : Nat \X Nat]
Module == [decl : Decls, funcs : Seq(Function), bodies : Seq(Nat \X Nat), types : Seq(Nat),
           taken : Seq(Nat), globals : Seq(GlobalEntry), tables : Seq(Nat), mem : Nat,
           found : Seq(Int)]
Instructions == [op : STRING, v : Int]
Reading == {"imports", "functions", "tables", "memory"}

\* What is left of a list of entries is its end.
Rest(seq) ==
  /\ Len(todo) <= Len(seq)
  /\ \A i \in 1 .. Len(todo) : todo[i] = seq[Len(seq) - Len(todo) + i]

Typed ==
  /\ heap \in Seq(Seq(Int)) /\ mods \in Seq(Module)
  /\ phase \in Reading \cup {"idle", "panicked"}
  /\ phase \in Reading => m \in Module
  /\ phase \notin Reading => m = NoModule
  /\ phase = "imports" => todo \in Seq(ImportEntry) /\ Rest(m.decl.imports)
  /\ phase = "functions" => todo = <<>>
  /\ phase = "tables" => todo \in Seq(Segment) /\ Rest(m.decl.elems)
  /\ phase = "memory" => todo \in Seq(Segment) /\ Rest(m.decl.data)

-----------------------------------------------------------------------------
\* The entries that are left lose the first.
LEMMA RestTail ==
  ASSUME NEW S, NEW seq \in Seq(S), todo \in Seq(S), todo # <<>>, Rest(seq),
         todo' = Tail(todo)
  PROVE  /\ todo' \in Seq(S) /\ Len(todo') = Len(todo) - 1 /\ Len(todo') <= Len(seq)
         /\ \A i \in 1 .. Len(todo') : todo'[i] = seq[Len(seq) - Len(todo') + i]
         /\ Head(todo) = seq[Len(seq) - Len(todo) + 1] /\ Head(todo) \in S
         /\ Len(seq) - Len(todo) + 1 \in 1 .. Len(seq)
<1> DEFINE n == Len(todo)
           l == Len(seq)
           rest == Tail(todo)
<1>1. n \in Nat /\ n > 0 /\ l \in Nat /\ n <= l
  BY DEF Rest
<1>2. rest \in Seq(S) /\ Len(rest) = n - 1 /\ \A i \in 1 .. n - 1 : rest[i] = todo[i + 1]
  OBVIOUS
<1>3. Head(todo) = todo[1] /\ todo[1] \in S /\ 1 \in 1 .. n
  BY <1>1
<1>4. \A i \in 1 .. n : todo[i] = seq[l - n + i]
  BY DEF Rest
<1>5. l - n + 1 \in 1 .. l
  BY <1>1
<1>6. todo' = rest
  OBVIOUS
<1> HIDE DEF n, l, rest
<1>7. \A i \in 1 .. n - 1 : i + 1 \in 1 .. n /\ l - n + (i + 1) = l - (n - 1) + i
  BY <1>1
<1>8. \A i \in 1 .. n - 1 : rest[i] = seq[l - (n - 1) + i]
  BY <1>2, <1>4, <1>7
<1>9. Head(todo) = seq[l - n + 1]
  BY <1>3, <1>4
<1> QED
  BY <1>1, <1>2, <1>3, <1>5, <1>6, <1>8, <1>9 DEF n, l

\* All entries are left.
LEMMA RestAll ==
  ASSUME NEW S, NEW seq \in Seq(S)
  PROVE  /\ Len(seq) <= Len(seq)
         /\ \A i \in 1 .. Len(seq) : seq[i] = seq[Len(seq) - Len(seq) + i]
OBVIOUS

LEMMA ChangedSeq ==
  ASSUME NEW S, NEW seq \in Seq(S), NEW i, NEW v \in S
  PROVE  [seq EXCEPT ![i] = v] \in Seq(S) /\ Len([seq EXCEPT ![i] = v]) = Len(seq)
<1> DEFINE new == [seq EXCEPT ![i] = v]
<1>1. seq \in [1 .. Len(seq) -> S] /\ Len(seq) \in Nat
  OBVIOUS
<1>2. new \in [1 .. Len(seq) -> S]
  BY <1>1
<1> HIDE DEF new
<1>3. new \in Seq(S) /\ Len(new) = Len(seq)
  BY <1>1, <1>2
<1> QED
  BY <1>3 DEF new

LEMMA ReadingIs ==
  /\ "idle" \notin Reading /\ "panicked" \notin Reading
  /\ \A p : p \in Reading <=> p \in {"imports", "functions", "tables", "memory"}
BY DEF Reading

LEMMA TypedInit == Init => Typed
<1> SUFFICES ASSUME Init PROVE Typed
  OBVIOUS
<1>1. heap \in Seq(Seq(Int)) /\ mods \in Seq(Module)
  BY DEF Init
<1> QED
  BY <1>1 DEF Init, Typed, Reading

\* A module is given up.
LEMMA GiveUpTyped ==
  ASSUME Typed, Refuse \/ Panic
  PROVE  Typed'
<1>1. /\ m' = NoModule /\ phase' \in {"idle", "panicked"} /\ UNCHANGED <<heap, mods>>
  BY DEF Refuse, Panic
<1> QED
  BY <1>1 DEF Typed, Reading, NoModule

LEMMA DecodedIs ==
  ASSUME mods \in Seq(Module), NEW decl \in Decls
  PROVE  /\ Decoded(decl) \in Module
         /\ Decoded(decl).decl = decl /\ Decoded(decl).mem = Nil /\ Decoded(decl).funcs = <<>>
         /\ Decoded(decl).types = decl.funcs /\ Decoded(decl).taken = <<>>
         /\ Decoded(decl).bodies = [k \in 1 .. decl.bodies |-> <<Len(mods) + 1, k>>]
         /\ Decoded(decl).tables = [t \in 1 .. decl.tables |-> Nil]
<1>1. decl.tables \in Nat /\ decl.bodies \in Nat /\ decl.funcs \in Seq(Nat) /\ Len(mods) + 1 \in Nat
  BY DeclsAssumption
<1>2. [t \in 1 .. decl.tables |-> Nil] \in Seq(Nat)
  BY <1>1 DEF Nil
<1>3. [k \in 1 .. decl.bodies |-> <<Len(mods) + 1, k>>] \in Seq(Nat \X Nat)
  <2>1. PICK Body : Body = Nat \X Nat
    OBVIOUS
  <2>2. PICK n \in Nat : n = decl.bodies
    BY <1>1
  <2>3. \A k \in 1 .. n : <<Len(mods) + 1, k>> \in Body
    BY <1>1, <2>1
  <2>4. PICK b : b = [k \in 1 .. n |-> <<Len(mods) + 1, k>>]
    OBVIOUS
  <2>5. b \in [1 .. n -> Body]
    BY <2>3, <2>4
  <2>6. b \in Seq(Body)
    BY <2>5
  <2> QED
    BY <2>1, <2>2, <2>4, <2>6
<1>4. Decoded(decl) =
        [decl |-> decl, funcs |-> <<>>, bodies |-> [k \in 1 .. decl.bodies |-> <<Len(mods) + 1, k>>],
         types |-> decl.funcs, taken |-> <<>>, globals |-> <<>>,
         tables |-> [t \in 1 .. decl.tables |-> Nil], mem |-> Nil, found |-> <<>>]
  <2>1. PICK b : b = [k \in 1 .. decl.bodies |-> <<Len(mods) + 1, k>>]
    OBVIOUS
  <2>2. PICK t : t = [i \in 1 .. decl.tables |-> Nil]
    OBVIOUS
  <2>3. Decoded(decl) = [NoModule EXCEPT !.decl = decl, !.types = decl.funcs, !.bodies = b, !.tables = t]
    BY <2>1, <2>2 DEF Decoded
  <2>4. Decoded(decl) = [decl |-> decl, funcs |-> <<>>, bodies |-> b, types |-> decl.funcs,
                         taken |-> <<>>, globals |-> <<>>, tables |-> t, mem |-> Nil, found |-> <<>>]
    BY <2>3 DEF NoModule
  <2> QED
    BY <2>1, <2>2, <2>4
<1> QED
  BY <1>1, <1>2, <1>3, <1>4 DEF Module, Nil

LEMMA BeginTyped ==
  ASSUME Typed, Begin
  PROVE  Typed' /\ m' \in Module /\ m'.mem = Nil
<1>1. PICK decl \in Decls : m' = Decoded(decl) /\ todo' = decl.imports
  BY DEF Begin
<1>2. phase' = "imports" /\ UNCHANGED <<heap, mods>>
  BY DEF Begin
<1>3. decl.imports \in Seq(ImportEntry)
  BY DeclsAssumption
<1>6. m' \in Module /\ m'.decl = decl /\ m'.mem = Nil
  <2>1. mods \in Seq(Module)
    BY DEF Typed
  <2> QED
    BY <1>1, <2>1, DecodedIs
<1>7. Rest(m.decl.imports)'
  BY <1>1, <1>3, <1>6, RestAll DEF Rest
<1> QED
  BY <1>1, <1>2, <1>3, <1>6, <1>7 DEF Typed, Reading

\* What AddFunction makes of the module.
LEMMA AddFunctionIs ==
  ASSUME m \in Module, NEW f \in Function
  PROVE  /\ AddFunction(f) \in Module
         /\ AddFunction(f).decl = m.decl /\ AddFunction(f).funcs = Append(m.funcs, f)
         /\ AddFunction(f).bodies = Append(m.bodies, f.body) /\ AddFunction(f).types = m.types
         /\ AddFunction(f).taken = Append(m.taken, Len(m.taken))
         /\ AddFunction(f).tables = m.tables /\ AddFunction(f).mem = m.mem
<1>1. f.body \in Nat \X Nat /\ m.funcs \in Seq(Function) /\ m.bodies \in Seq(Nat \X Nat)
      /\ m.taken \in Seq(Nat) /\ Len(m.taken) \in Nat
  BY DEF Module, Function
<1>2. Append(m.funcs, f) \in Seq(Function)
  BY <1>1
<1>3. Append(m.bodies, f.body) \in Seq(Nat \X Nat)
  BY <1>1
<1>4. Append(m.taken, Len(m.taken)) \in Seq(Nat)
  BY <1>1
<1> QED
  BY <1>2, <1>3, <1>4 DEF AddFunction, Module

LEMMA ImportTyped ==
  ASSUME Typed, Importing, Imported, m' \in Module, m'.decl = m.decl
  PROVE  Typed'
<1>1. /\ phase = "imports" /\ todo # <<>> /\ todo' = Tail(todo)
      /\ UNCHANGED <<heap, mods, phase>>
  BY DEF Importing, Imported
<1>2. todo \in Seq(ImportEntry) /\ Rest(m.decl.imports) /\ m \in Module
  BY <1>1 DEF Typed, Reading
<1>3. m.decl.imports \in Seq(ImportEntry)
  BY <1>2, DeclsAssumption DEF Module
<1>4. /\ todo' \in Seq(ImportEntry) /\ Len(todo') <= Len(m.decl.imports)
      /\ \A i \in 1 .. Len(todo') :
           todo'[i] = m.decl.imports[Len(m.decl.imports) - Len(todo') + i]
  BY <1>1, <1>2, <1>3, RestTail
<1>5. Rest(m.decl.imports)'
  BY <1>4 DEF Rest
<1> QED
  BY <1>1, <1>4, <1>5 DEF Typed, Reading

LEMMA ExporterTyped ==
  ASSUME Typed, Importing, Exports
  PROVE  Exporter \in Module /\ Entry.from \in DOMAIN mods /\ m \in Module /\ phase = "imports"
BY DEF Typed, Exports, Importing, Exporter, Reading

LEMMA ImportFunctionTyped ==
  ASSUME Typed, ImportFunction
  PROVE  Typed'
<1>1. CASE Refuse \/ Panic
  BY <1>1, GiveUpTyped
<1>2. CASE ~ (Refuse \/ Panic)
  <2>1. /\ Importing /\ Exports /\ Imported
        /\ m' = AddFunction(At(Exporter.funcs, Exported.index))
        /\ Exported.index \in Index(Exporter.funcs)
    BY <1>2 DEF ImportFunction
  <2> DEFINE f == At(Exporter.funcs, Exported.index)
  <2>2. Exporter.funcs \in Seq(Function) /\ m \in Module
    BY <2>1, ExporterTyped DEF Module
  <2>3. f \in Function
    BY <2>1, <2>2 DEF At, Index
  <2> HIDE DEF f
  <2>4. m' = AddFunction(f)
    BY <2>1 DEF f
  <2>6. m' \in Module /\ m'.decl = m.decl
    BY <2>2, <2>3, <2>4, AddFunctionIs
  <2> QED
    BY <2>1, <2>6, ImportTyped
<1> QED
  BY <1>1, <1>2

LEMMA ImportGlobalTyped ==
  ASSUME Typed, ImportGlobal
  PROVE  Typed'
<1>1. CASE Refuse
  BY <1>1, GiveUpTyped
<1>2. CASE ~Refuse
  <2> DEFINE v == At(Exporter.globals, Exported.index)
  <2>1. /\ Importing /\ Exports /\ Imported
        /\ m' = [m EXCEPT !.globals = Append(@, v)]
        /\ Exported.index \in Index(Exporter.globals)
    BY <1>2 DEF ImportGlobal
  <2>2. Exporter.globals \in Seq(GlobalEntry) /\ m \in Module
    BY <2>1, ExporterTyped DEF Module
  <2>3. v \in GlobalEntry
    BY <2>1, <2>2 DEF At, Index
  <2> HIDE DEF v
  <2>4. Append(m.globals, v) \in Seq(GlobalEntry)
    BY <2>2, <2>3 DEF Module
  <2>5. m' \in Module /\ m'.decl = m.decl
    BY <2>1, <2>2, <2>4 DEF Module
  <2> QED
    BY <2>1, <2>5, ImportTyped
<1> QED
  BY <1>1, <1>2

LEMMA ImportTableTyped ==
  ASSUME Typed, ImportTable
  PROVE  Typed'
<1>1. CASE Refuse \/ Panic
  BY <1>1, GiveUpTyped
<1>2. CASE ~ (Refuse \/ Panic)
  <2>1. /\ Importing /\ Exports /\ Imported
        /\ m' = [m EXCEPT !.tables[1] = Exporter.tables[1]]
        /\ Exported.index \in Index(Exporter.tables)
    BY <1>2 DEF ImportTable
  <2>2. Exporter.tables \in Seq(Nat) /\ m \in Module
    BY <2>1, ExporterTyped DEF Module
  <2>3. Exporter.tables[1] \in Nat
    BY <2>1, <2>2 DEF Index
  <2>4. [m.tables EXCEPT ![1] = Exporter.tables[1]] \in Seq(Nat)
    BY <2>2, <2>3, ChangedSeq DEF Module
  <2>5. m' \in Module /\ m'.decl = m.decl
    BY <2>1, <2>2, <2>4 DEF Module
  <2> QED
    BY <2>1, <2>5, ImportTyped
<1> QED
  BY <1>1, <1>2

LEMMA ImportMemoryTyped ==
  ASSUME Typed, ImportMemory
  PROVE  Typed'
<1>1. CASE Refuse
  BY <1>1, GiveUpTyped
<1>2. CASE ~Refuse
  <2>1. Importing /\ Exports /\ Imported /\ m' = [m EXCEPT !.mem = Exporter.mem]
    BY <1>2 DEF ImportMemory
  <2>2. Exporter.mem \in Nat /\ m \in Module
    BY <2>1, ExporterTyped DEF Module
  <2>3. m' \in Module /\ m'.decl = m.decl
    BY <2>1, <2>2 DEF Module
  <2> QED
    BY <2>1, <2>3, ImportTyped
<1> QED
  BY <1>1, <1>2

LEMMA PopulateGlobalsTyped ==
  ASSUME Typed, PopulateGlobals
  PROVE  Typed'
<1>1. /\ m' = [m EXCEPT !.globals = @ \o m.decl.globals] /\ phase = "imports" /\ todo = <<>>
      /\ phase' = "functions" /\ UNCHANGED <<heap, mods, todo>>
  BY DEF PopulateGlobals
<1>2. m \in Module
  BY <1>1 DEF Typed, Reading
<1>3. m.decl.globals \in Seq(GlobalEntry)
  BY <1>2, DeclsAssumption DEF Module
<1>4. m.globals \o m.decl.globals \in Seq(GlobalEntry)
  BY <1>2, <1>3 DEF Module
<1>5. m' \in Module
  BY <1>1, <1>2, <1>4 DEF Module
<1> QED
  BY <1>1, <1>5 DEF Typed, Reading

LEMMA OwnTyped ==
  ASSUME m \in Module, Len(m.types) <= Len(m.bodies),
         \A k \in DOMAIN m.types : m.types[k] \in Index(m.decl.types)
  PROVE  Own \in Seq(Function)
<1> DEFINE n == Len(m.types)
<1>1. /\ m.decl.types \in Seq(Signatures) /\ m.types \in Seq(Nat) /\ m.bodies \in Seq(Nat \X Nat)
      /\ DOMAIN m.types = 1 .. n /\ n \in Nat
  BY DeclsAssumption DEF Module
<1>2. \A k \in 1 .. n : At(m.decl.types, m.types[k]) \in Signatures
  <2>1. \A j \in Index(m.decl.types) : At(m.decl.types, j) \in Signatures
    BY <1>1 DEF At, Index
  <2> QED
    BY <1>1, <2>1
<1>3. \A k \in 1 .. n : m.bodies[k] \in Nat \X Nat
  BY <1>1
<1> HIDE DEF n
<1>4. \A k \in 1 .. n : [sig |-> At(m.decl.types, m.types[k]), body |-> m.bodies[k]] \in Function
  BY <1>2, <1>3 DEF Function
<1>5. Own \in [1 .. n -> Function]
  BY <1>1, <1>4 DEF Own
<1> QED
  BY <1>1, <1>5

\* Before the index space is filled, Function.Types and the start of Code.Bodies are
\* as they were decoded.
Fresh ==
  phase \in {"imports", "functions"} =>
    /\ Decodable(m.decl) /\ m.types = m.decl.funcs /\ m.decl.bodies <= Len(m.bodies)
    /\ \A k \in 1 .. m.decl.bodies : m.bodies[k] = <<Len(mods) + 1, k>>

LEMMA FreshInit == Init => Fresh
BY DEF Init, Fresh

LEMMA BeginFresh == ASSUME Typed, Begin PROVE Fresh'
<1>1. PICK decl \in Decls : Decodable(decl) /\ m' = Decoded(decl) /\ mods' = mods
  BY DEF Begin
<1>2. mods \in Seq(Module) /\ decl.bodies \in Nat
  BY DeclsAssumption DEF Typed
<1>3. /\ m'.decl = decl /\ m'.types = decl.funcs
      /\ m'.bodies = [k \in 1 .. decl.bodies |-> <<Len(mods) + 1, k>>]
  BY <1>1, <1>2, DecodedIs
<1>4. Len(m'.bodies) = decl.bodies
  BY <1>2, <1>3
<1>5. Decodable(m.decl)'
  BY <1>1, <1>3 DEF Decodable, Has
<1> QED
  BY <1>1, <1>2, <1>3, <1>4, <1>5 DEF Fresh

LEMMA ImportFunctionFresh == ASSUME Typed, Fresh, ImportFunction PROVE Fresh'
<1>1. CASE Refuse \/ Panic
  BY <1>1 DEF Refuse, Panic, Fresh
<1>2. CASE ~ (Refuse \/ Panic)
  <2> DEFINE f == At(Exporter.funcs, Exported.index)
  <2>1. /\ Importing /\ Exports /\ Imported /\ m' = AddFunction(f)
        /\ Exported.index \in Index(Exporter.funcs)
    BY <1>2 DEF ImportFunction
  <2>2. Exporter.funcs \in Seq(Function) /\ m \in Module /\ phase = "imports"
    BY <2>1, ExporterTyped DEF Module
  <2>3. f \in Function
    BY <2>1, <2>2 DEF At, Index
  <2> HIDE DEF f
  <2>4. /\ m'.decl = m.decl /\ m'.types = m.types /\ m'.bodies = Append(m.bodies, f.body)
    BY <2>1, <2>2, <2>3, AddFunctionIs
  <2>5. m.bodies \in Seq(Nat \X Nat) /\ m.decl.bodies \in Nat
    BY <2>2, DeclsAssumption DEF Module
  <2>6. m.decl.bodies <= Len(m.bodies)
    BY <2>2 DEF Fresh
  <2>7. Len(m'.bodies) = Len(m.bodies) + 1 /\ \A k \in 1 .. Len(m.bodies) : m'.bodies[k] = m.bodies[k]
    <3>1. PICK b \in Seq(Nat \X Nat) : b = m.bodies
      BY <2>5
    <3>2. f.body \in Nat \X Nat
      BY <2>3 DEF Function
    <3> QED
      BY <2>4, <3>1, <3>2
  <2>8. Len(m.bodies) \in Nat
    BY <2>5
  <2>9. m.decl.bodies <= Len(m'.bodies) /\ \A k \in 1 .. m.decl.bodies : k \in 1 .. Len(m.bodies)
    BY <2>5, <2>6, <2>7, <2>8
  <2>10. mods' = mods
    BY <2>1 DEF Imported
  <2>11. Decodable(m.decl)'
    BY <2>2, <2>4 DEF Decodable, Has, Fresh
  <2> QED
    BY <2>2, <2>4, <2>7, <2>9, <2>10, <2>11 DEF Fresh
<1> QED
  BY <1>1, <1>2

\* Nothing else touches the two lists before the index space is filled.
LEMMA OtherFresh ==
  ASSUME Fresh, mods' = mods, phase \in {"imports", "functions"},
         m'.decl = m.decl, m'.types = m.types, m'.bodies = m.bodies
  PROVE  Fresh'
<1>1. Decodable(m.decl)'
  BY DEF Decodable, Has, Fresh
<1> QED
  BY <1>1 DEF Fresh

\* Where the index space is filled every own function has its body.
LEMMA BodiesEnough ==
  ASSUME Fresh, phase = "functions", m \in Module,
         \A k \in DOMAIN m.types : m.types[k] \in Index(m.decl.types),
         Has(m.decl, "code") \/ m.types = <<>> \/ m.types[1] \notin Index(m.decl.types)
  PROVE  /\ Len(m.types) <= Len(m.bodies)
         /\ \A k \in DOMAIN m.types : m.bodies[k] = <<Len(mods) + 1, k>>
<1>1. m.types \in Seq(Nat) /\ m.bodies \in Seq(Nat \X Nat) /\ m.decl.bodies \in Nat
      /\ m.decl.funcs = m.types
  BY DeclsAssumption DEF Module, Fresh
<1>2. Len(m.types) \in Nat /\ Len(m.bodies) \in Nat /\ DOMAIN m.types = 1 .. Len(m.types)
  BY <1>1
<1>3. CASE m.types = <<>>
  BY <1>2, <1>3
<1>4. CASE m.types # <<>>
  <2>1. 1 \in DOMAIN m.types
    BY <1>1, <1>4
  <2>2. Has(m.decl, "code")
    BY <1>4, <2>1
  <2>3. Len(m.types) = m.decl.bodies
    BY <1>1, <2>2 DEF Fresh, Decodable
  <2> QED
    BY <1>2, <2>3 DEF Fresh
<1> QED
  BY <1>3, <1>4

LEMMA PopulateFunctionsTyped ==
  ASSUME Typed, Fresh, PopulateFunctions
  PROVE  Typed'
<1>1. CASE Refuse \/ Panic
  BY <1>1, GiveUpTyped
<1>2. CASE ~ (Refuse \/ Panic)
  <2>1. /\ phase = "functions" /\ phase' = "tables" /\ todo' = m.decl.elems
        /\ UNCHANGED <<heap, mods>>
        /\ \/ m' = m
           \/ /\ m' = [m EXCEPT !.funcs = @ \o Own, !.types = m.taken \o @]
              /\ \A k \in DOMAIN m.types : m.types[k] \in Index(m.decl.types)
              /\ Has(m.decl, "code") \/ m.types = <<>> \/ m.types[1] \notin Index(m.decl.types)
    BY <1>2 DEF PopulateFunctions
  <2>2. m \in Module
    BY <2>1 DEF Typed, Reading
  <2>3. m' \in Module /\ m'.decl = m.decl
    <3>1. CASE m' = m
      BY <2>2, <3>1
    <3>2. CASE ~ (m' = m)
      <4>1. m.funcs \in Seq(Function) /\ m.taken \in Seq(Nat) /\ m.types \in Seq(Nat)
        BY <2>2 DEF Module
      <4>2. Len(m.types) <= Len(m.bodies)
        BY <2>1, <2>2, <3>2, BodiesEnough
      <4>3. Own \in Seq(Function)
        BY <2>1, <2>2, <3>2, <4>2, OwnTyped
      <4>4. m.funcs \o Own \in Seq(Function)
        BY <4>1, <4>3
      <4>5. m.taken \o m.types \in Seq(Nat)
        BY <4>1
      <4> QED
        BY <2>1, <2>2, <3>2, <4>4, <4>5 DEF Module
    <3> QED
      BY <3>1, <3>2
  <2>4. m.decl.elems \in Seq(Segment)
    BY <2>2, DeclsAssumption DEF Module
  <2>5. Rest(m.decl.elems)'
    BY <2>1, <2>3, <2>4, RestAll DEF Rest
  <2> QED
    BY <2>1, <2>3, <2>4, <2>5 DEF Typed, Reading
<1> QED
  BY <1>1, <1>2

-----------------------------------------------------------------------------
\* The value of an initial expression is computed by a loop.
Computes(f, gl, expr, len) ==
  f = [n \in 0 .. len |->
         IF n = 0 THEN [err |-> FALSE, type |-> "none", stack |-> <<>>]
         ELSE Executed(gl, f[n - 1], expr[n])]

LEMMA ComputeExists ==
  ASSUME NEW gl, NEW expr, NEW len \in Nat
  PROVE  \E f : Computes(f, gl, expr, len)
<1> DEFINE S == {n \in Nat : ~ \E f : Computes(f, gl, expr, n)}
<1>1. SUFFICES ASSUME S # {} PROVE FALSE
  OBVIOUS
<1>2. PICK n \in S : \A k \in S : n <= k
  BY <1>1, LeastNat
<1>3. n # 0
  <2> DEFINE f == [i \in 0 .. 0 |-> [err |-> FALSE, type |-> "none", stack |-> <<>>]]
  <2>1. Computes(f, gl, expr, 0)
    BY DEF Computes
  <2> HIDE DEF f
  <2> QED
    BY <2>1
<1>4. n - 1 \in Nat /\ n - 1 \notin S
  BY <1>2, <1>3
<1>5. PICK f : Computes(f, gl, expr, n - 1)
  BY <1>4
<1> DEFINE g == [i \in 0 .. n |-> IF i < n THEN f[i] ELSE Executed(gl, f[n - 1], expr[n])]
<1>6. \A i \in 0 .. n : g[i] = IF i = 0 THEN [err |-> FALSE, type |-> "none", stack |-> <<>>]
                               ELSE Executed(gl, g[i - 1], expr[i])
  <2> TAKE i \in 0 .. n
  <2>1. CASE i = n
    <3>1. g[i - 1] = f[n - 1] /\ i # 0
      BY <1>3, <1>4, <2>1
    <3> QED
      BY <2>1, <3>1
  <2>2. CASE i < n
    <3>1. i \in 0 .. n - 1 /\ (i # 0 => i - 1 \in 0 .. n /\ i - 1 < n)
      BY <2>2
    <3>2. g[i] = f[i] /\ (i # 0 => g[i - 1] = f[i - 1])
      BY <2>2, <3>1
    <3>3. f[i] = IF i = 0 THEN [err |-> FALSE, type |-> "none", stack |-> <<>>]
                 ELSE Executed(gl, f[i - 1], expr[i])
      BY <1>5, <3>1 DEF Computes
    <3> QED
      BY <3>2, <3>3
  <2> QED
    BY <2>1, <2>2
<1>7. Computes(g, gl, expr, n)
  <2>1. g = [i \in 0 .. n |-> g[i]]
    OBVIOUS
  <2> HIDE DEF g
  <2> QED
    BY <1>6, <2>1 DEF Computes
<1> HIDE DEF g
<1> QED
  BY <1>7

Result == [err : BOOLEAN, type : STRING \cup {"none"}, stack : Seq(Int)]

LEMMA StartTyped == [err |-> FALSE, type |-> "none", stack |-> <<>>] \in Result
<1>1. <<>> \in Seq(Int)
  OBVIOUS
<1> QED
  BY <1>1 DEF Result

LEMMA ExecutedTyped ==
  ASSUME NEW gl \in Seq(GlobalEntry), NEW r \in Result, NEW op \in Instructions
  PROVE  Executed(gl, r, op) \in Result
<1>1. CASE r.err
  BY <1>1 DEF Executed
<1>2. CASE ~r.err /\ op.op = "get"
  <2>1. op.v \in Index(gl) => At(gl, op.v) \in GlobalEntry
    BY DEF Index, At
  <2> QED
    BY <1>2, <2>1 DEF Executed, Result, GlobalEntry
<1>3. CASE ~r.err /\ op.op # "get"
  <2>1. op.v \in Int /\ op.op \in STRING /\ r.stack \in Seq(Int)
    BY DEF Instructions, Result
  <2>2. Append(r.stack, op.v) \in Seq(Int)
    BY <2>1
  <2>3. Executed(gl, r, op) = [r EXCEPT !.type = op.op, !.stack = Append(r.stack, op.v)]
    BY <1>3 DEF Executed
  <2> QED
    BY <2>1, <2>2, <2>3 DEF Result
<1> QED
  BY <1>1, <1>2, <1>3

LEMMA ResultTyped ==
  ASSUME NEW gl \in Seq(GlobalEntry), NEW expr \in Seq(Instructions)
  PROVE  ExecInitExpr(gl, expr) \in Result
<1> DEFINE len == Len(expr)
           f == CHOOSE f : Computes(f, gl, expr, len)
<1>1. len \in Nat
  OBVIOUS
<1>2. Computes(f, gl, expr, len)
  BY <1>1, ComputeExists
<1>3. ExecInitExpr(gl, expr) = f[len]
  BY DEF ExecInitExpr, Computes
<1> HIDE DEF f
<1> DEFINE Bad == {n \in 0 .. len : f[n] \notin Result}
<1>4. f[0] \in Result
  <2>1. f[0] = [err |-> FALSE, type |-> "none", stack |-> <<>>]
    BY <1>1, <1>2 DEF Computes
  <2> QED
    BY <2>1, StartTyped
<1>5. ASSUME NEW n \in 1 .. len, f[n - 1] \in Result
      PROVE  f[n] \in Result
  <2>1. expr[n] \in Instructions /\ n \in 0 .. len /\ n # 0
    BY <1>1
  <2> HIDE DEF len
  <2>2. f[n] = Executed(gl, f[n - 1], expr[n])
    BY <1>2, <2>1 DEF Computes
  <2> QED
    BY <1>5, <2>1, <2>2, ExecutedTyped
<1>6. Bad = {}
  <2> SUFFICES ASSUME Bad # {} PROVE FALSE
    OBVIOUS
  <2>1. Bad \in SUBSET Nat
    BY <1>1
  <2> HIDE DEF Bad
  <2>2. PICK n \in Bad : \A k \in Bad : n <= k
    BY <2>1, LeastNat
  <2> USE DEF Bad
  <2>3. n \in 1 .. len
    BY <1>1, <1>4, <2>2
  <2>4. n - 1 \in 0 .. len /\ n - 1 \notin Bad
    BY <1>1, <2>2, <2>3
  <2> QED
    BY <1>5, <2>2, <2>3, <2>4
<1> QED
  BY <1>1, <1>3, <1>6

\* The offset of a segment is a number.
LEMMA OffsetInt ==
  ASSUME m \in Module, NEW e \in Segment, Gives(e.offset)
  PROVE  Offset(e.offset) \in Int
<1> DEFINE stack == ExecInitExpr(m.globals, e.offset).stack
<1>1. e.offset \in Seq(Instructions) /\ m.globals \in Seq(GlobalEntry)
  BY DEF Segment, Instructions, Module
<1>2. ExecInitExpr(m.globals, e.offset) \in Result
  BY <1>1, ResultTyped
<1>3. stack \in Seq(Int) /\ stack # <<>>
  BY <1>2 DEF Result, Gives
<1> HIDE DEF stack
<1>4. stack[Len(stack)] \in Int
  BY <1>3
<1> QED
  BY <1>4 DEF Offset, Last, stack

-----------------------------------------------------------------------------
\* A longer array, and one that is written over.
LEMMA GrownIs ==
  ASSUME NEW old \in Seq(Int), NEW offset \in Nat, NEW new \in Seq(Int)
  PROVE  /\ Grown(old, offset, new) \in Seq(Int) /\ Len(Grown(old, offset, new)) = offset + Len(new)
         /\ \A i \in 1 .. offset + Len(new) :
              Grown(old, offset, new)[i] = IF i <= Len(old) THEN old[i]
                                           ELSE IF i > offset THEN new[i - offset] ELSE 0
<1> DEFINE n == Len(new)
           l == Len(old)
           g == Grown(old, offset, new)
<1>1. n \in Nat /\ l \in Nat /\ \A i \in 1 .. n : new[i] \in Int
  OBVIOUS
<1>2. \A i \in 1 .. l : old[i] \in Int
  OBVIOUS
<1>3. g = [i \in 1 .. (offset + n) |-> IF i <= l THEN old[i] ELSE IF i > offset THEN new[i - offset] ELSE 0]
  BY DEF Grown
<1> HIDE DEF n, l, g
<1>4. ASSUME NEW i \in 1 .. offset + n
      PROVE  (IF i <= l THEN old[i] ELSE IF i > offset THEN new[i - offset] ELSE 0) \in Int
  <2>1. i <= l => i \in 1 .. l
    BY <1>1
  <2>2. i > offset => i - offset \in 1 .. n
    BY <1>1
  <2> QED
    BY <1>1, <1>2, <2>1, <2>2
<1>5. g \in [1 .. offset + n -> Int]
  BY <1>3, <1>4
<1>6. g \in Seq(Int) /\ Len(g) = offset + n
  BY <1>1, <1>5
<1> QED
  BY <1>3, <1>6 DEF n, l, g

LEMMA OverIs ==
  ASSUME NEW old \in Seq(Int), NEW offset \in Nat, NEW new \in Seq(Int)
  PROVE  /\ Over(old, offset, new) \in Seq(Int) /\ Len(Over(old, offset, new)) = Len(old)
         /\ \A i \in 1 .. Len(old) :
              Over(old, offset, new)[i] = IF i > offset /\ i <= offset + Len(new) THEN new[i - offset]
                                          ELSE old[i]
<1> DEFINE n == Len(new)
           l == Len(old)
           g == Over(old, offset, new)
<1>1. n \in Nat /\ l \in Nat /\ \A i \in 1 .. n : new[i] \in Int
  OBVIOUS
<1>2. DOMAIN old = 1 .. l /\ \A i \in 1 .. l : old[i] \in Int
  OBVIOUS
<1>3. g = [i \in 1 .. l |-> IF i > offset /\ i <= offset + n THEN new[i - offset] ELSE old[i]]
  BY <1>2 DEF Over
<1> HIDE DEF n, l, g
<1>4. ASSUME NEW i \in 1 .. l
      PROVE  (IF i > offset /\ i <= offset + n THEN new[i - offset] ELSE old[i]) \in Int
  <2>1. i > offset /\ i <= offset + n => i - offset \in 1 .. n
    BY <1>1
  <2> QED
    BY <1>1, <1>2, <2>1
<1>5. g \in [1 .. l -> Int]
  BY <1>3, <1>4
<1>6. g \in Seq(Int) /\ Len(g) = l
  BY <1>1, <1>5
<1> QED
  BY <1>3, <1>6 DEF n, l, g

\* The elements fit into the array, or a new one is made behind the others.
InNewArray(h, ref, offset, new, put) ==
  /\ put.ref = Len(h) + 1 /\ Len(put.heap) = Len(h) + 1
  /\ \A i \in 1 .. Len(h) : put.heap[i] = h[i]
  /\ put.heap[Len(h) + 1] = Grown(ArrayOf(h, ref), offset, new)
  /\ offset + Len(new) > Len(ArrayOf(h, ref))

InPlace(h, ref, offset, new, put) ==
  /\ put.ref = ref /\ Len(put.heap) = Len(h)
  /\ \A i \in 1 .. Len(h) : i # ref => put.heap[i] = h[i]
  /\ ref # Nil => put.heap[ref] = Over(h[ref], offset, new)
  /\ offset + Len(new) <= Len(ArrayOf(h, ref))

LEMMA PutIs ==
  ASSUME NEW h \in Seq(Seq(Int)), NEW ref \in 0 .. Len(h), NEW offset \in Nat,
         NEW new \in Seq(Int), NEW put, put = Put(h, ref, offset, new)
  PROVE  /\ put.heap \in Seq(Seq(Int)) /\ ArrayOf(h, ref) \in Seq(Int)
         /\ \/ InNewArray(h, ref, offset, new, put)
            \/ InPlace(h, ref, offset, new, put)
<1> DEFINE old == ArrayOf(h, ref)
           l == Len(h)
<1>1. l \in Nat /\ ref \in 0 .. l /\ \A i \in 1 .. l : h[i] \in Seq(Int)
  OBVIOUS
<1>2. old \in Seq(Int)
  BY <1>1 DEF ArrayOf, Nil
<1>3. Len(old) \in Nat /\ Len(new) \in Nat
  BY <1>2
<1> HIDE DEF old
<1>4. CASE offset + Len(new) > Len(old)
  <2> DEFINE g == Grown(old, offset, new)
  <2>1. g \in Seq(Int)
    BY <1>2, GrownIs
  <2>2. put = [heap |-> Append(h, g), ref |-> l + 1]
    BY <1>4 DEF Put, old
  <2> HIDE DEF g
  <2>3. /\ Append(h, g) \in Seq(Seq(Int)) /\ Len(Append(h, g)) = l + 1 /\ Append(h, g)[l + 1] = g
        /\ \A i \in 1 .. l : Append(h, g)[i] = h[i]
    BY <1>1, <2>1
  <2> QED
    BY <1>2, <1>4, <2>2, <2>3 DEF InNewArray, g, old
<1>5. CASE ~ (offset + Len(new) > Len(old)) /\ ref = Nil
  <2>1. put = [heap |-> h, ref |-> ref]
    BY <1>5 DEF Put, old
  <2> QED
    BY <1>2, <1>3, <1>5, <2>1 DEF InPlace, old
<1>6. CASE ~ (offset + Len(new) > Len(old)) /\ ref # Nil
  <2> DEFINE g == Over(old, offset, new)
  <2>1. g \in Seq(Int) /\ old = h[ref] /\ ref \in 1 .. l
    BY <1>1, <1>2, <1>6, OverIs DEF ArrayOf, old, Nil
  <2>2. put = [heap |-> [h EXCEPT ![ref] = g], ref |-> ref]
    BY <1>6 DEF Put, old
  <2> HIDE DEF g
  <2>3. /\ [h EXCEPT ![ref] = g] \in Seq(Seq(Int)) /\ Len([h EXCEPT ![ref] = g]) = l
    BY <2>1, ChangedSeq
  <2>4. /\ [h EXCEPT ![ref] = g][ref] = g
        /\ \A i \in 1 .. l : i # ref => [h EXCEPT ![ref] = g][i] = h[i]
    BY <2>1
  <2>5. put.heap = [h EXCEPT ![ref] = g] /\ put.ref = ref
    BY <2>2
  <2> HIDE DEF l
  <2>6. /\ put.heap \in Seq(Seq(Int)) /\ Len(put.heap) = l /\ put.heap[ref] = Over(h[ref], offset, new)
        /\ \A i \in 1 .. l : i # ref => put.heap[i] = h[i]
    BY <2>1, <2>3, <2>4, <2>5 DEF g
  <2>7. offset + Len(new) <= Len(old)
    BY <1>3, <1>6
  <2> QED
    BY <1>2, <2>5, <2>6, <2>7 DEF InPlace, old, l
<1> QED
  BY <1>4, <1>5, <1>6

-----------------------------------------------------------------------------
\* Tables and memories are arrays of the heap, and no table is a memory.
Memories == {mods[k].mem : k \in DOMAIN mods} \cup {m.mem}
Tables == {r \in Nat : \/ \E k \in DOMAIN mods : \E i \in DOMAIN mods[k].tables : r = mods[k].tables[i]
                       \/ \E i \in DOMAIN m.tables : r = m.tables[i]}

Apart ==
  /\ Memories \subseteq 0 .. Len(heap) /\ Tables \subseteq 0 .. Len(heap)
  /\ Memories \cap Tables \subseteq {Nil}

LEMMA ApartInit == Init => Apart
<1> SUFFICES ASSUME Init PROVE Apart
  OBVIOUS
<1>1. DOMAIN mods = {} /\ Len(heap) = 0 /\ m.mem = 0 /\ DOMAIN m.tables = {}
  BY DEF Init, NoModule, Nil
<1>2. Memories = {0} /\ Tables = {}
  BY <1>1 DEF Memories, Tables
<1> QED
  BY <1>1, <1>2 DEF Apart, Nil

\* The module has no memory and no table that were not there.
Shares ==
  /\ mods' = mods \/ (mods \in Seq(Module) /\ m \in Module /\ mods' = Append(mods, m))
  /\ m'.mem \in Memories \cup {Nil}
  /\ \A i \in DOMAIN m'.tables : m'.tables[i] \in Tables \cup {Nil}

LEMMA SharesApart ==
  ASSUME Apart, Shares, heap' = heap, heap \in Seq(Seq(Int))
  PROVE  Apart'
<1>1. \A k \in DOMAIN mods' : mods'[k].mem \in Memories
  <2>1. CASE mods' = mods
    BY <2>1 DEF Memories
  <2>2. CASE mods \in Seq(Module) /\ m \in Module /\ mods' = Append(mods, m)
    <3> TAKE k \in DOMAIN mods'
    <3>1. (k \in DOMAIN mods /\ mods'[k] = mods[k]) \/ mods'[k] = m
      BY <2>2
    <3> QED
      BY <3>1 DEF Memories
  <2> QED
    BY <2>1, <2>2 DEF Shares
<1>2. ASSUME NEW k \in DOMAIN mods', NEW i \in DOMAIN mods'[k].tables, mods'[k].tables[i] \in Nat
      PROVE  mods'[k].tables[i] \in Tables
  <2>1. CASE mods' = mods
    BY <1>2, <2>1 DEF Tables
  <2>2. CASE mods \in Seq(Module) /\ m \in Module /\ mods' = Append(mods, m)
    <3>1. (k \in DOMAIN mods /\ mods'[k] = mods[k]) \/ mods'[k] = m
      BY <2>2
    <3> QED
      BY <1>2, <3>1 DEF Tables
  <2> QED
    BY <2>1, <2>2 DEF Shares
<1>3. Memories' \subseteq Memories \cup {Nil}
  BY <1>1 DEF Memories, Shares
<1>4. Tables' \subseteq Tables \cup {Nil}
  <2>1. ASSUME NEW r \in Tables'
        PROVE  r \in Tables \cup {Nil}
    <3>1. /\ r \in Nat
          /\ \/ \E k \in DOMAIN mods' : \E i \in DOMAIN mods'[k].tables : r = mods'[k].tables[i]
             \/ \E i \in DOMAIN m'.tables : r = m'.tables[i]
      BY DEF Tables
    <3>2. r \in Nat
      BY <3>1
    <3>3. CASE \E i \in DOMAIN m'.tables : r = m'.tables[i]
      BY <3>3 DEF Shares
    <3>4. CASE \E k \in DOMAIN mods' : \E i \in DOMAIN mods'[k].tables : r = mods'[k].tables[i]
      <4>1. PICK k \in DOMAIN mods' : \E i \in DOMAIN mods'[k].tables : r = mods'[k].tables[i]
        BY <3>4
      <4>2. PICK i \in DOMAIN mods'[k].tables : r = mods'[k].tables[i]
        BY <4>1
      <4>3. mods'[k].tables[i] \in Nat
        BY <3>2, <4>2
      <4> QED
        BY <1>2, <4>2, <4>3
    <3> QED
      BY <3>1, <3>3, <3>4
  <2> QED
    BY <2>1
<1>5. Len(heap) \in Nat /\ Nil = 0
  BY DEF Nil
<1> QED
  BY <1>3, <1>4, <1>5 DEF Apart

LEMMA NoModuleHas == NoModule.mem = Nil /\ DOMAIN NoModule.tables = {}
BY DEF NoModule

LEMMA TableOfModule ==
  ASSUME Typed
  PROVE  /\ \A k \in DOMAIN mods : \A i \in DOMAIN mods[k].tables : mods[k].tables[i] \in Tables
         /\ \A i \in DOMAIN m.tables : m.tables[i] \in Tables
         /\ \A k \in DOMAIN mods : mods[k].mem \in Memories
         /\ m.mem \in Memories
<1>1. \A k \in DOMAIN mods : mods[k].tables \in Seq(Nat)
  <2>1. \A k \in DOMAIN mods : mods[k] \in Module
    BY DEF Typed
  <2> QED
    BY <2>1 DEF Module
<1>2. m.tables \in Seq(Nat)
  <2>1. m \in Module \/ m = NoModule
    BY DEF Typed
  <2>2. NoModule.tables = <<>> /\ <<>> \in Seq(Nat)
    BY DEF NoModule
  <2> QED
    BY <2>1, <2>2 DEF Module
<1>3. \A k \in DOMAIN mods : \A i \in DOMAIN mods[k].tables : mods[k].tables[i] \in Nat
  BY <1>1
<1>4. \A i \in DOMAIN m.tables : m.tables[i] \in Nat
  BY <1>2
<1> QED
  BY <1>3, <1>4 DEF Memories, Tables

LEMMA GiveUpShares ==
  ASSUME Refuse \/ Panic
  PROVE  Shares /\ heap' = heap
BY NoModuleHas DEF Refuse, Panic, Shares, Nil

LEMMA BeginShares ==
  ASSUME Typed, Begin
  PROVE  Shares /\ heap' = heap
<1>1. PICK decl \in Decls : m' = Decoded(decl)
  BY DEF Begin
<1>2. m'.mem = Nil /\ m'.tables = [t \in 1 .. decl.tables |-> Nil]
  BY <1>1, DecodedIs DEF Typed
<1>3. \A i \in DOMAIN m'.tables : m'.tables[i] = Nil
  BY <1>2
<1> QED
  BY <1>2, <1>3 DEF Shares, Begin

\* What is imported was there.
LEMMA ImportShares ==
  ASSUME Typed, ImportFunction \/ ImportGlobal \/ ImportTable \/ ImportMemory \/ ImportUnknown
  PROVE  Shares /\ heap' = heap
<1>1. CASE Refuse \/ Panic
  BY <1>1, GiveUpShares
<1>2. CASE ~ (Refuse \/ Panic)
  <2>1. Importing /\ Exports /\ Imported
    BY <1>2 DEF ImportFunction, ImportGlobal, ImportTable, ImportMemory, ImportUnknown
  <2>2. Exporter \in Module /\ Entry.from \in DOMAIN mods /\ m \in Module
    BY <2>1, ExporterTyped
  <2>3. UNCHANGED <<heap, mods>>
    BY <2>1 DEF Imported
  <2>4. CASE ImportFunction
    <3>1. /\ m' = AddFunction(At(Exporter.funcs, Exported.index))
          /\ Exported.index \in Index(Exporter.funcs)
      BY <1>2, <2>4 DEF ImportFunction
    <3>2. m'.tables = m.tables /\ m'.mem = m.mem
      <4>1. Exporter.funcs \in Seq(Function)
        BY <2>2 DEF Module
      <4>2. At(Exporter.funcs, Exported.index) \in Function
        BY <3>1, <4>1 DEF At, Index
      <4> QED
        BY <2>2, <3>1, <4>2, AddFunctionIs
    <3> QED
      BY <2>3, <3>2, TableOfModule DEF Shares
  <2>5. CASE ImportGlobal
    <3>1. m' = [m EXCEPT !.globals = Append(@, At(Exporter.globals, Exported.index))]
      BY <1>2, <2>5 DEF ImportGlobal
    <3>2. m'.tables = m.tables /\ m'.mem = m.mem
      BY <2>2, <3>1 DEF Module
    <3> QED
      BY <2>3, <3>2, TableOfModule DEF Shares
  <2>6. CASE ImportTable
    <3>1. /\ m' = [m EXCEPT !.tables[1] = Exporter.tables[1]]
          /\ Exported.index \in Index(Exporter.tables)
      BY <1>2, <2>6 DEF ImportTable
    <3>2. Exporter.tables \in Seq(Nat) /\ m.tables \in Seq(Nat)
      BY <2>2 DEF Module
    <3>3. 1 \in DOMAIN Exporter.tables
      BY <3>1, <3>2 DEF Index
    <3>4. Exporter.tables[1] \in Tables
      BY <2>2, <3>3, TableOfModule DEF Exporter
    <3>5. m'.tables = [m.tables EXCEPT ![1] = Exporter.tables[1]] /\ m'.mem = m.mem
      BY <2>2, <3>1 DEF Module
    <3>6. DOMAIN m'.tables = DOMAIN m.tables
      BY <3>2, <3>5
    <3>7. \A i \in DOMAIN m'.tables : m'.tables[i] = Exporter.tables[1] \/ m'.tables[i] = m.tables[i]
      BY <3>2, <3>5
    <3> QED
      BY <2>3, <3>4, <3>5, <3>6, <3>7, TableOfModule DEF Shares
  <2>7. CASE ImportMemory
    <3>1. m' = [m EXCEPT !.mem = Exporter.mem]
      BY <1>2, <2>7 DEF ImportMemory
    <3>2. m'.tables = m.tables /\ m'.mem = Exporter.mem
      BY <2>2, <3>1 DEF Module
    <3>3. Exporter.mem \in Memories
      BY <2>2, TableOfModule DEF Exporter
    <3> QED
      BY <2>3, <3>2, <3>3, TableOfModule DEF Shares
  <2>8. ~ImportUnknown
    BY <1>2 DEF ImportUnknown
  <2> QED
    BY <2>4, <2>5, <2>6, <2>7, <2>8
<1> QED
  BY <1>1, <1>2

LEMMA SpaceShares ==
  ASSUME Typed, PopulateGlobals \/ PopulateFunctions \/ TablesPopulated
  PROVE  Shares /\ heap' = heap
<1>1. CASE Refuse \/ Panic
  BY <1>1, GiveUpShares
<1>2. CASE ~ (Refuse \/ Panic)
  <2>1. m \in Module
    BY DEF Typed, Reading, PopulateGlobals, PopulateFunctions, TablesPopulated
  <2>2. /\ UNCHANGED <<heap, mods>>
        /\ \/ m' = m
           \/ m' = [m EXCEPT !.globals = @ \o m.decl.globals]
           \/ m' = [m EXCEPT !.funcs = @ \o Own, !.types = m.taken \o @]
           \/ m' = [m EXCEPT !.found = ArrayOf(heap, m.mem)]
    BY <1>2 DEF PopulateGlobals, PopulateFunctions, TablesPopulated
  <2>3. m'.tables = m.tables /\ m'.mem = m.mem
    BY <2>1, <2>2 DEF Module
  <2> QED
    BY <2>2, <2>3, TableOfModule DEF Shares
<1> QED
  BY <1>1, <1>2

LEMMA FinishShares ==
  ASSUME Typed, Finish
  PROVE  Shares /\ heap' = heap
<1>1. m \in Module /\ mods \in Seq(Module)
  BY DEF Typed, Reading, Finish
<1> QED
  BY <1>1, NoModuleHas DEF Shares, Finish

-----------------------------------------------------------------------------
\* The segment that is next, in the section it comes from.
LEMMA NextSegment ==
  ASSUME Typed, phase \in {"tables", "memory"}, todo # <<>>
  PROVE  /\ m \in Module /\ Entry \in Segment /\ todo \in Seq(Segment) /\ heap \in Seq(Seq(Int))
         /\ Entry.data \in Seq(Int) /\ Entry.index \in Nat
         /\ Gives(Entry.offset) => Offset(Entry.offset) \in Int
<1>1. m \in Module /\ todo \in Seq(Segment) /\ heap \in Seq(Seq(Int))
  BY DEF Typed, Reading
<1>2. Entry \in Segment
  BY <1>1 DEF Entry
<1>3. Gives(Entry.offset) => Offset(Entry.offset) \in Int
  BY <1>1, <1>2, OffsetInt
<1> QED
  BY <1>1, <1>2, <1>3 DEF Segment

\* A segment of the table: where its elements are.
PutsTable(put) ==
  LET ref == m.tables[Entry.index + 1] IN
  /\ heap' = put.heap /\ m' = [m EXCEPT !.tables[Entry.index + 1] = put.ref]
  /\ todo' = Tail(todo) /\ UNCHANGED <<mods, phase>>
  /\ m \in Module /\ phase = "tables" /\ todo # <<>> /\ todo \in Seq(Segment)
  /\ heap \in Seq(Seq(Int)) /\ heap' \in Seq(Seq(Int))
  /\ Entry.index + 1 \in DOMAIN m.tables /\ ref \in 0 .. Len(heap) /\ put.ref \in Nat
  /\ \/ InNewArray(heap, ref, Offset(Entry.offset), Entry.data, put)
     \/ InPlace(heap, ref, Offset(Entry.offset), Entry.data, put)

LEMMA TableStep ==
  ASSUME Typed, Apart, PopulateTable, ~ (Refuse \/ Panic)
  PROVE  \E put : PutsTable(put)
<1> DEFINE ref == m.tables[Entry.index + 1]
           put == Put(heap, At(m.tables, Entry.index), Offset(Entry.offset), Entry.data)
<1>1. /\ phase = "tables" /\ todo # <<>> /\ todo' = Tail(todo) /\ UNCHANGED <<mods, phase>>
      /\ heap' = put.heap /\ m' = [m EXCEPT !.tables[Entry.index + 1] = put.ref]
      /\ Entry.index \in Index(m.tables) /\ Gives(Entry.offset) /\ ~ (Offset(Entry.offset) < 0)
  BY DEF PopulateTable
<1>2. /\ m \in Module /\ todo \in Seq(Segment) /\ heap \in Seq(Seq(Int))
      /\ Entry.data \in Seq(Int) /\ Entry.index \in Nat /\ Offset(Entry.offset) \in Nat
  BY <1>1, NextSegment
<1>3. m.tables \in Seq(Nat)
  BY <1>2 DEF Module
<1>4. Entry.index + 1 \in DOMAIN m.tables
  BY <1>1, <1>2, <1>3 DEF Index
<1>5. ref \in Tables /\ ref \in 0 .. Len(heap)
  BY <1>4, TableOfModule DEF Apart
<1>6. At(m.tables, Entry.index) = ref
  BY DEF At
<1> HIDE DEF put, ref
<1>7. put = Put(heap, ref, Offset(Entry.offset), Entry.data)
  BY <1>6 DEF put
<1>8. /\ put.heap \in Seq(Seq(Int))
      /\ \/ InNewArray(heap, ref, Offset(Entry.offset), Entry.data, put)
         \/ InPlace(heap, ref, Offset(Entry.offset), Entry.data, put)
  BY <1>2, <1>5, <1>7, PutIs
<1>9. put.ref \in Nat
  <2>1. Len(heap) + 1 \in Nat /\ ref \in Nat
    BY <1>2, <1>5
  <2> QED
    BY <1>8, <2>1 DEF InNewArray, InPlace
<1>10. PutsTable(put)
  BY <1>1, <1>2, <1>4, <1>5, <1>8, <1>9 DEF PutsTable, ref
<1> QED
  BY <1>10

\* A segment of the memory.
PutsMemory(put) ==
  /\ heap' = put.heap /\ m' = [m EXCEPT !.mem = put.ref]
  /\ todo' = Tail(todo) /\ UNCHANGED <<mods, phase>>
  /\ m \in Module /\ phase = "memory" /\ todo # <<>> /\ todo \in Seq(Segment)
  /\ heap \in Seq(Seq(Int)) /\ heap' \in Seq(Seq(Int)) /\ m.mem \in 0 .. Len(heap)
  /\ put.ref \in Nat /\ Gives(Entry.offset) /\ Offset(Entry.offset) \in Nat
  /\ Entry.data \in Seq(Int) /\ ArrayOf(heap, m.mem) \in Seq(Int)
  /\ \/ InNewArray(heap, m.mem, Offset(Entry.offset), Entry.data, put)
     \/ InPlace(heap, m.mem, Offset(Entry.offset), Entry.data, put)

LEMMA MemoryStep ==
  ASSUME Typed, Apart, PopulateMemory, ~ (Refuse \/ Panic)
  PROVE  \E put : PutsMemory(put)
<1> DEFINE put == Put(heap, m.mem, Offset(Entry.offset), Entry.data)
<1>1. /\ phase = "memory" /\ todo # <<>> /\ todo' = Tail(todo) /\ UNCHANGED <<mods, phase>>
      /\ heap' = put.heap /\ m' = [m EXCEPT !.mem = put.ref]
      /\ Gives(Entry.offset) /\ ~ (Offset(Entry.offset) < 0)
  BY DEF PopulateMemory
<1>2. /\ m \in Module /\ todo \in Seq(Segment) /\ heap \in Seq(Seq(Int))
      /\ Entry.data \in Seq(Int) /\ Offset(Entry.offset) \in Nat
  BY <1>1, NextSegment
<1>3. m.mem \in 0 .. Len(heap)
  BY TableOfModule DEF Apart
<1> HIDE DEF put
<1>4. /\ put.heap \in Seq(Seq(Int)) /\ ArrayOf(heap, m.mem) \in Seq(Int)
      /\ \/ InNewArray(heap, m.mem, Offset(Entry.offset), Entry.data, put)
         \/ InPlace(heap, m.mem, Offset(Entry.offset), Entry.data, put)
  BY <1>2, <1>3, PutIs DEF put
<1>5. put.ref \in Nat
  <2>1. Len(heap) + 1 \in Nat /\ m.mem \in Nat
    BY <1>2, <1>3
  <2> QED
    BY <1>4, <2>1 DEF InNewArray, InPlace
<1>6. PutsMemory(put)
  BY <1>1, <1>2, <1>3, <1>4, <1>5 DEF PutsMemory
<1> QED
  BY <1>6

LEMMA PopulateTableTyped ==
  ASSUME Typed, Apart, PopulateTable
  PROVE  Typed'
<1>1. CASE Refuse \/ Panic
  BY <1>1, GiveUpTyped
<1>2. CASE ~ (Refuse \/ Panic)
  <2>1. PICK put : PutsTable(put)
    BY <1>2, TableStep
  <2>2. m.tables \in Seq(Nat)
    BY <2>1 DEF PutsTable, Module
  <2>3. [m.tables EXCEPT ![Entry.index + 1] = put.ref] \in Seq(Nat)
    BY <2>1, <2>2, ChangedSeq DEF PutsTable
  <2>4. m' \in Module /\ m'.decl = m.decl
    BY <2>1, <2>3 DEF PutsTable, Module
  <2>5. m.decl.elems \in Seq(Segment)
    BY <2>1, DeclsAssumption DEF PutsTable, Module
  <2>6. todo \in Seq(Segment) /\ Rest(m.decl.elems) /\ todo # <<>> /\ todo' = Tail(todo)
    BY <2>1 DEF PutsTable, Typed
  <2>7. /\ todo' \in Seq(Segment) /\ Len(todo') <= Len(m.decl.elems)
        /\ \A i \in 1 .. Len(todo') :
             todo'[i] = m.decl.elems[Len(m.decl.elems) - Len(todo') + i]
    BY <2>5, <2>6, RestTail
  <2>8. Rest(m.decl.elems)'
    BY <2>4, <2>7 DEF Rest
  <2> QED
    BY <2>1, <2>4, <2>7, <2>8 DEF Typed, Reading, PutsTable
<1> QED
  BY <1>1, <1>2

LEMMA PopulateMemoryTyped ==
  ASSUME Typed, Apart, PopulateMemory
  PROVE  Typed'
<1>1. CASE Refuse \/ Panic
  BY <1>1, GiveUpTyped
<1>2. CASE ~ (Refuse \/ Panic)
  <2>1. PICK put : PutsMemory(put)
    BY <1>2, MemoryStep
  <2>2. m' \in Module /\ m'.decl = m.decl
    BY <2>1 DEF PutsMemory, Module
  <2>3. m.decl.data \in Seq(Segment)
    BY <2>1, DeclsAssumption DEF PutsMemory, Module
  <2>4. todo \in Seq(Segment) /\ Rest(m.decl.data) /\ todo # <<>> /\ todo' = Tail(todo)
    BY <2>1 DEF PutsMemory, Typed
  <2>5. /\ todo' \in Seq(Segment) /\ Len(todo') <= Len(m.decl.data)
        /\ \A i \in 1 .. Len(todo') :
             todo'[i] = m.decl.data[Len(m.decl.data) - Len(todo') + i]
    BY <2>3, <2>4, RestTail
  <2>6. Rest(m.decl.data)'
    BY <2>2, <2>5 DEF Rest
  <2> QED
    BY <2>1, <2>2, <2>5, <2>6 DEF Typed, Reading, PutsMemory
<1> QED
  BY <1>1, <1>2

LEMMA TablesPopulatedTyped ==
  ASSUME Typed, Apart, TablesPopulated
  PROVE  Typed' /\ m' \in Module /\ m'.decl = m.decl /\ m'.globals = m.globals
               /\ m'.found = ArrayOf(heap, m.mem) /\ m'.mem = m.mem
<1>1. /\ phase = "tables" /\ phase' = "memory" /\ todo' = m.decl.data
      /\ UNCHANGED <<heap, mods>> /\ m' = [m EXCEPT !.found = ArrayOf(heap, m.mem)]
  BY DEF TablesPopulated
<1>2. m \in Module /\ heap \in Seq(Seq(Int))
  BY <1>1 DEF Typed, Reading
<1>5. ArrayOf(heap, m.mem) \in Seq(Int)
  <2>1. m.mem \in 0 .. Len(heap)
    BY TableOfModule DEF Apart
  <2> QED
    BY <1>2, <2>1 DEF ArrayOf, Nil
<1>6. /\ m' \in Module /\ m'.decl = m.decl /\ m'.globals = m.globals
      /\ m'.found = ArrayOf(heap, m.mem) /\ m'.mem = m.mem
  BY <1>1, <1>2, <1>5 DEF Module
<1>3. m.decl.data \in Seq(Segment)
  BY <1>2, DeclsAssumption DEF Module
<1>4. Rest(m.decl.data)'
  BY <1>1, <1>3, <1>6, RestAll DEF Rest
<1> QED
  BY <1>1, <1>3, <1>4, <1>6 DEF Typed, Reading

LEMMA FinishTyped ==
  ASSUME Typed, Finish
  PROVE  Typed'
<1>1. m \in Module /\ mods \in Seq(Module)
  BY DEF Typed, Reading, Finish
<1>2. Append(mods, m) \in Seq(Module)
  BY <1>1
<1> QED
  BY <1>2 DEF Typed, Reading, Finish

\* The new array is behind the others; or none is new.
LEMMA TableApart ==
  ASSUME Typed, Apart, NEW put, PutsTable(put)
  PROVE  Apart'
<1> DEFINE ref == m.tables[Entry.index + 1]
           l == Len(heap)
<1>1. /\ heap' = put.heap /\ m' = [m EXCEPT !.tables[Entry.index + 1] = put.ref] /\ mods' = mods
      /\ m \in Module /\ Entry.index + 1 \in DOMAIN m.tables /\ l \in Nat
  BY DEF PutsTable
<1>2. ref \in Tables
  BY <1>1, TableOfModule
<1>3. m.tables \in Seq(Nat)
  BY <1>1 DEF Module
<1>4. m'.mem = m.mem /\ m'.tables = [m.tables EXCEPT ![Entry.index + 1] = put.ref]
  BY <1>1 DEF Module
<1>5. \/ put.ref = l + 1 /\ Len(heap') = l + 1
      \/ put.ref = ref /\ Len(heap') = l
  BY DEF PutsTable, InNewArray, InPlace
<1>6. Memories' = Memories
  BY <1>1, <1>4 DEF Memories
<1>7. \A i \in DOMAIN m'.tables : m'.tables[i] = put.ref \/ (i \in DOMAIN m.tables /\ m'.tables[i] = m.tables[i])
  BY <1>3, <1>4
<1>8. Tables' \subseteq Tables \cup {put.ref}
  BY <1>1, <1>7 DEF Tables
<1>9. /\ Memories \subseteq 0 .. l /\ Tables \subseteq 0 .. l /\ Memories \cap Tables \subseteq {Nil}
  BY DEF Apart
<1> HIDE DEF ref, l
<1>10. CASE put.ref = l + 1 /\ Len(heap') = l + 1
  BY <1>1, <1>6, <1>8, <1>9, <1>10 DEF Apart
<1>11. CASE put.ref = ref /\ Len(heap') = l
  BY <1>2, <1>6, <1>8, <1>9, <1>11 DEF Apart
<1> QED
  BY <1>5, <1>10, <1>11

LEMMA MemoryApart ==
  ASSUME Typed, Apart, NEW put, PutsMemory(put)
  PROVE  Apart'
<1> DEFINE l == Len(heap)
<1>1. /\ heap' = put.heap /\ m' = [m EXCEPT !.mem = put.ref] /\ mods' = mods
      /\ m \in Module /\ l \in Nat
  BY DEF PutsMemory
<1>2. m'.mem = put.ref /\ m'.tables = m.tables
  BY <1>1 DEF Module
<1>3. \/ put.ref = l + 1 /\ Len(heap') = l + 1
      \/ put.ref = m.mem /\ Len(heap') = l
  BY DEF PutsMemory, InNewArray, InPlace
<1>4. Tables' = Tables
  BY <1>1, <1>2 DEF Tables
<1>5. Memories' \subseteq Memories \cup {put.ref} /\ m.mem \in Memories
  BY <1>1, <1>2 DEF Memories
<1>6. /\ Memories \subseteq 0 .. l /\ Tables \subseteq 0 .. l /\ Memories \cap Tables \subseteq {Nil}
  BY DEF Apart
<1> HIDE DEF l
<1>7. CASE put.ref = l + 1 /\ Len(heap') = l + 1
  BY <1>1, <1>4, <1>5, <1>6, <1>7 DEF Apart
<1>8. CASE put.ref = m.mem /\ Len(heap') = l
  BY <1>4, <1>5, <1>6, <1>8 DEF Apart
<1> QED
  BY <1>3, <1>7, <1>8

LEMMA FreshStep ==
  ASSUME Typed, Apart, Fresh, [Next]_vars
  PROVE  Fresh'
<1>1. CASE UNCHANGED vars
  BY <1>1 DEF vars, Fresh, Decodable, Has
<1>2. CASE Refuse \/ Panic
  BY <1>2 DEF Refuse, Panic, Fresh
<1>3. CASE Next /\ ~ (Refuse \/ Panic)
  <2>1. CASE Begin
    BY <2>1, BeginFresh
  <2>2. CASE ImportUnknown
    BY <1>3, <2>2 DEF ImportUnknown
  <2>3. CASE ImportFunction
    BY <2>3, ImportFunctionFresh
  <2>4. CASE ImportGlobal \/ ImportTable \/ ImportMemory
    <3>1. /\ Importing /\ Exports /\ Imported
          /\ \/ m' = [m EXCEPT !.globals = Append(@, At(Exporter.globals, Exported.index))]
             \/ m' = [m EXCEPT !.tables[1] = Exporter.tables[1]]
             \/ m' = [m EXCEPT !.mem = Exporter.mem]
      BY <1>3, <2>4 DEF ImportGlobal, ImportTable, ImportMemory
    <3>2. m \in Module /\ phase = "imports"
      BY <3>1, ExporterTyped
    <3>3. m'.decl = m.decl /\ m'.types = m.types /\ m'.bodies = m.bodies
      BY <3>1, <3>2 DEF Module
    <3> QED
      BY <3>1, <3>2, <3>3, OtherFresh DEF Imported
  <2>5. CASE PopulateGlobals
    <3>1. m \in Module /\ phase = "imports"
      BY <2>5 DEF PopulateGlobals, Typed, Reading
    <3>2. m'.decl = m.decl /\ m'.types = m.types /\ m'.bodies = m.bodies
      BY <2>5, <3>1 DEF PopulateGlobals, Module
    <3> QED
      BY <2>5, <3>1, <3>2, OtherFresh DEF PopulateGlobals
  <2>6. CASE PopulateFunctions
    BY <1>3, <2>6 DEF PopulateFunctions, Fresh
  <2>7. CASE PopulateTable
    <3>1. PICK put : PutsTable(put)
      BY <1>3, <2>7, TableStep
    <3> QED
      BY <3>1 DEF PutsTable, Fresh
  <2>8. CASE TablesPopulated
    BY <2>8 DEF TablesPopulated, Fresh
  <2>9. CASE PopulateMemory
    <3>1. PICK put : PutsMemory(put)
      BY <1>3, <2>9, MemoryStep
    <3> QED
      BY <3>1 DEF PutsMemory, Fresh
  <2>10. CASE Finish
    BY <2>10 DEF Finish, Fresh
  <2> QED
    BY <1>3, <2>1, <2>2, <2>3, <2>4, <2>5, <2>6, <2>7, <2>8, <2>9, <2>10 DEF Next
<1> QED
  BY <1>1, <1>2, <1>3

Sound == Typed /\ Apart /\ Fresh

LEMMA SoundInit == Init => Sound
BY TypedInit, ApartInit, FreshInit DEF Sound

LEMMA SoundStep == Sound /\ [Next]_vars => Sound'
<1> SUFFICES ASSUME Typed, Apart, Fresh, [Next]_vars PROVE Typed' /\ Apart'
  BY FreshStep DEF Sound
<1>0. heap \in Seq(Seq(Int))
  BY DEF Typed
<1>1. CASE Begin
  BY <1>0, <1>1, BeginTyped, BeginShares, SharesApart
<1>2. CASE ImportUnknown
  <2>1. Refuse
    BY <1>2 DEF ImportUnknown
  <2> QED
    BY <1>0, <2>1, GiveUpTyped, GiveUpShares, SharesApart
<1>3. CASE ImportFunction
  BY <1>0, <1>3, ImportFunctionTyped, ImportShares, SharesApart
<1>4. CASE ImportGlobal
  BY <1>0, <1>4, ImportGlobalTyped, ImportShares, SharesApart
<1>5. CASE ImportTable
  BY <1>0, <1>5, ImportTableTyped, ImportShares, SharesApart
<1>6. CASE ImportMemory
  BY <1>0, <1>6, ImportMemoryTyped, ImportShares, SharesApart
<1>7. CASE PopulateGlobals
  BY <1>0, <1>7, PopulateGlobalsTyped, SpaceShares, SharesApart
<1>8. CASE PopulateFunctions
  BY <1>0, <1>8, PopulateFunctionsTyped, SpaceShares, SharesApart
<1>9. CASE PopulateTable
  <2>1. CASE Refuse \/ Panic
    BY <1>0, <2>1, GiveUpTyped, GiveUpShares, SharesApart
  <2>2. CASE ~ (Refuse \/ Panic)
    BY <1>9, <2>2, TableStep, TableApart, PopulateTableTyped
  <2> QED
    BY <2>1, <2>2
<1>10. CASE TablesPopulated
  BY <1>0, <1>10, TablesPopulatedTyped, SpaceShares, SharesApart
<1>11. CASE PopulateMemory
  <2>1. CASE Refuse \/ Panic
    BY <1>0, <2>1, GiveUpTyped, GiveUpShares, SharesApart
  <2>2. CASE ~ (Refuse \/ Panic)
    BY <1>11, <2>2, MemoryStep, MemoryApart, PopulateMemoryTyped
  <2> QED
    BY <2>1, <2>2
<1>12. CASE Finish
  BY <1>0, <1>12, FinishTyped, FinishShares, SharesApart
<1>13. CASE UNCHANGED vars
  <2>1. UNCHANGED <<heap, mods, m, phase, todo>>
    BY <1>13 DEF vars
  <2>2. Memories' = Memories /\ Tables' = Tables
    BY <2>1 DEF Memories, Tables
  <2> QED
    BY <2>1, <2>2 DEF Typed, Apart, Rest
<1> QED
  BY <1>1, <1>2, <1>3, <1>4, <1>5, <1>6, <1>7, <1>8, <1>9, <1>10, <1>11, <1>12, <1>13 DEF Next

-----------------------------------------------------------------------------
\* Modules with the same memory have got it from a module they both descend from.
Kin(k) == {k} \cup Lineage(mods[k].decl)

Descent ==
  /\ \A k, j \in DOMAIN mods :
       mods[k].mem = mods[j].mem /\ mods[k].mem # Nil => Kin(k) \cap Kin(j) # {}
  /\ phase \in Reading => \A k \in DOMAIN mods :
       m.mem = mods[k].mem /\ m.mem # Nil => Kin(k) \cap Lineage(m.decl) # {}

\* What a module imports its memory from, and all it descends from.
LEMMA SourceKin ==
  ASSUME NEW decl, NEW y \in Sources(decl), y \in DOMAIN mods
  PROVE  Kin(y) \subseteq Lineage(decl)
<1>1. ASSUME NEW S \in SUBSET DOMAIN mods, Closed(S), Sources(decl) \cap DOMAIN mods \subseteq S
      PROVE  y \in S /\ Lineage(mods[y].decl) \subseteq S
  <2>1. y \in S
    BY <1>1
  <2>2. Sources(mods[y].decl) \cap DOMAIN mods \subseteq S
    BY <1>1, <2>1 DEF Closed
  <2> QED
    BY <1>1, <2>1, <2>2 DEF Lineage
<1>2. Lineage(mods[y].decl) \subseteq DOMAIN mods
  BY DEF Lineage
<1> QED
  BY <1>1, <1>2 DEF Kin, Lineage

\* A module that has been read has no effect on where others come from.
LEMMA LineageGrows ==
  ASSUME mods \in Seq(Module), m \in Module, mods' = Append(mods, m), NEW decl
  PROVE  Lineage(decl) \subseteq Lineage(decl)'
<1> DEFINE n == Len(mods)
<1>1. /\ n \in Nat /\ DOMAIN mods = 1 .. n /\ DOMAIN mods' = 1 .. n + 1
      /\ \A k \in 1 .. n : mods'[k] = mods[k]
  OBVIOUS
<1> HIDE DEF n
<1>2. ASSUME NEW x \in Lineage(decl), NEW S \in SUBSET DOMAIN mods',
             \A z \in S : Sources(mods'[z].decl) \cap DOMAIN mods' \subseteq S,
             Sources(decl) \cap DOMAIN mods' \subseteq S
      PROVE  x \in S
  <2> DEFINE old == S \cap DOMAIN mods
  <2>1. \A z \in old : Sources(mods[z].decl) \cap DOMAIN mods \subseteq old
    BY <1>1, <1>2
  <2>2. Closed(old) /\ Sources(decl) \cap DOMAIN mods \subseteq old
    BY <1>1, <1>2, <2>1 DEF Closed
  <2> QED
    BY <1>2, <2>2 DEF Lineage
<1>3. Lineage(decl) \subseteq DOMAIN mods'
  BY <1>1 DEF Lineage
<1>4. \A S : Closed(S)' <=> \A z \in S : Sources(mods'[z].decl) \cap DOMAIN mods' \subseteq S
  BY DEF Closed
<1> QED
  BY <1>2, <1>3, <1>4 DEF Lineage

LEMMA DescentInit == Init => Descent
BY DEF Init, Descent, Reading

\* The module keeps its memory and what it is declared to import.
LEMMA KeptDescent ==
  ASSUME Descent, mods' = mods,
         phase' \in Reading => /\ m'.mem = Nil \/ (phase \in Reading /\ m'.mem = m.mem
                                                    /\ m'.decl = m.decl)
  PROVE  Descent'
<1>1. \A decl : Lineage(decl)' = Lineage(decl)
  BY DEF Lineage, Closed
<1>2. \A k : Kin(k)' = Kin(k)
  BY <1>1 DEF Kin
<1> QED
  BY <1>1, <1>2 DEF Descent, Kin

LEMMA ImportMemoryDescent ==
  ASSUME Sound, Descent, ImportMemory, ~Refuse
  PROVE  Descent'
<1>1. /\ Importing /\ Exports /\ Imported /\ Exported.kind = "memory"
      /\ m' = [m EXCEPT !.mem = Exporter.mem]
  BY DEF ImportMemory
<1>2. Entry.from \in DOMAIN mods /\ m \in Module /\ phase = "imports" /\ mods' = mods
  BY <1>1, ExporterTyped DEF Sound, Imported
<1>3. Entry.from \in Sources(m.decl)
  <2>1. todo \in Seq(ImportEntry) /\ Rest(m.decl.imports) /\ todo # <<>> /\ todo' = Tail(todo)
    BY <1>1, <1>2 DEF Sound, Typed, Importing, Imported
  <2>2. m.decl.imports \in Seq(ImportEntry)
    BY <1>2, DeclsAssumption DEF Module
  <2>3. /\ Entry = m.decl.imports[Len(m.decl.imports) - Len(todo) + 1]
        /\ Len(m.decl.imports) - Len(todo) + 1 \in 1 .. Len(m.decl.imports)
    BY <2>1, <2>2, RestTail DEF Entry
  <2>4. Entry \in Range(m.decl.imports) /\ Entry.kind = "memory"
    BY <1>1, <2>2, <2>3 DEF Range, Exports
  <2> QED
    BY <2>4 DEF Sources
<1>4. Kin(Entry.from) \subseteq Lineage(m.decl)
  BY <1>2, <1>3, SourceKin
<1>5. m'.mem = mods[Entry.from].mem /\ m'.decl = m.decl
  BY <1>1, <1>2 DEF Module, Exporter
<1>6. \A decl : Lineage(decl)' = Lineage(decl)
  BY <1>2 DEF Lineage, Closed
<1>7. \A k : Kin(k)' = Kin(k)
  BY <1>2, <1>6 DEF Kin
<1>8. Lineage(m.decl)' = Lineage(m.decl)
  BY <1>2, <1>5 DEF Lineage, Closed
<1> QED
  BY <1>2, <1>4, <1>5, <1>7, <1>8 DEF Descent

LEMMA MemoryDescent ==
  ASSUME Sound, Descent, NEW put, PutsMemory(put)
  PROVE  Descent'
<1>1. m' = [m EXCEPT !.mem = put.ref] /\ mods' = mods /\ m \in Module /\ UNCHANGED phase
      /\ phase = "memory" /\ heap \in Seq(Seq(Int))
  BY DEF PutsMemory
<1>2. m'.mem = put.ref /\ m'.decl = m.decl
  BY <1>1 DEF Module
<1>3. CASE put.ref = m.mem
  BY <1>1, <1>2, <1>3, KeptDescent DEF Reading
<1>4. CASE put.ref = Len(heap) + 1
  <2>1. \A k \in DOMAIN mods : mods[k].mem # m'.mem
    <3>1. Memories \subseteq 0 .. Len(heap) /\ Len(heap) \in Nat
      BY <1>1 DEF Sound, Apart
    <3>2. \A k \in DOMAIN mods : mods[k].mem \in 0 .. Len(heap)
      BY <3>1 DEF Memories
    <3>3. Len(heap) + 1 \notin 0 .. Len(heap)
      BY <3>1
    <3> QED
      BY <1>2, <1>4, <3>2, <3>3
  <2>2. \A k : Kin(k)' = Kin(k)
    BY <1>1 DEF Kin, Lineage, Closed
  <2> QED
    BY <1>1, <2>1, <2>2 DEF Descent
<1> QED
  BY <1>3, <1>4 DEF PutsMemory, InNewArray, InPlace

LEMMA FinishDescent ==
  ASSUME Sound, Descent, Finish
  PROVE  Descent'
<1>0. PICK n : n = Len(mods)
  OBVIOUS
<1>1. m \in Module /\ mods \in Seq(Module) /\ mods' = Append(mods, m) /\ phase = "memory"
      /\ phase' = "idle"
  BY DEF Sound, Typed, Reading, Finish
<1>2. /\ n \in Nat /\ DOMAIN mods = 1 .. n /\ DOMAIN mods' = 1 .. n + 1
      /\ \A k \in 1 .. n : mods'[k] = mods[k]
      /\ mods'[n + 1] = m
  BY <1>0, <1>1
<1>3. \A k \in 1 .. n : Kin(k) \subseteq Kin(k)'
  <2> TAKE k \in 1 .. n
  <2>1. PICK decl : decl = mods[k].decl
    OBVIOUS
  <2>2. Lineage(decl) \subseteq Lineage(decl)'
    BY <1>1, LineageGrows
  <2>3. decl = mods'[k].decl
    BY <1>2, <2>1
  <2>4. Lineage(mods[k].decl)' = Lineage(decl)'
    BY <2>3 DEF Lineage
  <2> QED
    BY <2>1, <2>2, <2>4 DEF Kin
<1>4. Lineage(m.decl) \subseteq Kin(n + 1)'
  <2>1. PICK decl : decl = m.decl
    OBVIOUS
  <2>2. Lineage(decl) \subseteq Lineage(decl)'
    BY <1>1, LineageGrows
  <2>3. Kin(n + 1)' = {n + 1} \cup Lineage(decl)'
    BY <1>2, <2>1 DEF Kin, Lineage
  <2> QED
    BY <2>1, <2>2, <2>3
<1>5. ASSUME NEW k \in 1 .. n, mods'[k].mem = m.mem, m.mem # Nil
      PROVE  Kin(k)' \cap Kin(n + 1)' # {}
  <2>1. Kin(k) \cap Lineage(m.decl) # {}
    BY <1>1, <1>2, <1>5 DEF Descent, Reading
  <2> QED
    BY <1>3, <1>4, <2>1
<1>6. ASSUME NEW k \in 1 .. n, NEW j \in 1 .. n, mods'[k].mem = mods'[j].mem, mods'[k].mem # Nil
      PROVE  Kin(k)' \cap Kin(j)' # {}
  <2>1. Kin(k) \cap Kin(j) # {}
    BY <1>2, <1>6 DEF Descent
  <2> QED
    BY <1>3, <2>1
<1>7. n + 1 \in Kin(n + 1)'
  BY <1>2 DEF Kin
<1>8. \A k \in 1 .. n + 1 : k \in 1 .. n \/ k = n + 1
  BY <1>2
<1>9. ASSUME NEW k \in 1 .. n + 1, NEW j \in 1 .. n + 1,
             mods'[k].mem = mods'[j].mem, mods'[k].mem # Nil
      PROVE  Kin(k)' \cap Kin(j)' # {}
  <2>1. CASE k = n + 1 /\ j = n + 1
    BY <1>7, <2>1
  <2>2. CASE k = n + 1 /\ j \in 1 .. n
    BY <1>2, <1>5, <1>9, <2>2
  <2>3. CASE k \in 1 .. n /\ j = n + 1
    BY <1>2, <1>5, <1>9, <2>3
  <2>4. CASE k \in 1 .. n /\ j \in 1 .. n
    BY <1>6, <1>9, <2>4
  <2> QED
    BY <1>8, <2>1, <2>2, <2>3, <2>4
<1> QED
  BY <1>1, <1>2, <1>9 DEF Descent, Reading

\* Only an import and a segment change the memory of the module.
KeepsMemory ==
  mods' = mods /\ (phase' \in Reading =>
                     \/ m'.mem = Nil
                     \/ phase \in Reading /\ m'.mem = m.mem /\ m'.decl = m.decl)

LEMMA OthersKeepMemory ==
  ASSUME Sound, Next, ~ImportMemory, ~PopulateMemory, ~Finish
  PROVE  KeepsMemory
<1>1. CASE Refuse \/ Panic
  BY <1>1, ReadingIs DEF Refuse, Panic, KeepsMemory
<1>2. CASE ~ (Refuse \/ Panic)
  <2>1. CASE Begin
    BY <2>1, BeginTyped DEF Begin, KeepsMemory, Sound
  <2>2. CASE ImportUnknown
    BY <1>2, <2>2 DEF ImportUnknown
  <2>3. CASE ImportFunction \/ ImportGlobal \/ ImportTable
    <3>1. /\ Importing /\ Imported
          /\ \/ m' = AddFunction(At(Exporter.funcs, Exported.index))
             \/ m' = [m EXCEPT !.globals = Append(@, At(Exporter.globals, Exported.index))]
             \/ m' = [m EXCEPT !.tables[1] = Exporter.tables[1]]
      BY <1>2, <2>3 DEF ImportFunction, ImportGlobal, ImportTable
    <3>2. m \in Module /\ phase \in Reading
      BY <3>1 DEF Importing, Sound, Typed, Reading
    <3>3. m'.mem = m.mem /\ m'.decl = m.decl
      BY <3>1, <3>2 DEF AddFunction, Module
    <3> QED
      BY <3>1, <3>2, <3>3 DEF Imported, KeepsMemory
  <2>4. CASE PopulateGlobals \/ PopulateFunctions \/ TablesPopulated
    <3>1. /\ phase \in Reading /\ mods' = mods
          /\ \/ m' = m
             \/ m' = [m EXCEPT !.globals = @ \o m.decl.globals]
             \/ m' = [m EXCEPT !.funcs = @ \o Own, !.types = m.taken \o @]
             \/ m' = [m EXCEPT !.found = ArrayOf(heap, m.mem)]
      BY <1>2, <2>4 DEF PopulateGlobals, PopulateFunctions, TablesPopulated, Reading
    <3>2. m \in Module
      BY <3>1 DEF Sound, Typed
    <3>3. m'.mem = m.mem /\ m'.decl = m.decl
      BY <3>1, <3>2 DEF Module
    <3> QED
      BY <3>1, <3>3 DEF KeepsMemory
  <2>5. CASE PopulateTable
    <3>1. PICK put : PutsTable(put)
      BY <1>2, <2>5, TableStep DEF Sound
    <3>2. m'.mem = m.mem /\ m'.decl = m.decl
      BY <3>1 DEF PutsTable, Module
    <3> QED
      BY <3>1, <3>2 DEF PutsTable, KeepsMemory, Reading
  <2> QED
    BY <2>1, <2>2, <2>3, <2>4, <2>5 DEF Next
<1> QED
  BY <1>1, <1>2

LEMMA DescentStep == Sound /\ Descent /\ [Next]_vars => Descent'
<1> SUFFICES ASSUME Sound, Descent, [Next]_vars PROVE Descent'
  OBVIOUS
<1>1. CASE UNCHANGED vars
  BY <1>1, KeptDescent DEF vars
<1>2. CASE Refuse \/ Panic
  BY <1>2, ReadingIs, KeptDescent DEF Refuse, Panic
<1>3. CASE Next /\ ~ (Refuse \/ Panic)
  <2>1. CASE ImportMemory
    BY <1>3, <2>1, ImportMemoryDescent
  <2>2. CASE PopulateMemory
    BY <1>3, <2>2, MemoryStep, MemoryDescent DEF Sound
  <2>3. CASE Finish
    BY <2>3, FinishDescent
  <2>4. CASE ~ImportMemory /\ ~PopulateMemory /\ ~Finish
    BY <1>3, <2>4, OthersKeepMemory, KeptDescent DEF KeepsMemory
  <2> QED
    BY <2>1, <2>2, <2>3, <2>4
<1> QED
  BY <1>1, <1>2, <1>3

\* What a step does to the memory of a module that has been read.
Leaves(k) ==
  /\ Len(ArrayOf(heap', mods[k].mem)) = Len(ArrayOf(heap, mods[k].mem))
  /\ \A i \in DOMAIN ArrayOf(heap, mods[k].mem) :
       Changed(k, i) => phase = "memory" /\ i \in Extent(Entry) /\ Related(k)

LEMMA HeapLeaves ==
  ASSUME NEW k, heap' = heap \/ mods[k].mem = Nil \/ heap'[mods[k].mem] = heap[mods[k].mem]
  PROVE  Leaves(k)
<1>1. PICK ref : ref = mods[k].mem
  OBVIOUS
<1>2. ArrayOf(heap', ref) = ArrayOf(heap, ref)
  BY <1>1 DEF ArrayOf
<1> QED
  BY <1>1, <1>2 DEF Leaves, Changed

LEMMA TableLeaves ==
  ASSUME Sound, NEW put, PutsTable(put), NEW k \in DOMAIN mods
  PROVE  Leaves(k)
<1> DEFINE ref == m.tables[Entry.index + 1]
           l == Len(heap)
<1>1. mods[k].mem \in Memories /\ ref \in Tables /\ l \in Nat
  BY TableOfModule DEF Sound, PutsTable
<1>2. mods[k].mem \in 0 .. l /\ (mods[k].mem = Nil \/ mods[k].mem # ref)
  BY <1>1 DEF Sound, Apart
<1>3. \/ \A i \in 1 .. l : heap'[i] = heap[i]
      \/ \A i \in 1 .. l : i # ref => heap'[i] = heap[i]
  BY DEF PutsTable, InNewArray, InPlace
<1> HIDE DEF l, ref
<1>4. mods[k].mem = Nil \/ heap'[mods[k].mem] = heap[mods[k].mem]
  BY <1>1, <1>2, <1>3 DEF Nil
<1> QED
  BY <1>4, HeapLeaves

LEMMA MemoryLeaves ==
  ASSUME Sound, Descent, NEW put, PutsMemory(put), NEW k \in DOMAIN mods
  PROVE  Leaves(k)
<1> DEFINE ref == mods[k].mem
           l == Len(heap)
           offset == Offset(Entry.offset)
           data == Entry.data
<1>1. l \in Nat /\ ref \in Memories /\ heap \in Seq(Seq(Int))
  BY TableOfModule DEF Sound, PutsMemory
<1>2. ref \in 0 .. l
  BY <1>1 DEF Sound, Apart
<1>3. heap' = put.heap /\ offset \in Nat /\ data \in Seq(Int) /\ phase = "memory"
  BY DEF PutsMemory
<1>4. CASE ref = Nil \/ heap'[ref] = heap[ref]
  BY <1>4, HeapLeaves
<1>5. CASE ~ (ref = Nil \/ heap'[ref] = heap[ref])
  <2>1. ref \in 1 .. l
    BY <1>1, <1>2, <1>5 DEF Nil
  <2>2. ~InNewArray(heap, m.mem, offset, data, put)
    BY <1>3, <1>5, <2>1 DEF InNewArray
  <2>3. InPlace(heap, m.mem, offset, data, put)
    BY <2>2 DEF PutsMemory
  <2>4. ref = m.mem
    BY <1>3, <1>5, <2>1, <2>3 DEF InPlace
  <2>5. heap'[ref] = Over(heap[ref], offset, data)
    BY <1>3, <1>5, <2>3, <2>4 DEF InPlace
  <2>6. ArrayOf(heap, ref) = heap[ref] /\ ArrayOf(heap', ref) = heap'[ref]
    BY <1>5 DEF ArrayOf
  <2>7. PICK old : old = heap[ref]
    OBVIOUS
  <2>8. old \in Seq(Int)
    BY <1>1, <2>1, <2>7
  <2>9. PICK new : new = Over(old, offset, data)
    OBVIOUS
  <2>10. /\ Len(new) = Len(old) /\ DOMAIN old = 1 .. Len(old) /\ Len(old) \in Nat
         /\ \A i \in 1 .. Len(old) :
              new[i] = IF i > offset /\ i <= offset + Len(data) THEN data[i - offset] ELSE old[i]
    <3>1. PICK o \in Nat : o = offset
      BY <1>3
    <3>2. PICK d \in Seq(Int) : d = data
      BY <1>3
    <3>3. PICK a \in Seq(Int) : a = old
      BY <2>8
    <3>4. /\ Len(Over(a, o, d)) = Len(a)
          /\ \A i \in 1 .. Len(a) :
               Over(a, o, d)[i] = IF i > o /\ i <= o + Len(d) THEN d[i - o] ELSE a[i]
      BY OverIs
    <3>5. DOMAIN a = 1 .. Len(a) /\ Len(a) \in Nat
      OBVIOUS
    <3>6. new = Over(a, o, d)
      BY <2>9, <3>1, <3>2, <3>3
    <3> HIDE DEF offset, data
    <3> QED
      BY <3>1, <3>2, <3>3, <3>4, <3>5, <3>6
  <2>11. Related(k)
    <3>1. Kin(k) \cap Lineage(m.decl) # {}
      BY <1>3, <1>5, <2>4 DEF Descent, Reading
    <3> QED
      BY <3>1 DEF Kin, Related
  <2>12. \A i \in DOMAIN old : new[i] # old[i] => i \in Extent(Entry)
    <3> SUFFICES ASSUME NEW i \in DOMAIN old, new[i] # old[i] PROVE i \in Extent(Entry)
      OBVIOUS
    <3>1. i \in 1 .. Len(old) /\ i > offset /\ i <= offset + Len(data) /\ i \in Int
      BY <2>10
    <3>2. Len(data) \in Nat
      BY <1>3
    <3> HIDE DEF offset, data
    <3>3. i \in offset + 1 .. offset + Len(data)
      BY <1>3, <3>1, <3>2
    <3> QED
      BY <3>3 DEF Extent, EndOf, offset, data
  <2>13. ArrayOf(heap', mods[k].mem) = new /\ ArrayOf(heap, mods[k].mem) = old
    BY <2>5, <2>6, <2>7, <2>9
  <2> QED
    BY <1>3, <2>10, <2>11, <2>12, <2>13 DEF Leaves, Changed
<1> QED
  BY <1>4, <1>5

LEMMA StepLeaves ==
  ASSUME Sound, Descent, [Next]_vars, NEW k \in DOMAIN mods
  PROVE  Leaves(k)
<1>1. CASE heap' = heap
  BY <1>1, HeapLeaves
<1>2. CASE heap' # heap
  <2>1. ~ (Refuse \/ Panic) /\ Next
    BY <1>2 DEF Refuse, Panic, vars
  <2>2. PopulateTable \/ PopulateMemory
    BY <1>2, <2>1 DEF Next, Begin, ImportUnknown, ImportFunction, ImportGlobal, ImportTable,
       ImportMemory, Imported, PopulateGlobals, PopulateFunctions, TablesPopulated, Finish
  <2>3. CASE PopulateTable
    BY <2>1, <2>3, TableStep, TableLeaves DEF Sound
  <2>4. CASE PopulateMemory
    BY <2>1, <2>4, MemoryStep, MemoryLeaves DEF Sound
  <2> QED
    BY <2>2, <2>3, <2>4
<1> QED
  BY <1>1, <1>2

\* MemoriesAreKept: reading a module, to its end or until it is refused, changes a
\* byte of the memory of a module read before only where one of its data segments
\* is, only if both got their memory from the same module, and never its length
\* (wasm/index.go:138-172, imports.go:215-220).
THEOREM MemoriesAreKept == Spec => KeepsOthers
<1>1. Init => Sound /\ Descent
  BY SoundInit, DescentInit
<1>2. Sound /\ Descent /\ [Next]_vars => (Sound /\ Descent)'
  BY SoundStep, DescentStep
<1>3. Sound /\ Descent /\ [Next]_vars => \A k \in DOMAIN mods : Leaves(k)
  BY StepLeaves
<1>4. (\A k \in DOMAIN mods : Leaves(k)) =>
        \A k \in DOMAIN mods :
          /\ Len(ArrayOf(heap', mods[k].mem)) = Len(ArrayOf(heap, mods[k].mem))
          /\ \A i \in DOMAIN ArrayOf(heap, mods[k].mem) :
               Changed(k, i) => /\ phase = "memory" /\ i \in Extent(Entry)
                                /\ Related(k)
  BY DEF Leaves
<1> QED
  BY <1>1, <1>2, <1>3, <1>4, PTL DEF Spec, KeepsOthers

-----------------------------------------------------------------------------
\* The segments of a module, as far as they have been put into its memory: arr is
\* the memory, before what it was at first, off and dat the offsets and the contents.
To(off, dat, l) == off[l] + Len(dat[l])
Covers(off, dat, l, i) == off[l] < i /\ i <= To(off, dat, l)
ReachesTo(before, off, dat, k, n) == n <= Len(before) \/ \E l \in 1 .. (k - 1) : n <= To(off, dat, l)
LandsOn(before, off, dat, k, i) ==
  /\ Covers(off, dat, k, i)
  /\ ReachesTo(before, off, dat, k, i) => ReachesTo(before, off, dat, k, To(off, dat, k))

Long(arr, before, off, dat, j) ==
  \A n \in Nat : n <= Len(arr) <=> ReachesTo(before, off, dat, j + 1, n)
Holds(arr, before, off, dat, j) ==
  \A k \in 1 .. j : \A i \in 1 .. Len(arr) :
    LandsOn(before, off, dat, k, i) /\ (\A l \in k + 1 .. j : ~LandsOn(before, off, dat, l, i))
      => arr[i] = dat[k][i - off[k]]
Left(arr, before, off, dat, j) ==
  \A i \in 1 .. Len(arr) :
    (\A k \in 1 .. j : ~LandsOn(before, off, dat, k, i))
      => arr[i] = IF i <= Len(before) THEN before[i] ELSE 0

Filled(arr, before, off, dat, j) ==
  /\ Long(arr, before, off, dat, j) /\ Holds(arr, before, off, dat, j)
  /\ Left(arr, before, off, dat, j)

\* What the memory has been long enough for, segment by segment.
LEMMA ReachesMore ==
  ASSUME NEW before, NEW off, NEW dat, NEW j \in Nat, NEW n \in Nat
  PROVE  ReachesTo(before, off, dat, j + 2, n)
           <=> ReachesTo(before, off, dat, j + 1, n) \/ n <= To(off, dat, j + 1)
<1>1. j + 2 - 1 = j + 1 /\ j + 1 - 1 = j /\ \A l \in 1 .. j + 1 : l \in 1 .. j \/ l = j + 1
  OBVIOUS
<1>2. j + 1 \in 1 .. j + 1 /\ \A l \in 1 .. j : l \in 1 .. j + 1
  OBVIOUS
<1> QED
  BY <1>1, <1>2 DEF ReachesTo

\* Where a segment lands, told by how long the memory is.
LEMMA LandsAs ==
  ASSUME NEW arr \in Seq(Int), NEW before, NEW off, NEW dat, NEW j \in Nat,
         Long(arr, before, off, dat, j), To(off, dat, j + 1) \in Nat, NEW i \in Nat
  PROVE  LandsOn(before, off, dat, j + 1, i)
           <=> Covers(off, dat, j + 1, i) /\ (i <= Len(arr) => To(off, dat, j + 1) <= Len(arr))
<1>1. i <= Len(arr) <=> ReachesTo(before, off, dat, j + 1, i)
  BY DEF Long
<1>2. To(off, dat, j + 1) <= Len(arr) <=> ReachesTo(before, off, dat, j + 1, To(off, dat, j + 1))
  BY DEF Long
<1> QED
  BY <1>1, <1>2 DEF LandsOn

\* The memory is as long as what it was at first, and as every segment put there.
LEMMA LongEnough ==
  ASSUME NEW arr \in Seq(Int), NEW before \in Seq(Int), NEW off, NEW dat, NEW j \in Nat,
         Long(arr, before, off, dat, j)
  PROVE  /\ Len(before) <= Len(arr)
         /\ \A l \in 1 .. j : To(off, dat, l) \in Nat => To(off, dat, l) <= Len(arr)
<1>1. Len(before) \in Nat /\ j + 1 - 1 = j
  OBVIOUS
<1>2. ReachesTo(before, off, dat, j + 1, Len(before))
  BY <1>1 DEF ReachesTo
<1>3. ASSUME NEW l \in 1 .. j, To(off, dat, l) \in Nat PROVE To(off, dat, l) <= Len(arr)
  <2>1. ReachesTo(before, off, dat, j + 1, To(off, dat, l))
    BY <1>1, <1>3 DEF ReachesTo
  <2> QED
    BY <1>3, <2>1 DEF Long
<1> QED
  BY <1>1, <1>2, <1>3 DEF Long

\* One more segment, which does not fit.
LEMMA FilledGrown ==
  ASSUME NEW arr \in Seq(Int), NEW new \in Seq(Int), NEW before \in Seq(Int), NEW off, NEW dat,
         NEW j \in Nat,
         \A l \in 1 .. j + 1 : off[l] \in Nat /\ Len(dat[l]) \in Nat,
         Filled(arr, before, off, dat, j), To(off, dat, j + 1) > Len(arr),
         Len(new) = To(off, dat, j + 1),
         \A i \in 1 .. Len(new) :
           new[i] = IF i <= Len(arr) THEN arr[i]
                    ELSE IF i > off[j + 1] THEN dat[j + 1][i - off[j + 1]] ELSE 0
  PROVE  Filled(new, before, off, dat, j + 1)
<1> DEFINE Lands1(k, i) == LandsOn(before, off, dat, k, i)
<1>0. PICK a \in Nat : a = Len(arr)
  OBVIOUS
<1>1. PICK e \in Nat : e = To(off, dat, j + 1)
  <2>1. To(off, dat, j + 1) = Len(new) /\ Len(new) \in Nat
    OBVIOUS
  <2> QED
    BY <2>1
<1>2. Long(arr, before, off, dat, j) /\ Holds(arr, before, off, dat, j) /\ Left(arr, before, off, dat, j)
  BY DEF Filled
<1>3. \A l \in 1 .. j : To(off, dat, l) \in Nat /\ To(off, dat, l) <= a
  <2>1. \A l \in 1 .. j : To(off, dat, l) \in Nat
    BY DEF To
  <2> QED
    BY <1>0, <1>2, <2>1, LongEnough
<1>4. Len(before) \in Nat /\ Len(before) <= a
  BY <1>0, <1>2, LongEnough
<1>5. \A l \in 1 .. j + 1 : l \in 1 .. j \/ l = j + 1
  OBVIOUS
<1>6. \A i \in Nat : Lands1(j + 1, i) <=> Covers(off, dat, j + 1, i) /\ i > a
  <2> TAKE i \in Nat
  <2>1. Lands1(j + 1, i) <=> Covers(off, dat, j + 1, i) /\ (i <= a => e <= a)
    BY <1>0, <1>1, <1>2, LandsAs
  <2> QED
    BY <1>0, <1>1, <2>1
<1>7. \A k \in 1 .. j : \A i \in Nat : Lands1(k, i) => i <= a
  <2> TAKE k \in 1 .. j, i \in Nat
  <2> HAVE Lands1(k, i)
  <2>1. i <= To(off, dat, k)
    BY DEF LandsOn, Covers
  <2> QED
    BY <1>0, <1>3, <2>1
<1> HIDE DEF Lands1
<1>8. Long(new, before, off, dat, j + 1)
  <2> SUFFICES ASSUME NEW n \in Nat
               PROVE  n <= e <=> ReachesTo(before, off, dat, j + 2, n)
    <3>1. j + 1 + 1 = j + 2
      OBVIOUS
    <3> QED
      BY <1>1, <3>1 DEF Long
  <2>1. ReachesTo(before, off, dat, j + 2, n)
          <=> ReachesTo(before, off, dat, j + 1, n) \/ n <= e
    BY <1>1, ReachesMore
  <2>2. ReachesTo(before, off, dat, j + 1, n) <=> n <= a
    BY <1>0, <1>2 DEF Long
  <2> QED
    BY <1>0, <1>1, <2>1, <2>2
<1>9. ASSUME NEW k \in 1 .. j + 1, NEW i \in 1 .. Len(new), Lands1(k, i),
             \A l \in k + 1 .. j + 1 : ~Lands1(l, i)
      PROVE  new[i] = dat[k][i - off[k]]
  <2>1. CASE k = j + 1
    <3>1. i > a /\ Covers(off, dat, j + 1, i)
      BY <1>6, <1>9, <2>1
    <3>2. i > off[j + 1] /\ ~ (i <= a)
      BY <1>0, <3>1 DEF Covers
    <3> QED
      BY <1>0, <2>1, <3>2
  <2>2. CASE k \in 1 .. j
    <3>1. i <= a /\ i \in 1 .. a
      BY <1>0, <1>7, <1>9, <2>2
    <3>2. \A l \in k + 1 .. j : l \in k + 1 .. j + 1
      BY <2>2
    <3>3. arr[i] = dat[k][i - off[k]]
      BY <1>0, <1>2, <1>9, <2>2, <3>1, <3>2 DEF Holds, Lands1
    <3> QED
      BY <1>0, <3>1, <3>3
  <2> QED
    BY <1>5, <2>1, <2>2
<1>10. ASSUME NEW i \in 1 .. Len(new), \A k \in 1 .. j + 1 : ~Lands1(k, i)
       PROVE  new[i] = IF i <= Len(before) THEN before[i] ELSE 0
  <2>1. CASE i <= a
    <3>1. i \in 1 .. Len(arr) /\ \A k \in 1 .. j : k \in 1 .. j + 1
      BY <1>0, <2>1
    <3>2. arr[i] = IF i <= Len(before) THEN before[i] ELSE 0
      BY <1>2, <1>10, <3>1 DEF Left, Lands1
    <3> QED
      BY <1>0, <2>1, <3>2
  <2>2. CASE ~ (i <= a)
    <3>1. j + 1 \in 1 .. j + 1 /\ i \in Nat /\ i > a
      BY <1>0, <2>2
    <3>2. ~Covers(off, dat, j + 1, i)
      BY <1>6, <1>10, <3>1
    <3>3. off[j + 1] \in Nat /\ i <= e
      BY <1>1, <3>1
    <3>4. ~ (i > off[j + 1]) /\ ~ (i <= Len(before))
      BY <1>0, <1>1, <1>4, <3>1, <3>2, <3>3 DEF Covers
    <3> QED
      BY <1>0, <2>2, <3>4
  <2> QED
    BY <2>1, <2>2
<1>11. Holds(new, before, off, dat, j + 1)
  BY <1>9 DEF Holds, Lands1
<1>12. Left(new, before, off, dat, j + 1)
  BY <1>10 DEF Left, Lands1
<1> QED
  BY <1>8, <1>11, <1>12 DEF Filled

\* One more segment, which fits.
LEMMA FilledOver ==
  ASSUME NEW arr \in Seq(Int), NEW new \in Seq(Int), NEW before \in Seq(Int), NEW off, NEW dat,
         NEW j \in Nat,
         \A l \in 1 .. j + 1 : off[l] \in Nat /\ Len(dat[l]) \in Nat,
         Filled(arr, before, off, dat, j), To(off, dat, j + 1) <= Len(arr), Len(new) = Len(arr),
         \A i \in 1 .. Len(arr) :
           new[i] = IF Covers(off, dat, j + 1, i) THEN dat[j + 1][i - off[j + 1]] ELSE arr[i]
  PROVE  Filled(new, before, off, dat, j + 1)
<1> DEFINE Lands1(k, i) == LandsOn(before, off, dat, k, i)
<1>0. PICK a \in Nat : a = Len(arr)
  OBVIOUS
<1>1. PICK e \in Nat : e = To(off, dat, j + 1)
  <2>1. To(off, dat, j + 1) \in Nat
    BY DEF To
  <2> QED
    BY <2>1
<1>2. Long(arr, before, off, dat, j) /\ Holds(arr, before, off, dat, j) /\ Left(arr, before, off, dat, j)
  BY DEF Filled
<1>3. /\ j + 1 \in 1 .. j + 1 /\ \A l \in 1 .. j : l \in 1 .. j + 1
      /\ \A l \in 1 .. j + 1 : l \in 1 .. j \/ l = j + 1
  OBVIOUS
<1>4. \A i \in Nat : Lands1(j + 1, i) <=> Covers(off, dat, j + 1, i)
  <2> TAKE i \in Nat
  <2>1. Lands1(j + 1, i) <=> Covers(off, dat, j + 1, i) /\ (i <= a => e <= a)
    BY <1>0, <1>1, <1>2, LandsAs
  <2> QED
    BY <1>0, <1>1, <2>1
<1> HIDE DEF Lands1
<1>5. Long(new, before, off, dat, j + 1)
  <2> SUFFICES ASSUME NEW n \in Nat
               PROVE  n <= a <=> ReachesTo(before, off, dat, j + 2, n)
    <3>1. j + 1 + 1 = j + 2
      OBVIOUS
    <3> QED
      BY <1>0, <3>1 DEF Long
  <2>1. ReachesTo(before, off, dat, j + 2, n)
          <=> ReachesTo(before, off, dat, j + 1, n) \/ n <= e
    BY <1>1, ReachesMore
  <2>2. ReachesTo(before, off, dat, j + 1, n) <=> n <= a
    BY <1>0, <1>2 DEF Long
  <2> QED
    BY <1>0, <1>1, <2>1, <2>2
<1>6. ASSUME NEW k \in 1 .. j + 1, NEW i \in 1 .. Len(new), Lands1(k, i),
             \A l \in k + 1 .. j + 1 : ~Lands1(l, i)
      PROVE  new[i] = dat[k][i - off[k]]
  <2>1. i \in 1 .. Len(arr) /\ i \in Nat
    BY <1>0
  <2>2. CASE k = j + 1
    <3>1. Covers(off, dat, j + 1, i)
      BY <1>4, <1>6, <2>1, <2>2
    <3> QED
      BY <2>1, <2>2, <3>1
  <2>3. CASE k \in 1 .. j
    <3>1. j + 1 \in k + 1 .. j + 1 /\ \A l \in k + 1 .. j : l \in k + 1 .. j + 1
      BY <2>3
    <3>2. arr[i] = dat[k][i - off[k]]
      BY <1>2, <1>6, <2>1, <2>3, <3>1 DEF Holds, Lands1
    <3>3. ~Covers(off, dat, j + 1, i)
      BY <1>4, <1>6, <2>1, <3>1
    <3> QED
      BY <2>1, <3>2, <3>3
  <2> QED
    BY <1>3, <2>2, <2>3
<1>7. ASSUME NEW i \in 1 .. Len(new), \A k \in 1 .. j + 1 : ~Lands1(k, i)
      PROVE  new[i] = IF i <= Len(before) THEN before[i] ELSE 0
  <2>1. i \in 1 .. Len(arr) /\ i \in Nat
    BY <1>0
  <2>2. ~Covers(off, dat, j + 1, i)
    BY <1>3, <1>4, <1>7, <2>1
  <2>3. \A k \in 1 .. j : ~LandsOn(before, off, dat, k, i)
    BY <1>3, <1>7 DEF Lands1
  <2>4. arr[i] = IF i <= Len(before) THEN before[i] ELSE 0
    BY <1>2, <2>1, <2>3 DEF Left
  <2> QED
    BY <2>1, <2>2, <2>4
<1>8. Holds(new, before, off, dat, j + 1)
  BY <1>6 DEF Holds, Lands1
<1>9. Left(new, before, off, dat, j + 1)
  BY <1>7 DEF Left, Lands1
<1> QED
  BY <1>5, <1>8, <1>9 DEF Filled

Offsets == [l \in DOMAIN m.decl.data |-> Offset(m.decl.data[l].offset)]
Contents == [l \in DOMAIN m.decl.data |-> m.decl.data[l].data]
Done == Len(m.decl.data) - Len(todo)

\* While segments are put into the memory it is what they make of what was found.
Loads ==
  phase = "memory" =>
    /\ \A l \in 1 .. Done : Offsets[l] \in Nat
    /\ Filled(ArrayOf(heap, m.mem), m.found, Offsets, Contents, Done)

LEMMA OffsetsKept ==
  ASSUME m'.globals = m.globals, m'.decl = m.decl
  PROVE  Offsets' = Offsets /\ Contents' = Contents
<1>1. \A expr : Offset(expr)' = Offset(expr)
  BY DEF Offset
<1>2. Contents' = Contents
  BY DEF Contents
<1>3. \A l : Offset(m.decl.data[l].offset)' = Offset(m.decl.data[l].offset)
  BY <1>1
<1>4. Offsets' = Offsets
  BY <1>3 DEF Offsets
<1> QED
  BY <1>2, <1>4

LEMMA LoadsInit == Init => Loads
BY DEF Init, Loads

LEMMA TablesPopulatedLoads ==
  ASSUME Sound, TablesPopulated
  PROVE  Loads'
<1>1. /\ phase = "tables" /\ phase' = "memory" /\ todo' = m.decl.data /\ heap' = heap
  BY DEF TablesPopulated
<1>2. /\ m' \in Module /\ m'.decl = m.decl /\ m'.mem = m.mem /\ m'.found = ArrayOf(heap, m.mem)
  BY TablesPopulatedTyped DEF Sound
<1>3. Len(m.decl.data) \in Nat
  BY <1>2, DeclsAssumption DEF Module
<1>4. Done' = 0
  BY <1>1, <1>2, <1>3 DEF Done
<1>5. PICK arr \in Seq(Int) : arr = m'.found
  BY <1>2 DEF Module
<1>6. ArrayOf(heap', m'.mem) = arr
  BY <1>1, <1>2, <1>5
<1>7. \A off, dat : Filled(arr, arr, off, dat, 0)
  <2> TAKE off, dat
  <2>1. 0 + 1 - 1 = 0 /\ (\A l \in 1 .. 0 : FALSE) /\ \A i \in 1 .. Len(arr) : i <= Len(arr)
    OBVIOUS
  <2>2. Long(arr, arr, off, dat, 0)
    BY <2>1 DEF Long, ReachesTo
  <2>3. Holds(arr, arr, off, dat, 0) /\ Left(arr, arr, off, dat, 0)
    BY <2>1 DEF Holds, Left
  <2> QED
    BY <2>2, <2>3 DEF Filled
<1>8. Filled(ArrayOf(heap', m'.mem), m'.found, Offsets', Contents', Done')
  BY <1>4, <1>5, <1>6, <1>7
<1> QED
  BY <1>4, <1>8 DEF Loads

LEMMA PopulateMemoryLoads ==
  ASSUME Sound, Loads, NEW put, PutsMemory(put)
  PROVE  Loads'
<1>1. PICK arr : arr = ArrayOf(heap, m.mem)
  OBVIOUS
<1>2. PICK new : new = ArrayOf(heap', put.ref)
  OBVIOUS
<1>3. PICK off : off = Offsets
  OBVIOUS
<1>4. PICK dat : dat = Contents
  OBVIOUS
<1>5. PICK j : j = Done
  OBVIOUS
<1>6. /\ m' = [m EXCEPT !.mem = put.ref] /\ phase = "memory" /\ phase' = "memory" /\ m \in Module
      /\ heap' = put.heap /\ heap \in Seq(Seq(Int)) /\ heap' \in Seq(Seq(Int))
      /\ todo' = Tail(todo) /\ arr \in Seq(Int) /\ m.mem \in 0 .. Len(heap)
      /\ Entry.data \in Seq(Int) /\ Offset(Entry.offset) \in Nat
  BY <1>1 DEF PutsMemory
<1>7. /\ m'.mem = put.ref /\ m'.decl = m.decl /\ m'.globals = m.globals /\ m'.found = m.found
      /\ m.found \in Seq(Int)
  BY <1>6 DEF Module
<1>8. Offsets' = off /\ Contents' = dat
  BY <1>3, <1>4, <1>7, OffsetsKept
<1>9. PICK before \in Seq(Int) : before = m.found
  BY <1>7
<1>10. SUFFICES /\ \A l \in 1 .. Done' : off[l] \in Nat
                /\ Filled(new, before, off, dat, Done')
  BY <1>2, <1>6, <1>7, <1>8, <1>9 DEF Loads
<1>11. (\A l \in 1 .. j : off[l] \in Nat) /\ Filled(arr, before, off, dat, j)
  BY <1>1, <1>3, <1>4, <1>5, <1>6, <1>9 DEF Loads
<1>12. /\ Len(todo') = Len(todo) - 1 /\ Entry = m.decl.data[Len(m.decl.data) - Len(todo) + 1]
       /\ Len(m.decl.data) - Len(todo) + 1 \in 1 .. Len(m.decl.data)
       /\ m.decl.data \in Seq(Segment) /\ Len(todo) \in Nat /\ Len(todo) <= Len(m.decl.data)
  <2>1. m.decl.data \in Seq(Segment)
    BY <1>6, DeclsAssumption DEF Module
  <2>2. todo \in Seq(Segment) /\ Rest(m.decl.data) /\ todo # <<>>
    BY <1>6 DEF Sound, Typed, PutsMemory
  <2> QED
    BY <1>6, <2>1, <2>2, RestTail DEF Entry, Rest
<1>13. /\ j \in Nat /\ Done' = j + 1 /\ j + 1 \in 1 .. Len(m.decl.data)
       /\ Entry = m.decl.data[j + 1]
  BY <1>5, <1>7, <1>12 DEF Done
<1>14. off[j + 1] = Offset(Entry.offset) /\ dat[j + 1] = Entry.data
  BY <1>3, <1>4, <1>12, <1>13 DEF Offsets, Contents
<1>15. \A l \in 1 .. j + 1 : off[l] \in Nat /\ Len(dat[l]) \in Nat
  <2>1. \A l \in 1 .. j + 1 : l \in 1 .. j \/ l = j + 1
    BY <1>13
  <2>2. \A l \in 1 .. j + 1 : off[l] \in Nat
    BY <1>6, <1>11, <1>14, <2>1
  <2>3. \A l \in DOMAIN m.decl.data : m.decl.data[l].data \in Seq(Int)
    <3>1. \A l \in DOMAIN m.decl.data : m.decl.data[l] \in Segment
      BY <1>12
    <3> QED
      BY <3>1 DEF Segment
  <2>4. \A l \in 1 .. j + 1 : l \in DOMAIN m.decl.data
    BY <1>12, <1>13
  <2>5. \A l \in 1 .. j + 1 : dat[l] \in Seq(Int)
    BY <1>4, <2>3, <2>4 DEF Contents
  <2> QED
    BY <2>2, <2>5
<1>16. CASE InNewArray(heap, m.mem, Offset(Entry.offset), Entry.data, put)
  <2>1. new = Grown(arr, off[j + 1], dat[j + 1]) /\ To(off, dat, j + 1) > Len(arr)
    <3>1. put.ref = Len(heap) + 1 /\ Len(heap) + 1 # Nil
      BY <1>6, <1>16 DEF InNewArray, Nil
    <3>2. new = heap'[put.ref]
      BY <1>2, <3>1 DEF ArrayOf
    <3> QED
      BY <1>1, <1>6, <1>14, <1>16, <3>1, <3>2 DEF InNewArray, To
  <2>2. off[j + 1] \in Nat /\ dat[j + 1] \in Seq(Int)
    BY <1>6, <1>14
  <2>3. /\ new \in Seq(Int) /\ Len(new) = To(off, dat, j + 1)
        /\ \A i \in 1 .. Len(new) :
             new[i] = IF i <= Len(arr) THEN arr[i]
                      ELSE IF i > off[j + 1] THEN dat[j + 1][i - off[j + 1]] ELSE 0
    <3>1. PICK o \in Nat : o = off[j + 1]
      BY <2>2
    <3>2. PICK d \in Seq(Int) : d = dat[j + 1]
      BY <2>2
    <3>3. new = Grown(arr, o, d) /\ To(off, dat, j + 1) = o + Len(d)
      BY <2>1, <3>1, <3>2 DEF To
    <3>4. /\ new \in Seq(Int) /\ Len(new) = o + Len(d)
          /\ \A i \in 1 .. o + Len(d) :
               new[i] = IF i <= Len(arr) THEN arr[i] ELSE IF i > o THEN d[i - o] ELSE 0
      BY <1>6, <3>3, GrownIs
    <3> QED
      BY <3>1, <3>2, <3>3, <3>4
  <2> QED
    BY <1>6, <1>11, <1>13, <1>15, <2>1, <2>3, FilledGrown
<1>17. CASE InPlace(heap, m.mem, Offset(Entry.offset), Entry.data, put)
  <2>1. To(off, dat, j + 1) <= Len(arr) /\ put.ref = m.mem
    BY <1>1, <1>14, <1>17 DEF InPlace, To
  <2>2. off[j + 1] \in Nat /\ dat[j + 1] \in Seq(Int) /\ Len(dat[j + 1]) \in Nat
    BY <1>6, <1>14
  <2>3. /\ new \in Seq(Int) /\ Len(new) = Len(arr)
        /\ \A i \in 1 .. Len(arr) :
             new[i] = IF i > off[j + 1] /\ i <= off[j + 1] + Len(dat[j + 1])
                      THEN dat[j + 1][i - off[j + 1]] ELSE arr[i]
    <3>1. CASE m.mem = Nil
      <4>1. arr = <<>> /\ new = <<>>
        BY <1>1, <1>2, <2>1, <3>1 DEF ArrayOf
      <4> QED
        BY <4>1
    <3>2. CASE m.mem # Nil
      <4>1. arr = heap[m.mem] /\ new = heap'[m.mem]
        BY <1>1, <1>2, <2>1, <3>2 DEF ArrayOf
      <4>2. new = Over(arr, off[j + 1], dat[j + 1])
        BY <1>6, <1>14, <1>17, <3>2, <4>1 DEF InPlace
      <4>3. PICK o \in Nat : o = off[j + 1]
        BY <2>2
      <4>4. PICK d \in Seq(Int) : d = dat[j + 1]
        BY <2>2
      <4>5. PICK old \in Seq(Int) : old = arr
        BY <1>6
      <4>6. /\ Over(old, o, d) \in Seq(Int) /\ Len(Over(old, o, d)) = Len(old)
            /\ \A i \in 1 .. Len(old) :
                 Over(old, o, d)[i] = IF i > o /\ i <= o + Len(d) THEN d[i - o] ELSE old[i]
        BY OverIs
      <4>7. new = Over(old, o, d)
        BY <4>2, <4>3, <4>4, <4>5
      <4> QED
        BY <4>3, <4>4, <4>5, <4>6, <4>7
    <3> QED
      BY <3>1, <3>2
  <2>4. \A i \in 1 .. Len(arr) :
          new[i] = IF Covers(off, dat, j + 1, i) THEN dat[j + 1][i - off[j + 1]] ELSE arr[i]
    <3> TAKE i \in 1 .. Len(arr)
    <3>1. i \in Int /\ (Covers(off, dat, j + 1, i) <=> i > off[j + 1] /\ i <= off[j + 1] + Len(dat[j + 1]))
      BY <2>2 DEF Covers, To
    <3> QED
      BY <2>3, <3>1
  <2> QED
    BY <1>6, <1>11, <1>13, <1>15, <2>1, <2>3, <2>4, FilledOver
<1> QED
  BY <1>16, <1>17 DEF PutsMemory

LEMMA LoadsStep == Sound /\ Loads /\ [Next]_vars => Loads'
<1> SUFFICES ASSUME Sound, Loads, [Next]_vars PROVE Loads'
  OBVIOUS
<1>1. CASE UNCHANGED vars
  <2>1. UNCHANGED <<heap, m, phase, todo>>
    BY <1>1 DEF vars
  <2>2. Offsets' = Offsets /\ Contents' = Contents /\ Done' = Done
    BY <2>1, OffsetsKept DEF Done
  <2> QED
    BY <2>1, <2>2 DEF Loads
<1>2. CASE Refuse \/ Panic
  BY <1>2 DEF Refuse, Panic, Loads
<1>3. CASE Next /\ ~ (Refuse \/ Panic)
  <2>1. CASE PopulateMemory
    BY <1>3, <2>1, MemoryStep, PopulateMemoryLoads DEF Sound
  <2>2. CASE Finish
    BY <2>2 DEF Finish, Loads
  <2>3. CASE TablesPopulated
    BY <2>3, TablesPopulatedLoads
  <2>4. CASE PopulateTable
    <3>1. PICK put : PutsTable(put)
      BY <1>3, <2>4, TableStep DEF Sound
    <3> QED
      BY <3>1 DEF PutsTable, Loads
  <2>5. CASE ~PopulateMemory /\ ~Finish /\ ~TablesPopulated /\ ~PopulateTable
    <3>1. phase' # "memory"
      BY <1>3, <2>5 DEF Next, Begin, ImportUnknown, ImportFunction, ImportGlobal, ImportTable,
         ImportMemory, Importing, Imported, PopulateGlobals, PopulateFunctions
    <3> QED
      BY <3>1 DEF Loads
  <2> QED
    BY <2>1, <2>2, <2>3, <2>4, <2>5
<1> QED
  BY <1>1, <1>2, <1>3

\* SegmentsArrive: when the last segment of a module has been put into its memory,
\* every byte there is that of the last segment that landed on it, or what was found,
\* also in an imported memory -- for all segments; the head of one that begins inside
\* the memory and ends beyond it has not landed (wasm/index.go:138-172).
THEOREM SegmentsArrive == Spec => []SegmentsLoaded
<1>1. Init => Sound /\ Loads
  BY SoundInit, LoadsInit
<1>2. Sound /\ Loads /\ [Next]_vars => (Sound /\ Loads)'
  BY SoundStep, LoadsStep
<1>3. Sound /\ Loads => SegmentsLoaded
  <2> SUFFICES ASSUME Sound, Loads, phase = "memory", todo = <<>> PROVE SegmentsLoaded
    BY DEF SegmentsLoaded
  <2>1. PICK off : off = Offsets
    OBVIOUS
  <2>2. PICK dat : dat = Contents
    OBVIOUS
  <2>3. PICK data : data = m.decl.data
    OBVIOUS
  <2>4. PICK n : n = Len(data)
    OBVIOUS
  <2>5. m \in Module /\ data \in Seq(Segment)
    BY <2>3, DeclsAssumption DEF Sound, Typed, Reading, Module
  <2>6. PICK before \in Seq(Int) : before = m.found
    BY <2>5 DEF Module
  <2>7. PICK arr \in Seq(Int) : arr = ArrayOf(heap, m.mem)
    <3>1. heap \in Seq(Seq(Int)) /\ m.mem \in 0 .. Len(heap)
      BY TableOfModule DEF Sound, Typed, Apart
    <3>2. ArrayOf(heap, m.mem) \in Seq(Int)
      <4>1. CASE m.mem = Nil
        BY <4>1 DEF ArrayOf
      <4>2. CASE m.mem # Nil
        <5>1. m.mem \in 1 .. Len(heap)
          BY <3>1, <4>2 DEF Nil
        <5> QED
          BY <3>1, <4>2, <5>1 DEF ArrayOf
      <4> QED
        BY <4>1, <4>2
    <3> QED
      BY <3>2
  <2>8. n \in Nat /\ DOMAIN data = 1 .. n /\ Done = n
    BY <2>3, <2>4, <2>5 DEF Done
  <2>9. /\ \A l \in 1 .. n : off[l] = Offset(data[l].offset)
        /\ \A l \in 1 .. n : dat[l] = data[l].data
    BY <2>1, <2>2, <2>3, <2>8 DEF Offsets, Contents
  <2>10. (\A l \in 1 .. n : off[l] \in Nat) /\ Filled(arr, before, off, dat, n)
    BY <2>1, <2>2, <2>6, <2>7, <2>8 DEF Loads
  <2>11. \A l \in 1 .. n : EndOf(data[l]) = To(off, dat, l)
    BY <2>9 DEF EndOf, To
  <2>12. \A l \in 1 .. n : data[l].data \in Seq(Int)
    <3>1. \A l \in 1 .. n : data[l] \in Segment
      BY <2>5, <2>8
    <3> QED
      BY <3>1 DEF Segment
  <2>13. \A l \in 1 .. n : To(off, dat, l) \in Nat
    <3>1. \A l \in 1 .. n : Len(dat[l]) \in Nat
      BY <2>9, <2>12
    <3> QED
      BY <2>10, <3>1 DEF To
  <2>14. \A k \in 1 .. n : \A q \in Int :
           Reaches(data, k, q) <=> ReachesTo(before, off, dat, k, q)
    <3> TAKE k \in 1 .. n, q \in Int
    <3>1. \A l \in 1 .. k - 1 : l \in 1 .. n
      BY <2>8
    <3>2. \A l \in 1 .. k - 1 : EndOf(data[l]) = To(off, dat, l)
      BY <2>11, <3>1
    <3> QED
      BY <2>6, <3>2 DEF Reaches, ReachesTo
  <2>15. \A k \in 1 .. n : \A i \in Int : Lands(data, k, i) <=> LandsOn(before, off, dat, k, i)
    <3> TAKE k \in 1 .. n, i \in Int
    <3>1. Extent(data[k]) = off[k] + 1 .. To(off, dat, k)
      BY <2>9, <2>11 DEF Extent
    <3>2. i \in Extent(data[k]) <=> Covers(off, dat, k, i)
      BY <2>10, <2>13, <3>1 DEF Covers
    <3>3. Reaches(data, k, i) <=> ReachesTo(before, off, dat, k, i)
      BY <2>14
    <3>4. Reaches(data, k, EndOf(data[k])) <=> ReachesTo(before, off, dat, k, To(off, dat, k))
      BY <2>11, <2>13, <2>14
    <3> QED
      BY <3>2, <3>3, <3>4 DEF Lands, LandsOn
  <2>16. /\ Long(arr, before, off, dat, n) /\ Holds(arr, before, off, dat, n)
         /\ Left(arr, before, off, dat, n)
    BY <2>10 DEF Filled
  <2>17. \A k \in 1 .. n : EndOf(data[k]) <= Len(arr)
    BY <2>8, <2>11, <2>13, <2>16, LongEnough
  <2>18. \A k \in 1 .. n : \A i \in 1 .. Len(arr) :
           Lands(data, k, i) /\ (\A l \in (k + 1) .. n : ~Lands(data, l, i))
             => arr[i] = data[k].data[i - Offset(data[k].offset)]
    <3> SUFFICES ASSUME NEW k \in 1 .. n, NEW i \in 1 .. Len(arr), Lands(data, k, i),
                        \A l \in (k + 1) .. n : ~Lands(data, l, i)
                 PROVE  arr[i] = dat[k][i - off[k]]
      BY <2>9
    <3>1. \A l \in (k + 1) .. n : l \in 1 .. n
      BY <2>8
    <3>2. \A l \in (k + 1) .. n : ~LandsOn(before, off, dat, l, i)
      BY <2>15, <3>1
    <3>3. LandsOn(before, off, dat, k, i)
      BY <2>15
    <3>4. Holds(arr, before, off, dat, n)
      BY <2>16
    <3> QED
      BY <3>2, <3>3, <3>4 DEF Holds
  <2>19. \A i \in 1 .. Len(arr) :
           (\A k \in 1 .. n : ~Lands(data, k, i))
             => arr[i] = IF i <= Len(before) THEN before[i] ELSE 0
    BY <2>15, <2>16 DEF Left
  <2>20. DOMAIN arr = 1 .. Len(arr)
    OBVIOUS
  <2> QED
    BY <2>3, <2>4, <2>6, <2>7, <2>8, <2>17, <2>18, <2>19, <2>20 DEF SegmentsLoaded
<1> QED
  BY <1>1, <1>2, <1>3, PTL DEF Spec

-----------------------------------------------------------------------------
\* The functions taken from the imports, and the meaning of a list of modules, are
\* computed entry by entry.
TakenTo(f, read, imports, len) ==
  f = [n \in 0 .. len |->
         IF n = 0 THEN <<>>
         ELSE IF imports[n].kind # "func" THEN f[n - 1]
         ELSE Append(f[n - 1],
                     At(read[imports[n].from].funcs,
                        read[imports[n].from].decl.exports[imports[n].field].index))]

LEMMA TakenExists ==
  ASSUME NEW read, NEW imports, NEW len \in Nat
  PROVE  \E f : TakenTo(f, read, imports, len)
<1> DEFINE S == {n \in Nat : ~ \E f : TakenTo(f, read, imports, n)}
           Next1(before, n) ==
             IF imports[n].kind # "func" THEN before
             ELSE Append(before,
                         At(read[imports[n].from].funcs,
                            read[imports[n].from].decl.exports[imports[n].field].index))
<1> HIDE DEF Next1
<1>1. SUFFICES ASSUME S # {} PROVE FALSE
  OBVIOUS
<1>2. PICK n \in S : \A k \in S : n <= k
  BY <1>1, LeastNat
<1>3. n # 0
  <2> DEFINE f == [i \in 0 .. 0 |-> <<>>]
  <2>1. TakenTo(f, read, imports, 0)
    <3>1. f = [i \in 0 .. 0 |-> IF i = 0 THEN <<>> ELSE Next1(f[i - 1], i)]
      OBVIOUS
    <3> HIDE DEF f
    <3> QED
      BY <3>1 DEF TakenTo, Next1
  <2> HIDE DEF f
  <2> QED
    BY <2>1
<1>4. n - 1 \in Nat /\ n - 1 \notin S
  BY <1>2, <1>3
<1>5. PICK f : TakenTo(f, read, imports, n - 1)
  BY <1>4
<1> DEFINE g == [i \in 0 .. n |-> IF i < n THEN f[i] ELSE Next1(f[n - 1], n)]
<1>6. \A i \in 0 .. n : g[i] = IF i = 0 THEN <<>> ELSE Next1(g[i - 1], i)
  <2> TAKE i \in 0 .. n
  <2>1. CASE i = n
    <3>1. g[i - 1] = f[n - 1] /\ i # 0
      BY <1>3, <1>4, <2>1
    <3> QED
      BY <2>1, <3>1
  <2>2. CASE i < n
    <3>1. i \in 0 .. n - 1 /\ (i # 0 => i - 1 \in 0 .. n /\ i - 1 < n)
      BY <2>2
    <3>2. g[i] = f[i] /\ (i # 0 => g[i - 1] = f[i - 1])
      BY <2>2, <3>1
    <3>3. f[i] = IF i = 0 THEN <<>> ELSE Next1(f[i - 1], i)
      BY <1>5, <3>1 DEF TakenTo, Next1
    <3> QED
      BY <3>2, <3>3
  <2> QED
    BY <2>1, <2>2
<1>7. TakenTo(g, read, imports, n)
  <2>1. g = [i \in 0 .. n |-> g[i]]
    OBVIOUS
  <2> HIDE DEF g
  <2> QED
    BY <1>6, <2>1 DEF TakenTo, Next1
<1> HIDE DEF g
<1> QED
  BY <1>7

LEMMA TakenIs ==
  ASSUME NEW read, NEW decl, Len(decl.imports) \in Nat
  PROVE  TakenTo(Taken(read, decl), read, decl.imports, Len(decl.imports))
<1> DEFINE f == CHOOSE f : TakenTo(f, read, decl.imports, Len(decl.imports))
<1>1. TakenTo(f, read, decl.imports, Len(decl.imports))
  BY TakenExists
<1>2. Taken(read, decl) = f
  BY DEF Taken, TakenTo
<1> QED
  BY <1>1, <1>2

MeaningTo(f, decls, len) ==
  f = [k \in 0 .. len |->
         IF k = 0 THEN <<>>
         ELSE Append(f[k - 1], [decl |-> decls[k], funcs |-> Space(f[k - 1], decls[k])])]

LEMMA MeaningExists ==
  ASSUME NEW decls, NEW len \in Nat
  PROVE  \E f : MeaningTo(f, decls, len)
<1> DEFINE S == {n \in Nat : ~ \E f : MeaningTo(f, decls, n)}
           Next1(before, n) ==
             Append(before, [decl |-> decls[n], funcs |-> Space(before, decls[n])])
<1>1. SUFFICES ASSUME S # {} PROVE FALSE
  OBVIOUS
<1>2. PICK n \in S : \A k \in S : n <= k
  BY <1>1, LeastNat
<1>3. n # 0
  <2> DEFINE f == [i \in 0 .. 0 |-> <<>>]
  <2>1. MeaningTo(f, decls, 0)
    BY DEF MeaningTo
  <2> HIDE DEF f
  <2> QED
    BY <2>1
<1>4. n - 1 \in Nat /\ n - 1 \notin S
  BY <1>2, <1>3
<1>5. PICK f : MeaningTo(f, decls, n - 1)
  BY <1>4
<1> DEFINE g == [i \in 0 .. n |-> IF i < n THEN f[i] ELSE Next1(f[n - 1], n)]
<1> HIDE DEF Next1
<1>6. \A i \in 0 .. n : g[i] = IF i = 0 THEN <<>> ELSE Next1(g[i - 1], i)
  <2> TAKE i \in 0 .. n
  <2>1. CASE i = n
    <3>1. g[i - 1] = f[n - 1] /\ i # 0
      BY <1>3, <1>4, <2>1
    <3> QED
      BY <2>1, <3>1
  <2>2. CASE i < n
    <3>1. i \in 0 .. n - 1 /\ (i # 0 => i - 1 \in 0 .. n /\ i - 1 < n)
      BY <2>2
    <3>2. g[i] = f[i] /\ (i # 0 => g[i - 1] = f[i - 1])
      BY <2>2, <3>1
    <3>3. f[i] = IF i = 0 THEN <<>> ELSE Next1(f[i - 1], i)
      BY <1>5, <3>1 DEF MeaningTo, Next1
    <3> QED
      BY <3>2, <3>3
  <2> QED
    BY <2>1, <2>2
<1>7. MeaningTo(g, decls, n)
  <2>1. g = [i \in 0 .. n |-> g[i]]
    OBVIOUS
  <2> HIDE DEF g
  <2> QED
    BY <1>6, <2>1 DEF MeaningTo, Next1
<1> HIDE DEF g
<1> QED
  BY <1>7

LEMMA MeaningIs ==
  ASSUME NEW decls, Len(decls) \in Nat
  PROVE  \E f : MeaningTo(f, decls, Len(decls)) /\ Meaning(decls) = f[Len(decls)]
<1> DEFINE f == CHOOSE f : MeaningTo(f, decls, Len(decls))
<1>1. MeaningTo(f, decls, Len(decls))
  BY MeaningExists
<1>2. Meaning(decls) = f[Len(decls)]
  BY DEF Meaning, MeaningTo
<1> HIDE DEF f
<1> QED
  BY <1>1, <1>2

\* The meaning of what was read before does not depend on what is read next.
LEMMA MeaningAppend ==
  ASSUME NEW S, NEW decls \in Seq(S), NEW d \in S
  PROVE  Meaning(Append(decls, d))
           = Append(Meaning(decls), [decl |-> d, funcs |-> Space(Meaning(decls), d)])
<1> DEFINE more == Append(decls, d)
<1>0. PICK n : n = Len(decls)
  OBVIOUS
<1>1. n \in Nat /\ Len(more) = n + 1 /\ more[n + 1] = d /\ \A k \in 1 .. n : more[k] = decls[k]
  BY <1>0
<1> HIDE DEF more
<1>2. PICK f : MeaningTo(f, decls, n) /\ Meaning(decls) = f[n]
  BY <1>0, <1>1, MeaningIs
<1>3. PICK g : MeaningTo(g, more, n + 1) /\ Meaning(more) = g[n + 1]
  BY <1>1, MeaningIs
<1>4. f[0] = g[0]
  BY <1>1, <1>2, <1>3 DEF MeaningTo
<1>5. ASSUME NEW k \in 1 .. n, f[k - 1] = g[k - 1]
      PROVE  f[k] = g[k]
  <2>1. k \in 0 .. n /\ k \in 0 .. n + 1 /\ k # 0
    BY <1>1
  <2>2. f[k] = Append(f[k - 1], [decl |-> decls[k], funcs |-> Space(f[k - 1], decls[k])])
    BY <1>2, <2>1 DEF MeaningTo
  <2>3. g[k] = Append(g[k - 1], [decl |-> more[k], funcs |-> Space(g[k - 1], more[k])])
    BY <1>3, <2>1 DEF MeaningTo
  <2> QED
    BY <1>1, <1>5, <2>2, <2>3
<1> DEFINE Bad == {k \in 0 .. n : f[k] # g[k]}
<1>6. Bad = {}
  <2> SUFFICES ASSUME Bad # {} PROVE FALSE
    OBVIOUS
  <2>1. Bad \in SUBSET Nat
    BY <1>1
  <2> HIDE DEF Bad
  <2>2. PICK k \in Bad : \A l \in Bad : k <= l
    BY <2>1, LeastNat
  <2> USE DEF Bad
  <2>3. k \in 1 .. n
    BY <1>1, <1>4, <2>2
  <2>4. k - 1 \in 0 .. n /\ k - 1 \notin Bad
    BY <1>1, <2>2, <2>3
  <2> QED
    BY <1>5, <2>2, <2>3, <2>4
<1>7. g[n] = Meaning(decls)
  BY <1>1, <1>2, <1>6
<1>8. n + 1 \in 0 .. n + 1 /\ n + 1 # 0 /\ n + 1 - 1 = n
  BY <1>1
<1>9. g[n + 1] = Append(g[n], [decl |-> more[n + 1], funcs |-> Space(g[n], more[n + 1])])
  <2>1. PICK k : k = n + 1
    OBVIOUS
  <2>2. k \in 0 .. n + 1 /\ k # 0 /\ k - 1 = n
    BY <1>1, <2>1
  <2>3. g[k] = Append(g[k - 1], [decl |-> more[k], funcs |-> Space(g[k - 1], more[k])])
    BY <1>3, <2>2 DEF MeaningTo
  <2> QED
    BY <2>1, <2>2, <2>3
<1> QED
  BY <1>1, <1>3, <1>7, <1>9 DEF more

\* The modules that have been read, as their functions see them.
Read == [k \in DOMAIN mods |-> [decl |-> mods[k].decl, funcs |-> mods[k].funcs]]
Declared == [k \in DOMAIN mods |-> mods[k].decl]

Resolved ==
  /\ Read = Meaning(Declared)
  /\ phase = "imports" =>
       m.funcs = Taken(Read, m.decl)[Len(m.decl.imports) - Len(todo)]
  /\ phase = "functions" => m.funcs = Taken(Read, m.decl)[Len(m.decl.imports)]
  /\ phase \in {"tables", "memory"} => m.funcs = Space(Read, m.decl)

LEMMA MeaningNone == Meaning(<<>>) = <<>>
<1>1. PICK f : MeaningTo(f, <<>>, Len(<<>>)) /\ Meaning(<<>>) = f[Len(<<>>)]
  BY MeaningIs
<1>2. Len(<<>>) = 0
  OBVIOUS
<1>3. f[0] = <<>>
  BY <1>1, <1>2 DEF MeaningTo
<1> QED
  BY <1>1, <1>2, <1>3

LEMMA ResolvedInit == Init => Resolved
<1> SUFFICES ASSUME Init PROVE Resolved
  OBVIOUS
<1>1. mods = <<>> /\ phase = "idle"
  BY DEF Init
<1>2. DOMAIN mods = {}
  BY <1>1
<1>3. Read = <<>> /\ Declared = <<>>
  BY <1>2 DEF Read, Declared
<1> QED
  BY <1>1, <1>3, MeaningNone DEF Resolved

LEMMA ReadKept ==
  ASSUME mods' = mods
  PROVE  Read' = Read /\ Declared' = Declared
BY DEF Read, Declared

LEMMA TakenStart ==
  ASSUME NEW f, NEW read, NEW imports, NEW len \in Nat, TakenTo(f, read, imports, len)
  PROVE  f[0] = <<>>
<1> DEFINE g(n) == IF n = 0 THEN <<>>
                   ELSE IF imports[n].kind # "func" THEN f[n - 1]
                   ELSE Append(f[n - 1],
                               At(read[imports[n].from].funcs,
                                  read[imports[n].from].decl.exports[imports[n].field].index))
<1>1. f = [n \in 0 .. len |-> g(n)]
  BY DEF TakenTo
<1>2. g(0) = <<>> /\ 0 \in 0 .. len
  OBVIOUS
<1> HIDE DEF g
<1> QED
  BY <1>1, <1>2

LEMMA GiveUpResolved ==
  ASSUME Resolved, Refuse \/ Panic
  PROVE  Resolved'
BY ReadKept DEF Resolved, Refuse, Panic

\* An import that is not a function.
LEMMA SkipResolved ==
  ASSUME Sound, Resolved, Importing, Exports, Imported, Exported.kind # "func",
         m'.funcs = m.funcs, m'.decl = m.decl
  PROVE  Resolved'
<1>1. PICK n : n = Len(m.decl.imports) - Len(todo)
  OBVIOUS
<1>2. PICK read : read = Read
  OBVIOUS
<1>3. m \in Module /\ phase = "imports" /\ phase' = "imports" /\ mods' = mods /\ todo' = Tail(todo)
  BY ExporterTyped DEF Sound, Imported
<1>4. /\ Len(todo') = Len(todo) - 1 /\ Entry = m.decl.imports[n + 1] /\ n \in Nat
      /\ n + 1 \in 1 .. Len(m.decl.imports) /\ Len(m.decl.imports) \in Nat /\ Len(todo) \in Nat
  <2>1. todo \in Seq(ImportEntry) /\ Rest(m.decl.imports) /\ todo # <<>>
    BY <1>3 DEF Sound, Typed, Importing
  <2>2. m.decl.imports \in Seq(ImportEntry)
    BY <1>3, DeclsAssumption DEF Module
  <2> QED
    BY <1>1, <1>3, <2>1, <2>2, RestTail DEF Entry, Rest
<1>5. PICK f : f = Taken(read, m.decl)
  OBVIOUS
<1>6. TakenTo(f, read, m.decl.imports, Len(m.decl.imports))
  BY <1>4, <1>5, TakenIs
<1>7. Entry.kind # "func"
  BY DEF Exports
<1>8. f[n + 1] = f[n]
  <2>1. PICK k : k = n + 1
    OBVIOUS
  <2>2. k \in 0 .. Len(m.decl.imports) /\ k # 0 /\ k - 1 = n
    BY <1>4, <2>1
  <2>3. m.decl.imports[k].kind # "func"
    BY <1>4, <1>7, <2>1
  <2>4. f[k] = f[k - 1]
    BY <1>6, <2>2, <2>3 DEF TakenTo
  <2> QED
    BY <2>1, <2>2, <2>4
<1>9. m.funcs = f[n]
  BY <1>1, <1>2, <1>3, <1>5 DEF Resolved
<1>10. Len(m.decl.imports)' - Len(todo)' = n + 1
  BY <1>1, <1>4
<1>11. Read' = read /\ Declared' = Declared
  BY <1>2, <1>3, ReadKept
<1>12. m'.funcs = Taken(Read', m'.decl)[n + 1]
  BY <1>5, <1>8, <1>9, <1>11
<1> QED
  BY <1>2, <1>3, <1>10, <1>11, <1>12 DEF Resolved

LEMMA ImportFunctionIs ==
  ASSUME Sound, ImportFunction, ~ (Refuse \/ Panic)
  PROVE  /\ m \in Module /\ phase = "imports" /\ phase' = "imports" /\ mods' = mods
         /\ m'.funcs = Append(m.funcs, At(Exporter.funcs, Exported.index)) /\ m'.decl = m.decl
         /\ m'.taken = Append(m.taken, Len(m.taken))
         /\ At(Exporter.funcs, Exported.index) \in Function
<1> DEFINE f == At(Exporter.funcs, Exported.index)
<1>1. /\ Importing /\ Exports /\ Imported /\ m' = AddFunction(f)
      /\ Exported.index \in Index(Exporter.funcs)
  BY DEF ImportFunction
<1>2. Exporter.funcs \in Seq(Function) /\ m \in Module /\ phase = "imports"
  BY <1>1, ExporterTyped DEF Sound, Module
<1>3. f \in Function
  BY <1>1, <1>2 DEF At, Index
<1> HIDE DEF f
<1>4. m'.funcs = Append(m.funcs, f) /\ m'.decl = m.decl /\ m'.taken = Append(m.taken, Len(m.taken))
  BY <1>1, <1>2, <1>3, AddFunctionIs
<1>5. phase' = "imports" /\ mods' = mods
  BY <1>1, <1>2 DEF Imported
<1> QED
  BY <1>2, <1>3, <1>4, <1>5 DEF f

LEMMA FunctionResolved ==
  ASSUME Sound, Resolved, Importing, Exports, Imported, Exported.kind = "func",
         m'.funcs = Append(m.funcs, At(Exporter.funcs, Exported.index)), m'.decl = m.decl
  PROVE  Resolved'
<1>1. PICK n : n = Len(m.decl.imports) - Len(todo)
  OBVIOUS
<1>2. PICK read : read = Read
  OBVIOUS
<1>3. /\ m \in Module /\ phase = "imports" /\ phase' = "imports" /\ mods' = mods
      /\ todo' = Tail(todo) /\ Entry.from \in DOMAIN mods
  BY ExporterTyped DEF Sound, Imported
<1>4. /\ Len(todo') = Len(todo) - 1 /\ Entry = m.decl.imports[n + 1] /\ n \in Nat
      /\ n + 1 \in 1 .. Len(m.decl.imports) /\ Len(m.decl.imports) \in Nat /\ Len(todo) \in Nat
  <2>1. todo \in Seq(ImportEntry) /\ Rest(m.decl.imports) /\ todo # <<>>
    BY <1>3 DEF Sound, Typed, Importing
  <2>2. m.decl.imports \in Seq(ImportEntry)
    BY <1>3, DeclsAssumption DEF Module
  <2> QED
    BY <1>1, <1>3, <2>1, <2>2, RestTail DEF Entry, Rest
<1>5. PICK f : f = Taken(read, m.decl)
  OBVIOUS
<1>6. TakenTo(f, read, m.decl.imports, Len(m.decl.imports))
  BY <1>4, <1>5, TakenIs
<1>7. Entry.kind = "func"
  BY DEF Exports
<1>8. read[Entry.from].funcs = Exporter.funcs /\ read[Entry.from].decl = Exporter.decl
  BY <1>2, <1>3 DEF Read, Exporter
<1>9. f[n + 1] = Append(f[n], At(Exporter.funcs, Exported.index))
  <2>1. PICK k : k = n + 1
    OBVIOUS
  <2>2. k \in 0 .. Len(m.decl.imports) /\ k # 0 /\ k - 1 = n
    BY <1>4, <2>1
  <2>3. m.decl.imports[k] = Entry
    BY <1>4, <2>1
  <2>4. f[k] = Append(f[k - 1],
                      At(read[Entry.from].funcs,
                         read[Entry.from].decl.exports[Entry.field].index))
    BY <1>6, <1>7, <2>2, <2>3 DEF TakenTo
  <2> QED
    BY <1>8, <2>1, <2>2, <2>4 DEF Exported
<1>10. m.funcs = f[n]
  BY <1>1, <1>2, <1>3, <1>5 DEF Resolved
<1>11. Len(m.decl.imports)' - Len(todo)' = n + 1
  BY <1>1, <1>4
<1>12. Read' = read /\ Declared' = Declared
  BY <1>2, <1>3, ReadKept
<1>13. m'.funcs = Taken(Read', m'.decl)[n + 1]
  BY <1>5, <1>9, <1>10, <1>12
<1> QED
  BY <1>2, <1>3, <1>11, <1>12, <1>13 DEF Resolved

LEMMA BeginResolved ==
  ASSUME Sound, Resolved, Begin
  PROVE  Resolved'
<1>1. PICK decl \in Decls : m' = Decoded(decl) /\ todo' = decl.imports
  BY DEF Begin
<1>2. PICK read : read = Read
  OBVIOUS
<1>3. phase' = "imports" /\ mods' = mods /\ m'.funcs = <<>> /\ m'.decl = decl
  <2>1. mods \in Seq(Module)
    BY DEF Sound, Typed
  <2> QED
    BY <1>1, <2>1, DecodedIs DEF Begin
<1>4. Len(decl.imports) \in Nat
  BY DeclsAssumption
<1>5. TakenTo(Taken(read, decl), read, decl.imports, Len(decl.imports))
  BY <1>4, TakenIs
<1>6. Taken(read, decl)[0] = <<>>
  <2>1. PICK f : f = Taken(read, decl)
    OBVIOUS
  <2>2. TakenTo(f, read, decl.imports, Len(decl.imports))
    BY <1>5, <2>1
  <2>3. f[0] = <<>>
    BY <1>4, <2>2, TakenStart
  <2> QED
    BY <2>1, <2>3
<1>7. Len(m'.decl.imports) - Len(todo') = 0
  BY <1>1, <1>3, <1>4
<1>8. Read' = read /\ Declared' = Declared
  BY <1>2, <1>3, ReadKept
<1> QED
  BY <1>2, <1>3, <1>6, <1>7, <1>8 DEF Resolved

LEMMA PopulateGlobalsResolved ==
  ASSUME Sound, Resolved, PopulateGlobals
  PROVE  Resolved'
<1>1. /\ phase = "imports" /\ todo = <<>> /\ phase' = "functions" /\ mods' = mods
      /\ m' = [m EXCEPT !.globals = @ \o m.decl.globals]
  BY DEF PopulateGlobals
<1>2. m \in Module
  BY <1>1 DEF Sound, Typed, Reading
<1>3. m'.funcs = m.funcs /\ m'.decl = m.decl
  BY <1>1, <1>2 DEF Module
<1>4. Len(m.decl.imports) \in Nat
  BY <1>2, DeclsAssumption DEF Module
<1>5. Len(m.decl.imports) - Len(todo) = Len(m.decl.imports)
  BY <1>1, <1>4
<1>6. Read' = Read /\ Declared' = Declared
  BY <1>1, ReadKept
<1> QED
  BY <1>1, <1>3, <1>5, <1>6 DEF Resolved

\* What PopulateFunctions makes of the lists of a module, where it has types and
\* functions: its own functions have the bodies that were decoded for them.
LEMMA OwnIs ==
  ASSUME Sound, PopulateFunctions, ~ (Refuse \/ Panic)
  PROVE  /\ phase = "functions" /\ phase' = "tables" /\ mods' = mods /\ m \in Module
         /\ m'.decl = m.decl
         /\ \/ m' = m /\ ~Typing(m.decl)
            \/ /\ Typing(m.decl) /\ Own \in Seq(Function) /\ Own = OwnOf(m.decl, Len(mods) + 1)
               /\ m'.funcs = m.funcs \o Own /\ m'.types = m.taken \o m.types /\ m'.taken = m.taken
<1>1. /\ phase = "functions" /\ phase' = "tables" /\ mods' = mods
      /\ \/ m' = m /\ ~Typing(m.decl)
         \/ /\ m' = [m EXCEPT !.funcs = @ \o Own, !.types = m.taken \o @]
            /\ \A k \in DOMAIN m.types : m.types[k] \in Index(m.decl.types)
            /\ Has(m.decl, "code") \/ m.types = <<>> \/ m.types[1] \notin Index(m.decl.types)
            /\ Typing(m.decl)
  BY DEF PopulateFunctions, Typing
<1>2. m \in Module
  BY <1>1 DEF Sound, Typed, Reading
<1>3. CASE m' = m /\ ~Typing(m.decl)
  BY <1>1, <1>2, <1>3
<1>4. CASE ~ (m' = m /\ ~Typing(m.decl))
  <2>1. Typing(m.decl) /\ m' = [m EXCEPT !.funcs = @ \o Own, !.types = m.taken \o @]
    BY <1>1, <1>4
  <2>2. /\ Len(m.types) <= Len(m.bodies)
        /\ \A k \in DOMAIN m.types : m.bodies[k] = <<Len(mods) + 1, k>>
    BY <1>1, <1>2, <1>4, BodiesEnough DEF Sound
  <2>3. Own \in Seq(Function)
    BY <1>1, <1>2, <1>4, <2>2, OwnTyped
  <2>4. m.types = m.decl.funcs
    BY <1>1 DEF Sound, Fresh
  <2>5. Own = OwnOf(m.decl, Len(mods) + 1)
    BY <2>1, <2>2, <2>4 DEF Own, OwnOf
  <2>6. PICK own \in Seq(Function) : own = Own
    BY <2>3
  <2>7. m' = [m EXCEPT !.funcs = @ \o own, !.types = m.taken \o @]
    BY <2>1, <2>6
  <2>8. m'.decl = m.decl /\ m'.funcs = m.funcs \o own /\ m'.taken = m.taken
    BY <1>2, <2>7 DEF Module
  <2>9. m'.types = m.taken \o m.types
    BY <1>2, <2>7 DEF Module
  <2> QED
    BY <1>1, <1>2, <2>1, <2>5, <2>6, <2>8, <2>9
<1> QED
  BY <1>3, <1>4

LEMMA PopulateFunctionsResolved ==
  ASSUME Sound, Resolved, PopulateFunctions
  PROVE  Resolved'
<1>1. CASE Refuse \/ Panic
  BY <1>1, GiveUpResolved
<1>2. CASE ~ (Refuse \/ Panic)
  <2>1. /\ phase = "functions" /\ phase' = "tables" /\ mods' = mods /\ m \in Module
        /\ m'.decl = m.decl
    BY <1>2, OwnIs
  <2>2. m.funcs \in Seq(Function) /\ mods \in Seq(Module)
    BY <2>1 DEF Sound, Typed, Module
  <2>3. Len(Read) = Len(mods)
    BY <2>2 DEF Read
  <2>4. m.funcs = Taken(Read, m.decl)[Len(m.decl.imports)]
    BY <2>1 DEF Resolved
  <2>5. m'.funcs = m.funcs \o OwnOf(m.decl, Len(mods) + 1)
    <3>1. CASE m' = m /\ ~Typing(m.decl)
      <4>1. OwnOf(m.decl, Len(mods) + 1) = <<>>
        BY <3>1 DEF OwnOf
      <4>2. PICK funcs \in Seq(Function) : funcs = m.funcs
        BY <2>2
      <4>3. funcs \o <<>> = funcs
        OBVIOUS
      <4> QED
        BY <3>1, <4>1, <4>2, <4>3
    <3>2. CASE ~ (m' = m /\ ~Typing(m.decl))
      BY <1>2, <3>2, OwnIs
    <3> QED
      BY <3>1, <3>2
  <2>6. m'.funcs = Space(Read, m.decl)
    BY <2>3, <2>4, <2>5 DEF Space
  <2>7. Read' = Read /\ Declared' = Declared
    BY <2>1, ReadKept
  <2> QED
    BY <2>1, <2>6, <2>7 DEF Resolved
<1> QED
  BY <1>1, <1>2

\* The tables and the memory say nothing about functions.
LEMMA LaterResolved ==
  ASSUME Resolved, phase \in {"tables", "memory"}, phase' \in {"tables", "memory"}, mods' = mods,
         m'.funcs = m.funcs, m'.decl = m.decl
  PROVE  Resolved'
BY ReadKept DEF Resolved

LEMMA FinishResolved ==
  ASSUME Sound, Resolved, Finish
  PROVE  Resolved'
<1>1. /\ phase = "memory" /\ phase' = "idle" /\ mods' = Append(mods, m)
  BY DEF Finish
<1>2. m \in Module /\ mods \in Seq(Module)
  BY <1>1 DEF Sound, Typed, Reading
<1>3. PICK n : n = Len(mods)
  OBVIOUS
<1>4. /\ n \in Nat /\ DOMAIN mods = 1 .. n /\ DOMAIN mods' = 1 .. n + 1
      /\ (\A k \in 1 .. n : mods'[k] = mods[k]) /\ mods'[n + 1] = m
  BY <1>1, <1>2, <1>3
<1>5. Declared \in Seq(Decls) /\ Len(Declared) = n /\ m.decl \in Decls
  <2>1. \A k \in 1 .. n : mods[k].decl \in Decls
    <3>1. \A k \in 1 .. n : mods[k] \in Module
      BY <1>2, <1>4
    <3> QED
      BY <3>1 DEF Module
  <2>2. Declared \in [1 .. n -> Decls]
    BY <1>4, <2>1 DEF Declared
  <2> QED
    BY <1>2, <1>4, <2>2 DEF Module
<1>6. Declared' = Append(Declared, m.decl)
  <2>1. \A k \in 1 .. n : mods'[k].decl = Declared[k]
    BY <1>4 DEF Declared
  <2>2. Declared' = [k \in 1 .. n + 1 |-> mods'[k].decl]
    BY <1>4 DEF Declared
  <2>3. Append(Declared, m.decl) = [k \in 1 .. n + 1 |-> IF k <= n THEN Declared[k] ELSE m.decl]
    BY <1>4, <1>5
  <2>4. \A k \in 1 .. n + 1 : mods'[k].decl = IF k <= n THEN Declared[k] ELSE m.decl
    <3> TAKE k \in 1 .. n + 1
    <3>1. (k <= n /\ k \in 1 .. n) \/ (k = n + 1 /\ ~ (k <= n))
      BY <1>4
    <3> QED
      BY <1>4, <2>1, <3>1
  <2> QED
    BY <2>2, <2>3, <2>4
<1>7. Read' = Append(Read, [decl |-> m.decl, funcs |-> m.funcs])
  <2> DEFINE pair == [decl |-> m.decl, funcs |-> m.funcs]
             P(x) == [decl |-> x.decl, funcs |-> x.funcs]
  <2>1. \A k \in 1 .. n : P(mods'[k]) = Read[k]
    BY <1>4 DEF Read
  <2>2. Read' = [k \in 1 .. n + 1 |-> P(mods'[k])]
    BY <1>4 DEF Read
  <2>3. Read \in Seq([decl : Decls, funcs : Seq(Function)]) /\ Len(Read) = n
    <3> DEFINE R == [decl : Decls, funcs : Seq(Function)]
    <3>1. \A k \in 1 .. n : mods[k] \in Module
      BY <1>2, <1>4
    <3>2. \A k \in 1 .. n : [decl |-> mods[k].decl, funcs |-> mods[k].funcs] \in R
      BY <3>1 DEF Module
    <3> HIDE DEF R
    <3>3. Read \in [1 .. n -> R]
      BY <1>4, <3>2 DEF Read
    <3>4. Read \in Seq(R) /\ Len(Read) = n
      BY <1>4, <3>3
    <3> QED
      BY <3>4 DEF R
  <2>4. P(mods'[n + 1]) = pair
    BY <1>4
  <2>5. pair \in [decl : Decls, funcs : Seq(Function)]
    BY <1>2 DEF Module
  <2> HIDE DEF pair, P
  <2>6. Append(Read, pair) = [k \in 1 .. n + 1 |-> IF k <= n THEN Read[k] ELSE pair]
    <3> DEFINE a == Append(Read, pair)
               R == [decl : Decls, funcs : Seq(Function)]
    <3> HIDE DEF R
    <3>1. Read \in Seq(R) /\ pair \in R
      BY <2>3, <2>5 DEF R
    <3>2. /\ a \in Seq(R) /\ Len(a) = n + 1 /\ a[n + 1] = pair
          /\ \A k \in 1 .. n : a[k] = Read[k]
      BY <2>3, <3>1
    <3> HIDE DEF a
    <3>3. a = [k \in 1 .. n + 1 |-> a[k]]
      <4>1. a \in [1 .. n + 1 -> R]
        BY <1>4, <3>2
      <4> QED
        BY <4>1
    <3>4. \A k \in 1 .. n + 1 : a[k] = IF k <= n THEN Read[k] ELSE pair
      <4> TAKE k \in 1 .. n + 1
      <4>1. (k <= n /\ k \in 1 .. n) \/ (k = n + 1 /\ ~ (k <= n))
        BY <1>4
      <4> QED
        BY <3>2, <4>1
    <3> QED
      BY <3>3, <3>4 DEF a
  <2>7. \A k \in 1 .. n + 1 : P(mods'[k]) = IF k <= n THEN Read[k] ELSE pair
    <3> TAKE k \in 1 .. n + 1
    <3>1. (k <= n /\ k \in 1 .. n) \/ (k = n + 1 /\ ~ (k <= n))
      BY <1>4
    <3> QED
      BY <2>1, <2>4, <3>1
  <2>8. Read' = Append(Read, pair)
    BY <2>2, <2>6, <2>7
  <2> QED
    BY <2>8 DEF pair
<1>8. Read = Meaning(Declared) /\ m.funcs = Space(Read, m.decl)
  BY <1>1 DEF Resolved
<1>9. Meaning(Append(Declared, m.decl))
        = Append(Meaning(Declared), [decl |-> m.decl, funcs |-> Space(Meaning(Declared), m.decl)])
  BY <1>5, MeaningAppend
<1>10. Read' = Meaning(Declared')
  BY <1>6, <1>7, <1>8, <1>9
<1> QED
  BY <1>1, <1>10 DEF Resolved

LEMMA ResolvedStep == Sound /\ Resolved /\ [Next]_vars => Resolved'
<1> SUFFICES ASSUME Sound, Resolved, [Next]_vars PROVE Resolved'
  OBVIOUS
<1>1. CASE UNCHANGED vars
  BY <1>1, ReadKept DEF vars, Resolved
<1>2. CASE Refuse \/ Panic
  BY <1>2, GiveUpResolved
<1>3. CASE Next /\ ~ (Refuse \/ Panic)
  <2>1. CASE Begin
    BY <2>1, BeginResolved
  <2>2. CASE ImportUnknown
    BY <1>3, <2>2 DEF ImportUnknown
  <2>3. CASE ImportFunction
    <3>1. /\ Importing /\ Exports /\ Imported /\ Exported.kind = "func"
          /\ m' = AddFunction(At(Exporter.funcs, Exported.index))
      BY <1>3, <2>3 DEF ImportFunction
    <3>2. m'.funcs = Append(m.funcs, At(Exporter.funcs, Exported.index)) /\ m'.decl = m.decl
      BY <1>3, <2>3, ImportFunctionIs
    <3> QED
      BY <3>1, <3>2, FunctionResolved
  <2>4. CASE ImportGlobal \/ ImportTable \/ ImportMemory
    <3>1. /\ Importing /\ Exports /\ Imported /\ Exported.kind # "func"
          /\ \/ m' = [m EXCEPT !.globals = Append(@, At(Exporter.globals, Exported.index))]
             \/ m' = [m EXCEPT !.tables[1] = Exporter.tables[1]]
             \/ m' = [m EXCEPT !.mem = Exporter.mem]
      BY <1>3, <2>4 DEF ImportGlobal, ImportTable, ImportMemory
    <3>2. m \in Module
      BY <3>1, ExporterTyped DEF Sound
    <3>3. m'.funcs = m.funcs /\ m'.decl = m.decl
      BY <3>1, <3>2 DEF Module
    <3> QED
      BY <3>1, <3>3, SkipResolved
  <2>5. CASE PopulateGlobals
    BY <2>5, PopulateGlobalsResolved
  <2>6. CASE PopulateFunctions
    BY <2>6, PopulateFunctionsResolved
  <2>7. CASE PopulateTable
    <3>1. PICK put : PutsTable(put)
      BY <1>3, <2>7, TableStep DEF Sound
    <3>2. m'.funcs = m.funcs /\ m'.decl = m.decl
      BY <3>1 DEF PutsTable, Module
    <3> QED
      BY <3>1, <3>2, LaterResolved DEF PutsTable
  <2>8. CASE TablesPopulated
    <3>1. phase = "tables" /\ phase' = "memory" /\ mods' = mods /\ m' = [m EXCEPT !.found = ArrayOf(heap, m.mem)]
      BY <2>8 DEF TablesPopulated
    <3>2. m \in Module
      BY <3>1 DEF Sound, Typed, Reading
    <3>3. m'.funcs = m.funcs /\ m'.decl = m.decl
      BY <3>1, <3>2 DEF Module
    <3> QED
      BY <3>1, <3>3, LaterResolved
  <2>9. CASE PopulateMemory
    <3>1. PICK put : PutsMemory(put)
      BY <1>3, <2>9, MemoryStep DEF Sound
    <3>2. m'.funcs = m.funcs /\ m'.decl = m.decl
      BY <3>1 DEF PutsMemory, Module
    <3> QED
      BY <3>1, <3>2, LaterResolved DEF PutsMemory
  <2>10. CASE Finish
    BY <2>10, FinishResolved
  <2> QED
    BY <1>3, <2>1, <2>2, <2>3, <2>4, <2>5, <2>6, <2>7, <2>8, <2>9, <2>10 DEF Next
<1> QED
  BY <1>1, <1>2, <1>3

-----------------------------------------------------------------------------
\* Function.Types keeps pace with the function index space: the numbers of the
\* imported functions, as many as there are, and then the signatures of the own.
Listed ==
  /\ phase \in {"imports", "functions"} => Len(m.taken) = Len(m.funcs)
  /\ phase \in {"tables", "memory"} => (Typing(m.decl) => Aligned(m))
  /\ \A k \in DOMAIN mods : Typing(mods[k].decl) => Aligned(mods[k])

LEMMA ListedInit == Init => Listed
<1> SUFFICES ASSUME Init PROVE Listed
  OBVIOUS
<1>1. mods = <<>> /\ phase = "idle"
  BY DEF Init
<1>2. DOMAIN mods = {}
  BY <1>1
<1> QED
  BY <1>1, <1>2 DEF Listed

LEMMA GiveUpListed ==
  ASSUME Listed, Refuse \/ Panic
  PROVE  Listed'
BY DEF Listed, Refuse, Panic

\* A step that leaves the lists alone.
LEMMA SameListed ==
  ASSUME Listed, mods' = mods, m'.funcs = m.funcs, m'.taken = m.taken, m'.types = m.types,
         m'.decl = m.decl,
         \/ phase \in {"imports", "functions"} /\ phase' \in {"imports", "functions"}
         \/ phase \in {"tables", "memory"} /\ phase' \in {"tables", "memory"}
  PROVE  Listed'
<1>1. Aligned(m) => Aligned(m')
  BY DEF Aligned
<1>2. CASE phase \in {"imports", "functions"} /\ phase' \in {"imports", "functions"}
  BY <1>2 DEF Listed
<1>3. CASE phase \in {"tables", "memory"} /\ phase' \in {"tables", "memory"}
  BY <1>1, <1>3 DEF Listed
<1> QED
  BY <1>2, <1>3

LEMMA ImportFunctionListed ==
  ASSUME Sound, Listed, ImportFunction, ~ (Refuse \/ Panic)
  PROVE  Listed'
<1>1. PICK f \in Function : f = At(Exporter.funcs, Exported.index)
  BY ImportFunctionIs
<1>2. /\ m \in Module /\ phase = "imports" /\ phase' = "imports" /\ mods' = mods
      /\ m'.funcs = Append(m.funcs, f) /\ m'.taken = Append(m.taken, Len(m.taken))
  BY <1>1, ImportFunctionIs
<1>3. PICK funcs \in Seq(Function) : funcs = m.funcs
  BY <1>2 DEF Module
<1>4. PICK taken \in Seq(Nat) : taken = m.taken
  BY <1>2 DEF Module
<1>5. Len(funcs) = Len(taken)
  BY <1>2, <1>3, <1>4 DEF Listed
<1>6. Len(Append(funcs, f)) = Len(Append(taken, Len(taken)))
  BY <1>5
<1> QED
  BY <1>2, <1>3, <1>4, <1>6 DEF Listed

LEMMA PopulateFunctionsListed ==
  ASSUME Sound, Listed, PopulateFunctions, ~ (Refuse \/ Panic)
  PROVE  Listed'
<1>1. /\ phase = "functions" /\ phase' = "tables" /\ mods' = mods /\ m \in Module
      /\ m'.decl = m.decl
  BY OwnIs
<1>2. SUFFICES ASSUME Typing(m.decl) PROVE Aligned(m')
  BY <1>1 DEF Listed
<1>3. /\ Own \in Seq(Function) /\ Own = OwnOf(m.decl, Len(mods) + 1)
      /\ m'.funcs = m.funcs \o Own /\ m'.types = m.taken \o m.types /\ m'.taken = m.taken
  BY <1>2, OwnIs
<1>4. PICK funcs \in Seq(Function) : funcs = m.funcs
  BY <1>1 DEF Module
<1>5. PICK taken \in Seq(Nat) : taken = m.taken
  BY <1>1 DEF Module
<1>6. PICK types \in Seq(Nat) : types = m.types
  BY <1>1 DEF Module
<1>7. PICK own \in Seq(Function) : own = Own
  BY <1>3
<1>8. Len(funcs) = Len(taken)
  BY <1>1, <1>4, <1>5 DEF Listed
<1>9. m.decl.funcs = types
  BY <1>1, <1>6 DEF Sound, Fresh
<1>10. own = [j \in DOMAIN types |-> [sig |-> At(m.decl.types, types[j]), body |-> <<Len(mods) + 1, j>>]]
  BY <1>2, <1>3, <1>7, <1>9 DEF OwnOf
<1>11. PICK n \in Nat : n = Len(types)
  OBVIOUS
<1>12. Len(own) = n /\ \A j \in 1 .. n : own[j].sig = At(m.decl.types, types[j])
  <2>1. DOMAIN own = 1 .. n
    BY <1>10, <1>11
  <2> QED
    BY <1>10, <1>11, <2>1
<1>13. PICK l \in Nat : l = Len(taken)
  OBVIOUS
<1>14. /\ Len(taken \o types) = l + n /\ Len(funcs \o own) = l + n
       /\ \A i \in l + 1 .. l + n : (taken \o types)[i] = types[i - l] /\ (funcs \o own)[i] = own[i - l]
  <2>1. Len(funcs) = l /\ Len(own) = n
    BY <1>8, <1>12, <1>13
  <2>2. Len(taken \o types) = l + n /\ \A i \in l + 1 .. l + n : (taken \o types)[i] = types[i - l]
    BY <1>11, <1>13
  <2>3. Len(funcs \o own) = l + n /\ \A i \in l + 1 .. l + n : (funcs \o own)[i] = own[i - l]
    BY <2>1
  <2> QED
    BY <2>2, <2>3
<1>15. \A i \in l + 1 .. l + n : At(m.decl.types, (taken \o types)[i]) = (funcs \o own)[i].sig
  <2> TAKE i \in l + 1 .. l + n
  <2>1. i - l \in 1 .. n
    BY <1>11, <1>13
  <2> QED
    BY <1>12, <1>14, <2>1
<1>16. m'.funcs = funcs \o own /\ m'.types = taken \o types /\ m'.taken = taken
  BY <1>3, <1>4, <1>5, <1>6, <1>7
<1> QED
  BY <1>1, <1>13, <1>14, <1>15, <1>16 DEF Aligned

LEMMA FinishListed ==
  ASSUME Sound, Listed, Finish
  PROVE  Listed'
<1>1. /\ phase = "memory" /\ phase' = "idle" /\ mods' = Append(mods, m)
  BY DEF Finish
<1>2. m \in Module /\ mods \in Seq(Module)
  BY <1>1 DEF Sound, Typed, Reading
<1>3. \A k \in DOMAIN mods' : mods'[k] = m \/ (k \in DOMAIN mods /\ mods'[k] = mods[k])
  BY <1>1, <1>2
<1>4. /\ Typing(m.decl) => Aligned(m)
      /\ \A k \in DOMAIN mods : Typing(mods[k].decl) => Aligned(mods[k])
  BY <1>1 DEF Listed
<1>5. \A k \in DOMAIN mods' : Typing(mods'[k].decl) => Aligned(mods'[k])
  <2> TAKE k \in DOMAIN mods'
  <2> QED
    BY <1>3, <1>4
<1> QED
  BY <1>1, <1>5 DEF Listed

LEMMA ListedStep == Sound /\ Listed /\ [Next]_vars => Listed'
<1> SUFFICES ASSUME Sound, Listed, [Next]_vars PROVE Listed'
  OBVIOUS
<1>1. CASE UNCHANGED vars
  BY <1>1 DEF vars, Listed
<1>2. CASE Refuse \/ Panic
  BY <1>2, GiveUpListed
<1>3. CASE Next /\ ~ (Refuse \/ Panic)
  <2>1. CASE Begin
    <3>1. PICK decl \in Decls : m' = Decoded(decl) /\ phase' = "imports" /\ mods' = mods
      BY <2>1 DEF Begin
    <3>2. m'.funcs = <<>> /\ m'.taken = <<>>
      <4>1. mods \in Seq(Module)
        BY DEF Sound, Typed
      <4> QED
        BY <3>1, <4>1, DecodedIs
    <3> QED
      BY <3>1, <3>2 DEF Listed
  <2>2. CASE ImportUnknown
    BY <1>3, <2>2 DEF ImportUnknown
  <2>3. CASE ImportFunction
    BY <1>3, <2>3, ImportFunctionListed
  <2>4. CASE ImportGlobal \/ ImportTable \/ ImportMemory
    <3>1. /\ Importing /\ Exports /\ Imported
          /\ \/ m' = [m EXCEPT !.globals = Append(@, At(Exporter.globals, Exported.index))]
             \/ m' = [m EXCEPT !.tables[1] = Exporter.tables[1]]
             \/ m' = [m EXCEPT !.mem = Exporter.mem]
      BY <1>3, <2>4 DEF ImportGlobal, ImportTable, ImportMemory
    <3>2. m \in Module /\ phase = "imports"
      BY <3>1, ExporterTyped DEF Sound
    <3>3. m'.funcs = m.funcs /\ m'.taken = m.taken /\ m'.types = m.types /\ m'.decl = m.decl
      BY <3>1, <3>2 DEF Module
    <3> QED
      BY <3>1, <3>2, <3>3, SameListed DEF Imported
  <2>5. CASE PopulateGlobals
    <3>1. /\ phase = "imports" /\ phase' = "functions" /\ mods' = mods
          /\ m' = [m EXCEPT !.globals = @ \o m.decl.globals]
      BY <2>5 DEF PopulateGlobals
    <3>2. m \in Module
      BY <3>1 DEF Sound, Typed, Reading
    <3>3. m'.funcs = m.funcs /\ m'.taken = m.taken /\ m'.types = m.types /\ m'.decl = m.decl
      BY <3>1, <3>2 DEF Module
    <3> QED
      BY <3>1, <3>3, SameListed
  <2>6. CASE PopulateFunctions
    BY <1>3, <2>6, PopulateFunctionsListed
  <2>7. CASE PopulateTable
    <3>1. PICK put : PutsTable(put)
      BY <1>3, <2>7, TableStep DEF Sound
    <3>2. m'.funcs = m.funcs /\ m'.taken = m.taken /\ m'.types = m.types /\ m'.decl = m.decl
      BY <3>1 DEF PutsTable, Module
    <3> QED
      BY <3>1, <3>2, SameListed DEF PutsTable
  <2>8. CASE TablesPopulated
    <3>1. phase = "tables" /\ phase' = "memory" /\ mods' = mods /\ m' = [m EXCEPT !.found = ArrayOf(heap, m.mem)]
      BY <2>8 DEF TablesPopulated
    <3>2. m \in Module
      BY <3>1 DEF Sound, Typed, Reading
    <3>3. m'.funcs = m.funcs /\ m'.taken = m.taken /\ m'.types = m.types /\ m'.decl = m.decl
      BY <3>1, <3>2 DEF Module
    <3> QED
      BY <3>1, <3>3, SameListed
  <2>9. CASE PopulateMemory
    <3>1. PICK put : PutsMemory(put)
      BY <1>3, <2>9, MemoryStep DEF Sound
    <3>2. m'.funcs = m.funcs /\ m'.taken = m.taken /\ m'.types = m.types /\ m'.decl = m.decl
      BY <3>1 DEF PutsMemory, Module
    <3> QED
      BY <3>1, <3>2, SameListed DEF PutsMemory
  <2>10. CASE Finish
    BY <2>10, FinishListed
  <2> QED
    BY <1>3, <2>1, <2>2, <2>3, <2>4, <2>5, <2>6, <2>7, <2>8, <2>9, <2>10 DEF Next
<1> QED
  BY <1>1, <1>2, <1>3

\* FunctionsAreResolved: in any chain of imports, and whatever was refused between,
\* index by index the functions of a module are those its imports name, in their
\* order, and then its own, each with the body its code section had for it although
\* the bodies of imported functions were added to that list; Function.Types stays as
\* long as the index space and names the signature of every own function
\* (wasm/index.go:33-63, imports.go:172-195).
THEOREM FunctionsAreResolved == Spec => []FunctionsResolve
<1>1. Init => Sound /\ Resolved /\ Listed
  BY SoundInit, ResolvedInit, ListedInit
<1>2. Sound /\ Resolved /\ Listed /\ [Next]_vars => (Sound /\ Resolved /\ Listed)'
  BY SoundStep, ResolvedStep, ListedStep
<1>3. Resolved /\ Listed => FunctionsResolve
  <2> SUFFICES ASSUME Resolved, Listed, NEW k \in DOMAIN mods
               PROVE  /\ mods[k].funcs = Meaning(Declared)[k].funcs
                      /\ Typing(mods[k].decl) => Aligned(mods[k])
    BY DEF FunctionsResolve, Declared
  <2>1. Read[k].funcs = mods[k].funcs
    BY DEF Read
  <2> QED
    BY <2>1 DEF Resolved, Listed
<1> QED
  BY <1>1, <1>2, <1>3, PTL DEF Spec
=============================================================================
