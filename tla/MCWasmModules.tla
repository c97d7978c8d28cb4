----------------------------- MODULE MCWasmModules -----------------------------
(***************************************************************************)
(* Modules that export, import and export again functions, globals, tables *)
(* and memories, read in any order, with the mistakes ReadModule detects   *)
(* and those it does not.                                                  *)
(***************************************************************************)
EXTENDS WasmModules, FiniteSets, TLC

All == {"types", "import", "function", "table", "global", "export", "elements", "code", "data"}
Plain == [has |-> All, types |-> <<"a", "b">>, imports |-> <<>>, funcs |-> <<0, 1>>, bodies |-> 2,
          globals |-> <<[mutable |-> FALSE, type |-> "i32"]>>, tables |-> 1, elems |-> <<>>,
          exports |-> <<>>, data |-> <<>>]

I32(v) == <<[op |-> "i32", v |-> v]>>
Seg(offset, data) == [index |-> 0, offset |-> I32(offset), data |-> data]
Ex(kind, index) == [kind |-> kind, index |-> index]
Imp(from, field, kind, type) == [from |-> from, field |-> field, kind |-> kind, type |-> type]

F == "f"
G == "g"
M == "m"
T == "t"
Exporting == F :> Ex("func", 1) @@ G :> Ex("global", 0) @@ M :> Ex("memory", 0) @@ T :> Ex("table", 0)

\* Memories of four bytes from two segments, side by side and one over the other.
Makes == {[Plain EXCEPT !.exports = Exporting, !.elems = <<Seg(0, <<0, 1>>)>>, !.data = d] :
            d \in {<<Seg(0, <<1, 2>>), Seg(2, <<3, 4>>)>>, <<Seg(0, <<1, 2, 3, 4>>), Seg(1, <<5>>)>>}}
\* Segments of an importer: within the memory, behind it, over its end.
Patches == {<<>>, <<Seg(1, <<8>>)>>, <<Seg(4, <<8>>), Seg(0, <<9>>)>>, <<Seg(3, <<8, 9>>)>>,
            <<Seg(2, <<8>>), [Seg(0, <<9>>) EXCEPT !.index = 1]>>}
Takes == {[Plain EXCEPT !.exports = Exporting, !.data = d,
             !.imports = <<Imp(from, F, "func", 1), Imp(from, M, "memory", 0)>>] :
            d \in Patches, from \in {1, 2}}
\* The exported function is the one imported last; a table and a global come with it.
Passes == {[Plain EXCEPT !.exports = [Exporting EXCEPT !["f"] = Ex("func", i)], !.elems = e,
              !.imports = <<Imp(1, F, "func", 1), Imp(from, T, "table", 0),
                            Imp(1, G, "global", 0), Imp(from, F, "func", 1)>>] :
             i \in {0, 3}, from \in {1, 2}, e \in {<<Seg(1, <<2, 3>>)>>, <<Seg(0, <<3>>)>>}}
Unusual ==
  {[Plain EXCEPT !.has = All \ {"function", "code"}, !.funcs = <<>>, !.bodies = 0],
   [Plain EXCEPT !.has = All \ {"code"}, !.bodies = 0],
   [Plain EXCEPT !.has = All \ {"table"}, !.tables = 0, !.imports = <<Imp(1, T, "table", 0)>>],
   [Plain EXCEPT !.bodies = 1],
   [Plain EXCEPT !.funcs = <<0, 2>>],
   [Plain EXCEPT !.globals = <<[mutable |-> TRUE, type |-> "i32"]>>, !.exports = Exporting],
   [Plain EXCEPT !.imports = <<Imp(1, F, "func", 0)>>],
   [Plain EXCEPT !.imports = <<Imp(1, G, "func", 0)>>],
   [Plain EXCEPT !.imports = <<Imp(1, G, "global", 0)>>,
                 !.data = <<[Seg(0, <<7>>) EXCEPT !.offset = <<[op |-> "get", v |-> 0]>>]>>],
   [Plain EXCEPT !.data = <<[Seg(0, <<7>>) EXCEPT !.offset =
                              <<[op |-> "i64", v |-> 1], [op |-> "get", v |-> 0]>>]>>],
   [Plain EXCEPT !.data = <<Seg(-1, <<7>>)>>]}

MCDecls == Makes \cup Takes \cup Passes \cup Unusual
==============================================================================
