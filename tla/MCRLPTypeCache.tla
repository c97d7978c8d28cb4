---------------------------- MODULE MCRLPTypeCache ----------------------------
(***************************************************************************)
(* node is a struct with a field of type *node, and fn one with a field of *)
(* type *fn and a func: it is refused.  box has a list of node, a *fn and   *)
(* a field tagged nil.  half encodes itself but is decoded by its fields,  *)
(* a func and an own, which decodes itself but is encoded by its field, a  *)
(* list of half: a recursion of which neither half sees all.               *)
(***************************************************************************)
EXTENDS RLPTypeCache

Plain == {"uint", "func", "node", "nodePtr", "fn", "fnPtr", "nodes", "half", "halfs", "own",
          "box"}
MCKeys == Plain \cup {"nodePtr-nil"}
MCAsked == {"nodePtr", "fn", "fnPtr", "box"}
Fields(k) ==
  CASE k = "node" -> <<"uint", "nodePtr">>
    [] k \in {"nodePtr", "nodePtr-nil", "nodes"} -> <<"node">>
    [] k = "fn" -> <<"fnPtr", "func">>
    [] k = "fnPtr" -> <<"fn">>
    [] k = "half" -> <<"own", "func">>
    [] k = "halfs" -> <<"half">>
    [] k = "own" -> <<"halfs">>
    [] k = "box" -> <<"nodes", "nodePtr-nil", "half", "fnPtr">>
    [] OTHER -> <<>>
MCParts == [h \in Halves |-> [k \in MCKeys |->
              IF <<h, k>> \in {<<"writer", "half">>, <<"decoder", "own">>} THEN <<>>
              ELSE Fields(k)]]
MCBad == [h \in Halves |-> {"func"}]
==============================================================================
