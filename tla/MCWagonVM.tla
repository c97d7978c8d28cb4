------------------------------- MODULE MCWagonVM -------------------------------
(***************************************************************************)
(* Instances of WagonVM for TLC: a main function with a result, a helper   *)
(* with a parameter and without a result, an empty function, and one host  *)
(* function.                                                               *)
(***************************************************************************)
EXTENDS WagonVM

MCFuncs == {"main", "helper", "empty"}
MCHosts == {"host"}
MCArgs == [main |-> 0, helper |-> 1, empty |-> 0, host |-> 1]
MCReturns == [main |-> 1, helper |-> 0, empty |-> 0, host |-> 1]
MCMaxDepth == [main |-> 2, helper |-> 1, empty |-> 0]
=============================================================================
