---------------------------- MODULE MCLocalLogger ----------------------------
(***************************************************************************)
(* The instance of LocalLogger that TLC checks: two goroutines that call   *)
(* whatever they like, a file with two configurations and one that it does *)
(* not take, and Elasticsearch that stays closed until the first message.  *)
(***************************************************************************)
EXTENDS LocalLogger

MCAsked == {[name |-> File, config |-> c] : c \in {"first", "second", BadConfig}}
           \cup {[name |-> Elastic, config |-> "off"], [name |-> "unknown", config |-> "first"]}
=============================================================================
