------------------------------- MODULE WagonOps -------------------------------
(***************************************************************************)
(* The operator table of the WebAssembly interpreter (wagon/wasm/operators)*)
(* and the instructions the other wagon modules read.                      *)
(*                                                                         *)
(* A function body is a sequence of decoded instructions                   *)
(*     [op |-> operator, sig |-> block signature, imm |-> immediates].     *)
(* The decoding of LEB128 immediates is abstracted; the size of an         *)
(* instruction in COMPILED code is not, because branch tables confuse      *)
(* block labels with byte addresses (WagonCompile).  Of the ~170 operators *)
(* of the table the model keeps all that affect control flow, the          *)
(* operand-stack operators of variable arity, and one representative of    *)
(* each fixed shape (nullary, unary, binary) of the others.                *)
(***************************************************************************)
EXTENDS Integers, Sequences, SequencesExt

CONSTANTS Sigs,      \* function index -> [params, rets], sequences of types
          Self,      \* [params, rets] of the function whose body is read
          LocalTypes \* types of its parameters followed by its locals

Empty == "empty"                 \* wasm.BlockTypeEmpty, and no return value
ValueTypes == {"i32", "i64"}     \* f32 and f64 are treated alike

BlockOps == {"block", "loop", "if"}
BranchOps == {"br", "br_if", "br_table"}

\* Operators of variable arity: their effect is coded by hand in the
\* validator and in the disassembler.
Polymorphic == {"br", "br_table", "return", "call", "drop", "select",
                "get_local", "set_local", "tee_local"}

\* Operand types an operator of fixed arity pops, last operand first.
Args(op) ==
  CASE op \in {"if", "br_if", "i32.eqz"} -> <<"i32">>
    [] op = "i32.lt_u"                    -> <<"i32", "i32">>
    [] OTHER                             -> <<>>

\* The type an operator of fixed arity pushes.
Returns(op) ==
  CASE op \in {"i32.const", "i32.eqz", "i32.lt_u"} -> "i32"
    [] op = "i64.const"                           -> "i64"
    [] OTHER                                      -> Empty

\* Instruction constructors.
I(op)        == [op |-> op, sig |-> Empty, imm |-> <<>>]
IB(op, sig)  == [op |-> op, sig |-> sig,   imm |-> <<>>]
IN1(op, n)   == [op |-> op, sig |-> Empty, imm |-> <<n>>]
ITable(t, d) == [op |-> "br_table", sig |-> Empty, imm |-> Append(t, d)]

\* Labels a branch names; the default target of a br_table is the last one.
Labels(i) == IF i.op \in BranchOps THEN i.imm ELSE <<>>
===============================================================================
