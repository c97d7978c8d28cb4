---------------------------- MODULE MCWagonPipeline ----------------------------
(***************************************************************************)
(* Instances of WagonPipeline: one module with two host functions, "in"    *)
(* that returns an i32 and "out" that takes one, and a function under test *)
(* of one parameter.  Each run draws its bodies from a set of instructions *)
(* chosen for one part of the compiler.                                    *)
(***************************************************************************)
EXTENDS WagonPipeline

MCSigs == [f \in {0, 1} |-> IF f = 0 THEN [params |-> <<>>, rets |-> <<"i32">>]
                            ELSE [params |-> <<"i32">>, rets |-> <<>>]]
MCLocals == <<"i32">>
Procedure == [params |-> <<"i32">>, rets |-> <<>>]
Valued    == [params |-> <<"i32">>, rets |-> <<"i32">>]

In  == IN1("call", 0)
Out == IN1("call", 1)

\* Two types, and operators of every shape the verifier treats apart.
TypingInstrs == {In, I("end"), I("else"), I("drop"), I("select"), I("unreachable"), I("i32.lt_u"),
                 IN1("i64.const", 7), IN1("get_local", 0), IN1("tee_local", 1), IN1("br", 0),
                 IB("block", "i32"), IB("loop", "i64"), IB("if", Empty), I("return")}
TwoLocals == <<"i32", "i64">>

\* Blocks and branches out of them, with and without results.
BlockInstrs == {In, Out, I("end"), IB("block", Empty), IB("block", "i32"), I("drop"),
                IN1("br", 0), IN1("br", 1), IN1("br_if", 0), IN1("br_if", 1)}

\* Conditionals, in functions that return a value.
IfInstrs == {In, Out, I("end"), I("else"), IB("if", Empty), IB("if", "i32"),
             IN1("get_local", 0), I("return"), IN1("br", 0)}

\* Loops, entered again by br and br_if.
LoopInstrs == {In, Out, I("end"), IB("loop", Empty), IB("loop", "i32"),
               IB("block", Empty), IB("block", "i32"),
               IN1("br", 0), IN1("br_if", 0), IN1("br_if", 1), I("drop")}

\* Branch tables over nested blocks and loops; a nop is one byte long.
TableInstrs == {In, Out, I("end"), I("nop"), IB("block", Empty), IB("loop", Empty), IB("block", "i32"),
                ITable(<<0>>, 1), ITable(<<1>>, 0), ITable(<<>>, 0)}

Kind(instrs, max) == [instrs |-> instrs, max |-> max]
TypingKinds == {Kind(TypingInstrs, 6), Kind(IfInstrs, 7)}
CodeKinds   == {Kind(BlockInstrs, 6), Kind(LoopInstrs, 6), Kind(TableInstrs, 7)}

\* Bodies small enough to find the deviation of br_if.
BrIfOnly    == {Kind({In, I("end"), IB("block", Empty), IN1("br_if", 0), I("drop")}, 8)}
===============================================================================
