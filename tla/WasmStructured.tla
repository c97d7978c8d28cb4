----------------------------- MODULE WasmStructured ----------------------------
(***************************************************************************)
(* What the interpreter promises: the meaning of STRUCTURED code, before   *)
(* any disassembly or compilation.  It is stated from the package comment  *)
(* of wagon/exec/internal/compile: a control sequence has an operand stack *)
(* of its own, its result (if its signature has one) is pushed on the      *)
(* stack of its parent, and the target of a branch is a relative block     *)
(* depth; and from canBranch in wagon/validate: a branch to a loop carries *)
(* no value.                                                               *)
(*                                                                         *)
(* It also gives the typing of structured code (the WebAssembly rules the  *)
(* comment of VerifyModule refers to), which the verifier of wagon checks  *)
(* only in part.  These are specifications, not models of code.            *)
(***************************************************************************)
EXTENDS WagonOps

-------------------------------------------------------------------------------
(* Typing.  Every open block has a base below which its code cannot reach; *)
(* after an instruction that never falls through the missing operands are  *)
(* of any type.                                                            *)

TypeFrame(op, sig, base, dead) == [op |-> op, sig |-> sig, base |-> base, dead |-> dead]
InitTyping ==
  [ok |-> TRUE, ops |-> <<>>,
   frames |-> <<TypeFrame("func", IF Self.rets = <<>> THEN Empty ELSE Self.rets[1], 0, FALSE)>>]

Wrong(t) == [t EXCEPT !.ok = FALSE]
TypeSeq(sig) == IF sig = Empty THEN <<>> ELSE <<sig>>
OpenFrame(t, op, sig) == [t EXCEPT !.frames = Append(@, TypeFrame(op, sig, Len(t.ops), FALSE))]

Take(t, ty) ==
  LET f == Last(t.frames)
  IN IF Len(t.ops) = f.base THEN (IF f.dead THEN t ELSE Wrong(t))
     ELSE IF ty \in {"any", Last(t.ops)} \/ Last(t.ops) = "any" THEN [t EXCEPT !.ops = Front(@)]
     ELSE Wrong(t)
TakeAll(t, tys) == FoldLeft(Take, t, tys)
Give(t, tys) == [t EXCEPT !.ops = @ \o tys]
Kill(t) == [t EXCEPT !.ops = SubSeq(@, 1, Last(t.frames).base),
                     !.frames[Len(t.frames)].dead = TRUE]

\* The type a branch to label k carries.
Carried(t, k) == LET f == t.frames[Len(t.frames) - k]
                 IN IF f.op = "loop" THEN <<>> ELSE TypeSeq(f.sig)

CloseFrame(t) ==
  LET f == Last(t.frames)
      e == TakeAll(t, TypeSeq(f.sig))
  IN IF Len(e.ops) # f.base THEN Wrong(t) ELSE [e EXCEPT !.frames = Front(@)]

TypeBranch(t, i) ==
  LET u == IF i.op = "br" THEN t ELSE Take(t, "i32")
      c == Carried(u, Last(i.imm))
  IN IF \E k \in DOMAIN i.imm : i.imm[k] >= Len(t.frames) THEN Wrong(t)
     ELSE IF \E k \in DOMAIN i.imm : Carried(u, i.imm[k]) # c THEN Wrong(t)
     ELSE IF i.op = "br_if" THEN Give(TakeAll(u, c), c) ELSE Kill(TakeAll(u, c))

TypeSelect(t) ==
  LET u == Take(t, "i32")
      a == IF Len(u.ops) > Last(u.frames).base THEN Last(u.ops) ELSE "any"
      w == Take(u, "any")
      b == IF Len(w.ops) > Last(w.frames).base THEN Last(w.ops) ELSE "any"
  IN Give(Take(w, a), <<IF a = "any" THEN b ELSE a>>)

TypeStep(t, i) ==
  CASE ~t.ok                     -> t
    [] i.op \in {"block", "loop"} -> OpenFrame(t, i.op, i.sig)
    [] i.op = "if"               -> OpenFrame(Take(t, "i32"), "if", i.sig)
    [] i.op = "else"             ->
         IF Last(t.frames).op # "if" THEN Wrong(t)
         ELSE LET c == CloseFrame(t)
              IN IF ~c.ok THEN c ELSE OpenFrame(c, "else", Last(t.frames).sig)
    [] i.op = "end"              ->
         IF \/ Len(t.frames) = 1
            \/ Last(t.frames).op = "if" /\ Last(t.frames).sig # Empty
         THEN Wrong(t)
         ELSE LET c == CloseFrame(t)
              IN IF ~c.ok THEN c ELSE Give(c, TypeSeq(Last(t.frames).sig))
    [] i.op \in BranchOps        -> TypeBranch(t, i)
    [] i.op = "return"           -> Kill(TakeAll(t, Self.rets))
    [] i.op = "unreachable"      -> Kill(t)
    [] i.op = "call"             -> Give(TakeAll(t, Reverse(Sigs[i.imm[1]].params)), Sigs[i.imm[1]].rets)
    [] i.op = "drop"             -> Take(t, "any")
    [] i.op = "select"           -> TypeSelect(t)
    [] i.op = "get_local"        -> Give(t, <<LocalTypes[i.imm[1] + 1]>>)
    [] i.op = "set_local"        -> Take(t, LocalTypes[i.imm[1] + 1])
    [] i.op = "tee_local"        -> Give(Take(t, LocalTypes[i.imm[1] + 1]), <<LocalTypes[i.imm[1] + 1]>>)
    [] OTHER                     -> Give(TakeAll(t, Args(i.op)), TypeSeq(Returns(i.op)))

\* A body typed so far that may end here: all blocks closed, the result of
\* the function and nothing else on the stack.
Complete(t) == t.ok /\ Len(t.frames) = 1 /\ CloseFrame(t).ok

-------------------------------------------------------------------------------
(* Execution.  A machine is [status, stack, labels, locals, pc]; a label   *)
(* is [height, sig, start]: where its block began and the height then.     *)

EnterStructured(locals) ==
  [status |-> "run", stack |-> <<>>, labels |-> <<>>, locals |-> locals, pc |-> 1]

\* Nesting of blocks before position k, and the position where the block
\* that starts at k meets its else (or 0) and its end.
Nesting(body, k) ==
  Len(SelectSeq(SubSeq(body, 1, k - 1), LAMBDA i : i.op \in BlockOps))
  - Len(SelectSeq(SubSeq(body, 1, k - 1), LAMBDA i : i.op = "end"))
Partners(body, k, op) ==
  {j \in k + 1 .. Len(body) : body[j].op = op /\ Nesting(body, j) = Nesting(body, k) + 1}
EndOf(body, k)  == Min(Partners(body, k, "end"))
ElseOf(body, k) == LET e == {j \in Partners(body, k, "else") : j < EndOf(body, k)}
                   IN IF e = {} THEN 0 ELSE Min(e)

Return(s) == [s EXCEPT !.status = "done"]

\* Branch to label k: the operands above the height of its block go, except
\* the value the label carries; a loop starts again, a block is left.
Branch(body, s, k) ==
  LET n == Len(s.labels)
      l == s.labels[n - k]
      loop == body[l.start].op = "loop"
      carried == IF loop \/ l.sig = Empty THEN <<>> ELSE <<Last(s.stack)>>
  IN IF k = n THEN Return(s)
     ELSE [s EXCEPT !.stack = SubSeq(@, 1, l.height) \o carried,
                    !.labels = SubSeq(@, 1, IF loop THEN n - k ELSE n - k - 1),
                    !.pc = IF loop THEN l.start + 1 ELSE EndOf(body, l.start) + 1]

OpenLabel(s, i, start) ==
  [s EXCEPT !.labels = Append(@, [height |-> Len(s.stack), sig |-> i.sig, start |-> start])]

\* The effect of instruction i on machine s with pc at i; r is s without the
\* operands v of i and with pc at the next instruction.
StructuredEffect(body, i, s, r, v) ==
  CASE i.op \in {"block", "loop"} -> OpenLabel([s EXCEPT !.pc = @ + 1], i, s.pc)
    [] i.op = "if" ->
         LET e == ElseOf(body, s.pc)
         IN IF v[1] = 0 /\ e = 0 THEN [r EXCEPT !.pc = EndOf(body, s.pc) + 1]
            ELSE OpenLabel([r EXCEPT !.pc = IF v[1] = 0 THEN e + 1 ELSE @], i, s.pc)
    [] i.op = "else"     -> Branch(body, s, 0)
    [] i.op = "end"      -> [r EXCEPT !.labels = Front(@)]
    [] i.op = "br"       -> Branch(body, s, i.imm[1])
    [] i.op = "br_if"    -> IF v[1] = 0 THEN r ELSE Branch(body, r, i.imm[1])
    [] i.op = "br_table" -> Branch(body, r, i.imm[IF v[1] < Len(i.imm) THEN v[1] + 1 ELSE Len(i.imm)])
    [] i.op = "return"   -> Return(s)
    [] i.op = "unreachable" -> [s EXCEPT !.status = "trap"]
    [] i.op = "call"     -> [s EXCEPT !.status = "call"]
    [] i.op \in {"i32.const", "i64.const"} -> [r EXCEPT !.stack = Append(@, i.imm[1])]
    [] i.op = "get_local" -> [r EXCEPT !.stack = Append(@, s.locals[i.imm[1] + 1])]
    [] i.op = "set_local" -> [r EXCEPT !.locals[i.imm[1] + 1] = v[1]]
    [] i.op = "tee_local" -> [r EXCEPT !.locals[i.imm[1] + 1] = v[1], !.stack = Append(@, v[1])]
    [] i.op = "i32.eqz"  -> [r EXCEPT !.stack = Append(@, IF v[1] = 0 THEN 1 ELSE 0)]
    [] i.op = "i32.lt_u" -> [r EXCEPT !.stack = Append(@, IF v[1] < v[2] THEN 1 ELSE 0)]
    [] i.op = "select"   -> [r EXCEPT !.stack = Append(@, IF v[3] # 0 THEN v[1] ELSE v[2])]
    [] OTHER             -> r                                \* drop, nop

Consumes(op) ==
  CASE op \in {"if", "br_if", "br_table", "drop", "set_local", "tee_local", "i32.eqz"} -> 1
    [] op = "i32.lt_u" -> 2
    [] op = "select"   -> 3
    [] OTHER           -> 0

StructuredStep(body, s) ==
  IF s.pc > Len(body) THEN Return(s)
  ELSE LET i == body[s.pc]
           n == Len(s.stack) - Consumes(i.op)
       IN StructuredEffect(body, i, s, [s EXCEPT !.stack = SubSeq(@, 1, n), !.pc = @ + 1],
                           SubSeq(s.stack, n + 1, Len(s.stack)))

\* The host answers a call with the results rs.
StructuredReturns(body, s, rs) ==
  LET n == Len(s.stack) - Len(Sigs[body[s.pc].imm[1]].params)
  IN [s EXCEPT !.status = "run", !.pc = @ + 1, !.stack = SubSeq(@, 1, n) \o rs]

LastVals(s, n) == SubSeq(s.stack, Len(s.stack) - n + 1, Len(s.stack))
StructuredObserve(body, s) ==
  CASE s.status = "call" ->
         LET f == body[s.pc].imm[1]
         IN [kind |-> "call", fn |-> f, vals |-> LastVals(s, Len(Sigs[f].params))]
    [] s.status = "done" -> [kind |-> "done", fn |-> 0, vals |-> LastVals(s, Len(Self.rets))]
    [] OTHER             -> [kind |-> "trap", fn |-> 0, vals |-> <<>>]
===============================================================================
