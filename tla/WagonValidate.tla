----------------------------- MODULE WagonValidate -----------------------------
(***************************************************************************)
(* The body verifier of wagon/validate: a mock machine that reads a body   *)
(* once, keeping the types on the operand stack and the open blocks.       *)
(* VerifyOp is one iteration of the loop of verifyBody.                    *)
(*                                                                         *)
(* The operand stack is an array and an index: popOperand only moves the   *)
(* index, so a later reset of the index to the height of a block can       *)
(* uncover the types that were written above it.                           *)
(***************************************************************************)
EXTENDS WagonOps

\* The mock machine: status is "ok" until an error is returned, or the
\* verifier itself panics.
InitMock == [status |-> "ok", stack |-> <<>>, top |-> 0,
             poly |-> FALSE, blocks |-> <<>>]

Fail(m)  == [m EXCEPT !.status = "error"]
Crash(m) == [m EXCEPT !.status = "panic"]

IsPoly(m) == IF m.blocks = <<>> THEN m.poly ELSE Last(m.blocks).poly

SetPoly(m) == IF m.blocks = <<>> THEN [m EXCEPT !.poly = TRUE]
              ELSE [m EXCEPT !.blocks[Len(m.blocks)].poly = TRUE]

\* The type on top, or "none" on underflow.
TopType(m) == IF m.top = 0 THEN "none" ELSE m.stack[m.top]

PopType(m) == [m EXCEPT !.top = IF m.top = 0 THEN 0 ELSE @ - 1]

PushType(m, t) ==
  [m EXCEPT !.top = @ + 1,
            !.stack = IF m.top = Len(@) THEN Append(@, t)
                      ELSE [@ EXCEPT ![m.top + 1] = t]]

\* Pop an operand of type t; in a polymorphic block anything will do.
PopExpect(m, t) ==
  IF m.status # "ok" THEN m
  ELSE IF IsPoly(m) \/ TopType(m) = t THEN PopType(m) ELSE Fail(m)

PopAll(m, ts) == FoldLeft(PopExpect, m, ts)
PushAll(m, ts) == FoldLeft(PushType, m, ts)

AdjustStack(m, op) ==
  LET popped == PopAll(m, Args(op))
  IN IF popped.status # "ok" \/ Returns(op) = Empty THEN popped
     ELSE PushType(popped, Returns(op))

PushBlock(m, i) ==
  [m EXCEPT !.blocks = Append(@, [op |-> i.op, sig |-> i.sig, top |-> m.top,
                                  poly |-> IsPoly(m)])]

\* Variant: a branch to a loop is taken to carry the result of the loop.
LabelType_LoopCarries(m, d) ==
  LET n == Len(m.blocks)
  IN IF d = n THEN (IF Self.rets = <<>> THEN Empty ELSE Self.rets[1]) ELSE m.blocks[n - d].sig

\* The value a branch to label d carries: none to a loop, the result of the
\* function for the outermost label.
LabelType(m, d) ==
  LET n == Len(m.blocks)
  IN IF d = n THEN (IF Self.rets = <<>> THEN Empty ELSE Self.rets[1])
     ELSE IF m.blocks[n - d].op = "loop" THEN Empty
     ELSE m.blocks[n - d].sig

CanBranch(m, d) == /\ d <= Len(m.blocks)
                   /\ LabelType(m, d) \in {Empty, TopType(m)}

VerifyBranch(m, i) ==
  LET popped == IF i.op = "br_table" THEN PopExpect(m, "i32") ELSE m
      bad    == ~IsPoly(m) /\ \E k \in DOMAIN i.imm : ~CanBranch(popped, i.imm[k])
  IN IF popped.status # "ok" \/ bad THEN Fail(popped)
     ELSE IF i.op = "br_if" THEN popped ELSE SetPoly(popped)

\* The then-branch must leave its result on top; the index goes back to the
\* height of the block.  The block stays polymorphic if the then-branch
\* made it so.
VerifyElse(m) ==
  LET b == Last(m.blocks)
  IN IF m.blocks = <<>> \/ b.op # "if" THEN Fail(m)
     ELSE IF b.sig = Empty THEN [m EXCEPT !.top = b.top]
     ELSE IF ~IsPoly(m) /\ TopType(m) # b.sig THEN Fail(m)
     ELSE [PushType(m, b.sig) EXCEPT !.top = b.top]

VerifyEnd(m) ==
  LET b      == Last(m.blocks)
      popped == [m EXCEPT !.blocks = Front(@)]
  IN IF m.blocks = <<>> THEN Fail(m)
     ELSE IF b.sig = Empty THEN [popped EXCEPT !.top = b.top]
     ELSE IF ~IsPoly(m) /\ TopType(m) # b.sig THEN Fail(m)
     ELSE PushType([popped EXCEPT !.top = b.top], b.sig)

VerifyLocal(m, i) ==
  IF i.imm[1] >= Len(LocalTypes) THEN Fail(m)
  ELSE LET t == LocalTypes[i.imm[1] + 1]
       IN CASE i.op = "get_local" -> PushType(m, t)
            [] i.op = "set_local" -> PopExpect(m, t)
            [] i.op = "tee_local" ->
                 LET p == PopExpect(m, t)
                 IN IF p.status = "ok" THEN PushType(p, t) ELSE p

VerifyCall(m, f) ==
  IF f \notin DOMAIN Sigs THEN Fail(m)
  ELSE LET p == PopAll(m, Reverse(Sigs[f].params))
       IN IF p.status = "ok" THEN PushAll(p, Sigs[f].rets) ELSE p

\* In a polymorphic block select is skipped altogether.  The error for two
\* operands of different types indexes past the slice that holds them.
VerifySelect(m) ==
  IF IsPoly(m) THEN m
  ELSE LET cond  == PopExpect(m, "i32")
           first == PopType(cond)
       IN IF cond.status # "ok" \/ cond.top < 2 THEN Fail(cond)
          ELSE IF TopType(cond) # TopType(first) THEN Crash(first)
          ELSE PushType(PopType(first), TopType(first))

VerifyOp(m, i) ==
  LET a == IF i.op \in Polymorphic THEN m ELSE AdjustStack(m, i.op)
  IN IF a.status # "ok" THEN a
     ELSE CASE i.op \in BlockOps        -> PushBlock(a, i)
            [] i.op \in BranchOps       -> VerifyBranch(a, i)
            [] i.op = "else"            -> VerifyElse(a)
            [] i.op = "end"             -> VerifyEnd(a)
            [] i.op = "return"          ->
                 LET p == PopAll(a, Self.rets)
                 IN IF p.status = "ok" THEN SetPoly(p) ELSE p
            [] i.op = "unreachable"     -> SetPoly(a)
            [] i.op = "call"            -> VerifyCall(a, i.imm[1])
            [] i.op = "drop"            ->
                 IF ~IsPoly(a) /\ a.top = 0 THEN Fail(a) ELSE PopType(a)
            [] i.op = "select"          -> VerifySelect(a)
            [] i.op \in {"get_local", "set_local", "tee_local"} -> VerifyLocal(a, i)
            [] OTHER                    -> a

\* verifyBody on a whole body: no check at the end of the body, neither that
\* every block is closed nor that the result of the function is on top.
VerifyBody(body) == FoldLeft(VerifyOp, InitMock, body)
===============================================================================
