------------------------------- MODULE WagonExec -------------------------------
(***************************************************************************)
(* The execution loop of wagon/exec over the compiled code of one function *)
(* entered by ExecCode.  A machine is                                      *)
(*     [status |-> "run" | "call" | "done" | "trap",                       *)
(*      arr, len |-> the operand stack, locals, pc |-> index of a cell].   *)
(* The stack is a Go slice: "arr" is the array behind it, of which the     *)
(* first "len" values are the stack.  Cutting the slice to a height below  *)
(* its length forgets nothing, so a NEGATIVE discard makes the slice       *)
(* longer again and brings old values back.                                *)
(* A call of a host function stops the machine ("call") until the host     *)
(* answers; every other instruction is one step.                           *)
(***************************************************************************)
EXTENDS WagonOps

Zeros(n) == [k \in 1 .. n |-> 0]

\* ExecCode: a fresh stack of capacity maxDepth, arguments in the locals.
Enter(maxDepth, locals) ==
  [status |-> "run", arr |-> Zeros(maxDepth), len |-> 0, locals |-> locals, pc |-> 1]

Trap(s) == [s EXCEPT !.status = "trap"]

TopValue(s) == s.arr[s.len]

\* append: past the capacity the array is copied into one twice as long.
PushValue(s, v) ==
  LET room == IF s.len < Len(s.arr) THEN s.arr
              ELSE s.arr \o Zeros(IF s.arr = <<>> THEN 1 ELSE Len(s.arr))
  IN [s EXCEPT !.arr = [room EXCEPT ![s.len + 1] = v], !.len = @ + 1]

\* stack[:len - n]: out of the range of the array is a panic.
Cut(s, n) ==
  IF s.len - n \in 0 .. Len(s.arr) THEN [s EXCEPT !.len = @ - n] ELSE Trap(s)

\* Variant: the value to keep is read after the cut.
CutKeeping_ReadLate(s, n) ==
  LET c == Cut(s, n) IN IF c.status = "trap" \/ c.len = 0 THEN Trap(s) ELSE PushValue(c, TopValue(c))

CutKeeping(s, n) ==
  IF s.len = 0 THEN Trap(s)
  ELSE LET c == Cut(s, n) IN IF c.status = "trap" THEN c ELSE PushValue(c, TopValue(s))

Unwind(s, keep, n) == IF keep THEN CutKeeping(s, n) ELSE Cut(s, n)

\* The values popped by an operator of n operands, the deepest first.
Operands(s, n) == SubSeq(s.arr, s.len - n + 1, s.len)

Goto(code, s, addr) ==
  LET here == {k \in DOMAIN code : code[k].at = addr}
  IN IF here = {} THEN Trap(s)          \* into the middle of an instruction
     ELSE [s EXCEPT !.pc = CHOOSE k \in here : TRUE]

\* Leaving the loop: a function with a result returns the top of the stack.
Leave(s) == IF Self.rets # <<>> /\ s.len = 0 THEN Trap(s) ELSE [s EXCEPT !.status = "done"]

\* Operands an instruction pops before it does anything else.
Pops(op) ==
  CASE op \in {"jmp_z", "jmp_nz", "br_table", "drop", "set_local", "i32.eqz"} -> 1
    [] op = "i32.lt_u" -> 2
    [] op = "select"   -> 3
    [] OTHER           -> 0

\* t is the branch table, label the index popped.
BrTable(prog, s, t, label) ==
  LET x == IF label < Len(t.targets) THEN t.targets[label + 1] ELSE t.default
  IN IF x.return THEN Leave(s)
     ELSE LET u == Unwind(s, x.keep, x.diff)
          IN IF u.status = "trap" THEN u ELSE Goto(prog.code, u, x.addr)

\* The effect of cell c on machine s, from which the operands v were popped
\* and whose pc is past c unless c jumps.
Effect(prog, c, s, v) ==
  CASE c.op = "jmp"          -> Goto(prog.code, s, c.addr)
    [] c.op = "jmp_z"        -> IF v[1] = 0 THEN Goto(prog.code, s, c.addr) ELSE s
    [] c.op = "jmp_nz"       -> IF v[1] = 0 THEN s
                                ELSE LET u == Unwind(s, c.keep, c.diff)
                                     IN IF u.status = "trap" THEN u
                                        ELSE Goto(prog.code, u, c.addr)
    [] c.op = "br_table"     -> BrTable(prog, s, prog.tables[c.imm[1]], v[1])
    [] c.op \in {"discard", "discard_keep"} -> Unwind(s, c.keep, c.diff)
    [] c.op = "return"       -> Leave(s)
    [] c.op = "unreachable"  -> Trap(s)
    [] c.op \in {"i32.const", "i64.const"} -> PushValue(s, c.imm[1])
    [] c.op = "get_local"    -> PushValue(s, s.locals[c.imm[1] + 1])
    [] c.op = "set_local"    -> [s EXCEPT !.locals[c.imm[1] + 1] = v[1]]
    [] c.op = "tee_local"    -> IF s.len = 0 THEN Trap(s)
                                ELSE [s EXCEPT !.locals[c.imm[1] + 1] = TopValue(s)]
    [] c.op = "i32.eqz"      -> PushValue(s, IF v[1] = 0 THEN 1 ELSE 0)
    [] c.op = "i32.lt_u"     -> PushValue(s, IF v[1] < v[2] THEN 1 ELSE 0)
    [] c.op = "select"       -> PushValue(s, IF v[3] # 0 THEN v[1] ELSE v[2])
    [] OTHER                 -> s                            \* drop, nop

\* One iteration of the loop of execCode.
Exec(prog, s) ==
  LET c == prog.code[s.pc]
      n == Pops(c.op)
  IN IF s.pc > Len(prog.code) THEN Leave(s)
     ELSE IF c.op = "call"
     THEN IF s.len < Len(Sigs[c.imm[1]].params) THEN Trap(s) ELSE [s EXCEPT !.status = "call"]
     ELSE IF s.len < n THEN Trap(s)
     ELSE Effect(prog, c, [s EXCEPT !.len = @ - n, !.pc = @ + 1], Operands(s, n))

\* goFunction.call: the host takes its arguments off the stack and its
\* results, the sequence rs, are pushed.
HostReturns(prog, s, rs) ==
  LET f == prog.code[s.pc].imm[1]
      t == [s EXCEPT !.status = "run", !.pc = @ + 1, !.len = @ - Len(Sigs[f].params)]
  IN FoldLeft(PushValue, t, rs)

\* What the outside sees of a machine that is not running.
Observe(prog, s) ==
  CASE s.status = "call" ->
         LET f == prog.code[s.pc].imm[1]
         IN [kind |-> "call", fn |-> f, vals |-> Operands(s, Len(Sigs[f].params))]
    [] s.status = "done" ->
         [kind |-> "done", fn |-> 0, vals |-> Operands(s, Len(Self.rets))]
    [] OTHER -> [kind |-> "trap", fn |-> 0, vals |-> <<>>]
===============================================================================
