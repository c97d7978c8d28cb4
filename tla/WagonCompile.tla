----------------------------- MODULE WagonCompile ------------------------------
(***************************************************************************)
(* The disassembler of wagon/disasm: one pass over a body that computes    *)
(* the operand-stack height before every instruction, and from it how many *)
(* operands each branch and each end of a block must discard.              *)
(*                                                                         *)
(* Heights are kept per open block in the stack "depths" (its bottom is    *)
(* the function body).  "dead" is blockPolymorphicOps: for the function    *)
(* body and every block that was REACHABLE when it was opened, whether an  *)
(* instruction after which nothing is reached was seen in it.  Heights     *)
(* are Go uint64 values that wrap below zero and are read back as int, so  *)
(* they are integers here.  The positions of "opens" count from 1.         *)
(***************************************************************************)
EXTENDS WagonOps

\* A *StackInfo is a sequence of at most one record; <<>> is nil.
NoInfo == <<>>
Info(diff, keep) == <<[diff |-> diff, keep |-> keep]>>

InitDisasm == [status |-> "ok", code |-> <<>>, depths |-> <<0>>, opens |-> <<>>,
               dead |-> <<FALSE>>, max |-> 0, lastReturn |-> FALSE]

Depth(d)         == Last(d.depths)
Parent(s)        == Len(s) - 1
SetDepth(d, n)   == [d EXCEPT !.depths = Append(Front(@), n)]
CheckMax_Forgotten(d) == d   \* variant: only ends of blocks are counted
CheckMax(d)      == [d EXCEPT !.max = IF Depth(d) > @ THEN Depth(d) ELSE @]
Underflow(d)     == [d EXCEPT !.status = "underflow"]
MarkDead(d)      == [d EXCEPT !.dead = Append(Front(@), TRUE)]

\* An end or an else is reached iff its block was when it was opened;
\* another instruction iff no earlier one of its block diverts control.
Unreachable(d, i) ==
  IF i.op \in {"end", "else"} THEN Len(d.opens) # Len(d.dead) - 1
  ELSE Last(d.dead)

Annotate(i, unreachable) ==
  [op |-> i.op, sig |-> i.sig, imm |-> i.imm, unreachable |-> unreachable,
   stack |-> NoInfo, return |-> FALSE, start |-> 0, branches |-> <<>>]

\* What it takes to leave the block with label k: the operands above the
\* height at which it was opened go, except a result.  A label one past the
\* open blocks returns from the function; a larger one indexes out of range.
UnwindTo(d, k) ==
  LET n == Len(d.opens)
  IN IF k = n THEN [return |-> TRUE, diff |-> 0, keep |-> FALSE]
     ELSE [return |-> FALSE,
           diff |-> Depth(d) - d.depths[Len(d.depths) - 1 - k],
           keep |-> d.code[d.opens[n - k]].sig # Empty]

\* The first target that cannot be unwound to ends the disassembly.
DisasmBranch(d, a) ==
  LET t      == IF a.op = "br_table" /\ ~a.unreachable THEN SetDepth(d, Depth(d) - 1) ELSE d
      far(k) == a.imm[k] > Len(d.opens)
      bad    == {k \in DOMAIN a.imm : far(k) \/ UnwindTo(t, a.imm[k]).diff < 0}
      infos  == [k \in DOMAIN a.imm |-> UnwindTo(t, a.imm[k])]
      out    == CASE a.op = "br_table" -> [a EXCEPT !.branches = infos]
                  [] infos[1].return   -> [a EXCEPT !.return = TRUE]
                  [] OTHER -> [a EXCEPT !.stack = Info(infos[1].diff, infos[1].keep)]
      done   == [t EXCEPT !.code = Append(@, out)]
  IN IF bad # {} THEN [d EXCEPT !.status = IF far(Min(bad)) THEN "panic" ELSE "underflow"]
     ELSE IF a.op = "br_if" THEN done ELSE MarkDead(done)

\* End or else of a block.  The else-branch starts with a fresh height of 0.
DisasmClose(d, a) ==
  LET start   == Last(d.opens)
      sig     == d.code[start].sig
      prev    == d.depths[Parent(d.depths)]
      typed   == a.op = "end" /\ sig # Empty /\ ~a.unreachable
      parents == Append(Front(Front(d.depths)), IF typed THEN prev + 1 ELSE prev)
      diff    == Depth(d) - prev
      info    == IF d.lastReturn THEN Info(0, FALSE) ELSE Info(diff, sig # Empty)
      closed  == [d EXCEPT
                    !.max    = IF typed /\ prev + 1 > @ THEN prev + 1 ELSE @,
                    !.code   = Append([@ EXCEPT ![start].stack = info],
                                      [a EXCEPT !.stack = info, !.sig = sig, !.start = start]),
                    !.dead   = IF a.unreachable THEN @ ELSE Front(@),
                    !.depths = parents,
                    !.opens  = Front(@)]
  IN IF ~d.lastReturn /\ diff < -1 THEN Underflow(d)
     ELSE IF a.op = "end" THEN closed
     ELSE [closed EXCEPT !.depths = Append(@, 0),
                         !.opens  = Append(@, Len(d.code) + 1),
                         !.dead   = IF a.unreachable THEN @ ELSE Append(@, FALSE)]

DisasmOpen(d, a) ==
  [d EXCEPT !.depths = Append(@, Depth(d)),
            !.opens  = Append(@, Len(d.code) + 1),
            !.dead   = IF a.unreachable THEN @ ELSE Append(@, FALSE),
            !.code   = Append(@, a)]

\* Height an instruction of variable arity adds, when it is reachable.
Delta(i) ==
  CASE i.op = "drop"                       -> -1
    [] i.op = "select"                     -> -2
    [] i.op = "return"                     -> -Len(Self.rets)
    [] i.op = "call"                       -> Len(Sigs[i.imm[1]].rets) - Len(Sigs[i.imm[1]].params)
    [] i.op = "get_local"                  -> 1
    [] i.op = "set_local"                  -> -1
    [] OTHER                               -> 0

\* The effect of the operator on the height, counted when it is reachable;
\* a fixed-arity operator is counted from the operator table.
Count(d, i) ==
  LET popped == Depth(d) - Len(Args(i.op))
      fixed  == CheckMax(SetDepth(d, popped + (IF Returns(i.op) = Empty THEN 0 ELSE 1)))
      varied == SetDepth(d, Depth(d) + Delta(i))
  IN IF Unreachable(d, i) THEN d
     ELSE IF i.op \in Polymorphic
          THEN IF i.op \in {"call", "get_local"} THEN CheckMax(varied) ELSE varied
     ELSE IF popped < -1 THEN Underflow(d) ELSE fixed

\* One iteration of the loop of Disassemble.
DisasmOp(d, i) ==
  LET a    == Annotate(i, Unreachable(d, i))
      c    == Count(d, i)
      done == CASE c.status # "ok"        -> c
                [] i.op \in BranchOps     -> DisasmBranch(c, a)
                [] i.op \in {"end", "else"} -> DisasmClose(c, a)
                [] i.op \in BlockOps      -> DisasmOpen(c, a)
                [] i.op \in {"return", "unreachable"} ->
                     MarkDead([c EXCEPT !.code = Append(@, a)])
                [] OTHER                  -> [c EXCEPT !.code = Append(@, a)]
  IN IF d.status # "ok" THEN d ELSE [done EXCEPT !.lastReturn = (i.op = "return")]

Disassemble(body) == FoldLeft(DisasmOp, InitDisasm, body)

(***************************************************************************)
(* The compiler of wagon/exec/internal/compile and the branch tables of    *)
(* wagon/sea: structured code becomes a flat list of cells                 *)
(*     [at |-> byte address, op, imm, addr |-> jump address,               *)
(*      keep |-> preserve the top, diff |-> operands to discard].          *)
(* Jump addresses are written as 0 and patched when the block they leave   *)
(* ends.  A target of a branch table holds its LABEL until then, in the    *)
(* same field, and patching tells the two apart by value.                  *)
(***************************************************************************)
\* Bytes of an instruction in compiled code.
Size(op) ==
  CASE op = "jmp_nz"                           -> 18
    [] op \in {"jmp", "jmp_z", "discard", "discard_keep", "i64.const"} -> 9
    [] op \in {"i32.const", "call", "get_local", "set_local", "tee_local"} -> 5
    [] OTHER                                   -> 1

\* The table index is followed by the opcode and the immediates of the
\* br_table, which are never executed.
SizeOfTable(n) == 9 + 1 + 4 * (n + 1)

NewBlock(isIf, isLoop, offset, elseAt) ==
  [isIf |-> isIf, isLoop |-> isLoop, offset |-> offset, elseAt |-> elseAt,
   patches |-> <<>>, tables |-> <<>>]

\* "blocks" maps nesting depths, from -1, to blocks: depth k is at k + 2.
InitCompile == [status |-> "ok", code |-> <<>>, len |-> 0, tables |-> <<>>,
                blocks |-> <<NewBlock(FALSE, FALSE, 0, 0)>>]

CurDepth(c) == Len(c.blocks) - 2

Emit(c, op, imm, keep, diff) ==
  [c EXCEPT !.code = Append(@, [at |-> c.len, op |-> op, imm |-> imm, addr |-> 0,
                                keep |-> keep, diff |-> diff]),
            !.len  = @ + Size(op)]

\* "info" is the stack annotation of an instruction, <<>> when it has none.
EmitDiscard(c, info) ==
  IF info = <<>> \/ info[1].diff = 0 THEN c
  ELSE Emit(c, IF info[1].keep THEN "discard_keep" ELSE "discard", <<>>,
            info[1].keep, info[1].diff)

PatchOffset(code, cell, addr) == [code EXCEPT ![cell].addr = addr]

\* The jump just emitted is to be patched when the block with label k ends.
PatchLater(c, k) ==
  [c EXCEPT !.blocks[Len(c.blocks) - k].patches = Append(@, Len(c.code))]

\* PatchTable: label becomes addr in every target that still is a label;
\* "already an address" means equal to one patched in before.  The default
\* target is compared with the label alone.
PatchTable(t, label, addr) ==
  LET isAddr(a) == a \in t.patched
      Patch(x)  == IF ~isAddr(x.addr) /\ x.addr = label THEN [x EXCEPT !.addr = addr] ELSE x
  IN [t EXCEPT !.targets = [k \in DOMAIN @ |-> Patch(@[k])],
               !.default = IF @.addr = label THEN [@ EXCEPT !.addr = addr] ELSE @,
               !.patched = @ \cup {addr}]

\* Variant: the label of a block is its start, as that of a loop.
CompileOpen_BlocksLoop(c, i) ==
  IF i.op = "if"
  THEN LET j == Emit(c, "jmp_z", <<>>, FALSE, 0)
       IN [j EXCEPT !.blocks = Append(@, NewBlock(TRUE, FALSE, 0, Len(j.code)))]
  ELSE [c EXCEPT !.blocks = Append(@, NewBlock(FALSE, TRUE, c.len, 0))]

CompileOpen(c, i) ==
  IF i.op = "if"
  THEN LET j == Emit(c, "jmp_z", <<>>, FALSE, 0)
       IN [j EXCEPT !.blocks = Append(@, NewBlock(TRUE, FALSE, 0, Len(j.code)))]
  ELSE [c EXCEPT !.blocks = Append(@, NewBlock(FALSE, i.op = "loop",
                                               IF i.op = "loop" THEN c.len ELSE 0, 0))]

\* Variant: a false condition lands on the jump that ends the then-branch.
CompileElse_AtJump(c, ifInstr) ==
  LET d == EmitDiscard(c, ifInstr.stack)
      j == Emit(d, "jmp", <<>>, FALSE, 0)
      b == Last(j.blocks)
  IN [j EXCEPT !.code = PatchOffset(@, b.elseAt, d.len),
               !.blocks[Len(j.blocks)].isIf = FALSE,
               !.blocks[Len(j.blocks)].patches = Append(@, Len(j.code))]

\* The then-branch discards as its own end would and jumps over the else.
CompileElse(c, ifInstr) ==
  LET j == Emit(EmitDiscard(c, ifInstr.stack), "jmp", <<>>, FALSE, 0)
      b == Last(j.blocks)
  IN [j EXCEPT !.code = PatchOffset(@, b.elseAt, j.len),
               !.blocks[Len(j.blocks)].isIf = FALSE,
               !.blocks[Len(j.blocks)].patches = Append(@, Len(j.code))]

CompileEnd(c, i) ==
  LET d      == EmitDiscard(c, i.stack)
      b      == Last(d.blocks)
      offset == IF b.isLoop THEN b.offset ELSE d.len
      waits  == IF b.isIf THEN Append(b.patches, b.elseAt) ELSE b.patches
      mine   == ToSet(b.tables)
  IN [d EXCEPT
        !.code   = [k \in DOMAIN @ |-> IF k \in ToSet(waits) THEN [@[k] EXCEPT !.addr = offset]
                                       ELSE @[k]],
        !.tables = [k \in DOMAIN @ |-> IF k \in mine
                                       THEN PatchTable(@[k], @[k].blocksLen - CurDepth(d) - 1, offset)
                                       ELSE @[k]],
        !.blocks = Front(@)]

CompileBr_NoDiscard(c, i) ==     \* variant: jump without discarding
  PatchLater(Emit(c, "jmp", <<>>, FALSE, 0), i.imm[1])

CompileBr(c, i) ==
  PatchLater(Emit(EmitDiscard(c, i.stack), "jmp", <<>>, FALSE, 0), i.imm[1])

\* The number of operands to discard is written only when a result is kept.
CompileBrIf(c, i) ==
  LET keep == i.stack # <<>> /\ i.stack[1].keep /\ i.stack[1].diff # 0
  IN PatchLater(Emit(c, "jmp_nz", <<>>, keep, IF keep THEN i.stack[1].diff ELSE 0), i.imm[1])

CompileBrTable(c, i) ==
  LET Target(k) == [addr |-> i.imm[k], return |-> i.branches[k].return,
                    diff |-> i.branches[k].diff, keep |-> i.branches[k].keep]
      n     == Len(i.imm)
      table == [targets |-> [k \in 1 .. n - 1 |-> Target(k)], default |-> Target(n),
                blocksLen |-> Len(c.blocks) - 1, patched |-> {}]
      index == Len(c.tables) + 1
      e     == Emit(c, "br_table", <<index>>, FALSE, 0)
  IN [e EXCEPT !.len    = c.len + SizeOfTable(n),
               !.tables = Append(@, table),
               !.blocks = [k \in DOMAIN @ |-> [@[k] EXCEPT !.tables = Append(@, index)]]]

\* One iteration of the loop of Compile, over the disassembly dis.  A block
\* or loop that never ends has no stack annotation to read.
CompileOp(dis, c, i) ==
  CASE i.unreachable \/ c.status # "ok" -> c
    [] i.op \in {"block", "loop"} /\ i.stack = <<>> -> [c EXCEPT !.status = "panic"]
    [] i.op \in BlockOps   -> CompileOpen(c, i)
    [] i.op = "else"       -> CompileElse(c, dis[i.start])
    [] i.op = "end"        -> CompileEnd(c, i)
    [] i.op = "br"         -> CompileBr(c, i)
    [] i.op = "br_if"      -> CompileBrIf(c, i)
    [] i.op = "br_table"   -> CompileBrTable(c, i)
    [] OTHER               -> Emit(c, i.op, i.imm, FALSE, 0)

CompileBody(dis) ==
  LET Step(c, i) == CompileOp(dis, c, i) IN FoldLeft(Step, InitCompile, dis)

\* A final nop is where a branch out of the function lands.
Compile(dis) ==
  LET c    == CompileBody(dis)
      done == Emit(c, "nop", <<>>, FALSE, 0)
  IN IF c.status # "ok" THEN c
     ELSE [done EXCEPT
             !.code   = [k \in DOMAIN @ |-> IF k \in ToSet(c.blocks[1].patches)
                                            THEN [@[k] EXCEPT !.addr = c.len] ELSE @[k]],
             !.tables = [k \in DOMAIN @ |-> [@[k] EXCEPT !.patched = {}]]]
==============================================================================
