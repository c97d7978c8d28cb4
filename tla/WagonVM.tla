------------------------------- MODULE WagonVM -------------------------------
(***************************************************************************)
(* The life of a wagon VM (src/wagon/exec): an embedder calls ExecCode,    *)
(* one function runs in the context of the VM, calls suspend their callers *)
(* and returns resume them, host functions may call Terminate, and a trap  *)
(* unwinds through the deferred functions of every call.                   *)
(*                                                                         *)
(* The bodies are open: a function may take any operand from its stack,    *)
(* push any value, call, leave its loop or trap at any point, as code that *)
(* compile.go gets wrong does too.  The operands are a Go slice: contexts  *)
(* name the array behind it, and a value that is pushed is written into    *)
(* the array, for every context that shares it, or moved with the rest to  *)
(* an array of its own.                                                    *)
(***************************************************************************)
EXTENDS Integers, Sequences, SequencesExt

CONSTANTS
  Funcs,         \* functions with compiled code
  Empty,         \* those of them whose code is empty
  Hosts,         \* host functions
  Args,          \* Args[f]: the number of parameters of f
  Returns,       \* Returns[f]: 1 if f has a result, otherwise 0
  MaxDepth,      \* MaxDepth[f]: maxDepth of the compiled function
  Values,        \* operands
  Zero,          \* the operand that make() fills a stack with
  Arrays,        \* arrays of operands
  MaxCallDepth,  \* recursive calls allowed (1024)
  MaxExecs,      \* bound: ExecCode calls
  MaxOver        \* bound: operands pushed past maxDepth

ASSUME SignatureAssumption ==
  /\ Args \in [Funcs \cup Hosts -> Nat]
  /\ Returns \in [Funcs \cup Hosts -> {0, 1}]
  /\ MaxDepth \in [Funcs -> Nat]
ASSUME OperandAssumption == Zero \in Values /\ Arrays # {}
ASSUME LimitAssumption == MaxCallDepth \in Nat /\ MaxExecs \in Nat /\ MaxOver \in Nat
ASSUME NoFunctionAssumption == "none" \notin Funcs

VARIABLES
  running,   \* execCode is on the Go stack
  ctx,       \* vm.ctx: curFunc, the array behind stack, and what stack shows
  callers,   \* the contexts saved by compiledFunction.call, outermost first
  depth,     \* vm.recursiveCallDepth
  abort,     \* vm.abort
  outcome,   \* how the last ExecCode ended
  execs,     \* ExecCode calls
  kept       \* history: what each suspended caller had on its stack

vars == <<running, ctx, callers, depth, abort, outcome, execs, kept>>

Contexts == [fn : Funcs \cup {"none"}, array : Arrays, stack : Seq(Values)]
Height == Len(ctx.stack)
Suspended == Len(callers)
Cut(c, h) == [c EXCEPT !.stack = SubSeq(@, 1, h)]
Blank(n) == [i \in 1..n |-> Zero]

InUse == {ctx.array} \cup {callers[i].array : i \in 1..Len(callers)}
NewArray == CHOOSE a \in Arrays : a \notin InUse
HasNewArray == \E a \in Arrays : a \notin InUse

-----------------------------------------------------------------------------

\* v in place n of an array: what the context c shows of it changes.
Overwrite(c, array, n, v) ==
  IF c.array = array /\ n <= Len(c.stack) THEN [c EXCEPT !.stack[n] = v] ELSE c

\* append: into the array, while it has room, or into a new and larger one.
PushOn(c, suspended, v) ==
  \/ /\ ctx' = [c EXCEPT !.stack = Append(@, v)]
     /\ callers' = [i \in 1..Len(suspended) |->
                      Overwrite(suspended[i], c.array, Len(c.stack) + 1, v)]
  \/ /\ HasNewArray
     /\ ctx' = [c EXCEPT !.stack = Append(@, v), !.array = NewArray]
     /\ callers' = suspended

\* Variant: the check of recursiveCallDepth is missing.
Executes_Unlimited == running /\ ~abort /\ ctx.fn \notin Empty

\* Variant: the loop looks at abort only where the module was entered.
Executes_OutermostOnly ==
  /\ running /\ ~(abort /\ callers = <<>>) /\ depth <= MaxCallDepth
  /\ ctx.fn \notin Empty

\* The loop of execCode goes on to the next instruction of the function.
Executes == running /\ ~abort /\ depth <= MaxCallDepth /\ ctx.fn \notin Empty

\* ExecCode: a stack that is long enough is kept, with what is left on it.
ExecCode(f) ==
  /\ ~running
  /\ execs < MaxExecs
  /\ execs' = execs + 1
  /\ running' = TRUE
  /\ IF Height < MaxDepth[f]
       THEN HasNewArray /\ ctx' = [fn |-> f, array |-> NewArray, stack |-> <<>>]
       ELSE ctx' = [ctx EXCEPT !.fn = f]
  /\ outcome' = "none"
  /\ UNCHANGED <<callers, depth, abort, kept>>

\* ExecCode returns an error or panics before it runs anything: the index is
\* out of range, names a host function, or the arguments are too many or few.
ExecRefused ==
  /\ ~running
  /\ execs < MaxExecs
  /\ execs' = execs + 1
  /\ outcome' \in {"error", "panic"}
  /\ UNCHANGED <<running, ctx, callers, depth, abort, kept>>

ResetContext ==
  /\ ~running
  /\ HasNewArray
  /\ ctx' = [fn |-> "none", array |-> NewArray, stack |-> <<>>]
  /\ UNCHANGED <<running, callers, depth, abort, outcome, execs, kept>>

\* The room left by the bound on operands.
Room(h) == h < MaxDepth[ctx.fn] + MaxOver

\* An instruction that takes operands and pushes a result, or none.
Instruction ==
  /\ Executes
  /\ \E h \in 0..Height :
       \/ ctx' = Cut(ctx, h) /\ UNCHANGED callers
       \/ /\ Room(h)
          /\ \E v \in Values : PushOn(Cut(ctx, h), callers, v)
  /\ UNCHANGED <<running, depth, abort, outcome, execs, kept>>

CanCall(g) ==
  /\ Executes /\ Height >= Args[g]
  /\ Returns[g] = 1 => Room(Height - Args[g])

AfterPops(g) == Cut(ctx, Height - Args[g])

\* Variant: a stack that is long enough is kept, as ExecCode does.
NewStack_Kept(g) ==
  IF Height - Args[g] < MaxDepth[g]
    THEN [fn |-> g, array |-> NewArray, stack |-> Blank(MaxDepth[g])]
    ELSE [AfterPops(g) EXCEPT !.fn = g]

\* The context of a call: its stack is as long as maxDepth from the start.
NewStack(g) == [fn |-> g, array |-> NewArray, stack |-> Blank(MaxDepth[g])]

\* compiledFunction.call: the context of the caller is saved by value.
Call(g) ==
  /\ CanCall(g)
  /\ HasNewArray
  /\ callers' = Append(callers, AfterPops(g))
  /\ kept' = Append(kept, AfterPops(g).stack)
  /\ ctx' = NewStack(g)
  /\ depth' = depth + 1
  /\ UNCHANGED <<running, abort, outcome, execs>>

\* Variant: without the deferred function a panic keeps the levels.
Unwind_KeepsDepth(h) ==
  /\ running' = FALSE
  /\ ctx' = Cut(ctx, h)
  /\ callers' = <<>> /\ kept' = <<>>
  /\ depth' = depth
  /\ outcome' = "panic"

\* A panic: the deferred function of every call takes its level back; the
\* context stays that of the function that trapped.
Unwind(h) ==
  /\ running' = FALSE
  /\ ctx' = Cut(ctx, h)
  /\ callers' = <<>> /\ kept' = <<>>
  /\ depth' = depth - Suspended
  /\ outcome' = "panic"

\* goFunction.call: the host function may call Terminate, and may panic.
CallHost(h) ==
  /\ CanCall(h)
  /\ abort' \in {abort, TRUE}
  /\ \/ /\ IF Returns[h] = 1
             THEN \E v \in Values : PushOn(AfterPops(h), callers, v)
             ELSE ctx' = AfterPops(h) /\ UNCHANGED callers
        /\ UNCHANGED <<running, depth, outcome, kept>>
     \/ Unwind(Height - Args[h])
  /\ UNCHANGED execs

\* An instruction traps, with its operands popped or not.
Trap ==
  /\ Executes
  /\ \E h \in 0..Height : Unwind(h)
  /\ UNCHANGED <<abort, execs>>

\* The check at the head of the loop: too many calls are in progress.
TooDeep ==
  /\ running /\ ~abort /\ depth > MaxCallDepth /\ ctx.fn \notin Empty
  /\ Unwind(Height)
  /\ UNCHANGED <<abort, execs>>

\* Variant: a body that loops does not notice abort.
Leaves_IgnoresAbort == running /\ ~abort /\ depth <= MaxCallDepth

\* execCode leaves its loop: at a return, at the end of the code (before any
\* check when the code is empty), or because of abort.
Leaves == running /\ (abort \/ depth <= MaxCallDepth \/ ctx.fn \in Empty)

\* The result is whatever lies on top; on an empty stack reading it panics.
ResultMissing == Returns[ctx.fn] = 1 /\ ctx.stack = <<>>
NoResult ==
  /\ Leaves /\ ResultMissing
  /\ Unwind(0)
  /\ UNCHANGED <<abort, execs>>

\* compiledFunction.call goes on: the caller is resumed with the result.
Return ==
  /\ Leaves /\ ~ResultMissing
  /\ callers # <<>>
  /\ IF Returns[ctx.fn] = 1
       THEN PushOn(Last(callers), Front(callers), Last(ctx.stack))
       ELSE ctx' = Last(callers) /\ callers' = Front(callers)
  /\ kept' = Front(kept)
  /\ depth' = depth - 1
  /\ UNCHANGED <<running, abort, outcome, execs>>

\* ExecCode goes on: the result is read and stays on the stack.
Finish ==
  /\ Leaves /\ ~ResultMissing
  /\ callers = <<>>
  /\ running' = FALSE
  /\ outcome' = "returned"
  /\ UNCHANGED <<ctx, callers, depth, abort, execs, kept>>

Init ==
  /\ running = FALSE
  /\ ctx = [fn |-> "none", array |-> CHOOSE a \in Arrays : TRUE, stack |-> <<>>]
  /\ callers = <<>> /\ kept = <<>>
  /\ depth = 0 /\ abort = FALSE
  /\ outcome = "none" /\ execs = 0

Next ==
  \/ \E f \in Funcs : ExecCode(f) \/ Call(f)
  \/ \E h \in Hosts : CallHost(h)
  \/ ExecRefused \/ ResetContext
  \/ Instruction \/ Trap \/ TooDeep \/ NoResult \/ Return \/ Finish

\* The goroutine that runs execCode goes on: what it has to do next, it does.
Fairness == WF_vars(running /\ abort /\ (NoResult \/ Return \/ Finish))

Spec == Init /\ [][Next]_vars /\ Fairness

-----------------------------------------------------------------------------

\* TypeOK: the variables have their types; a function of the module runs, and
\* every suspended context is one of its functions (func.go:82-111).
TypeOK ==
  /\ running \in BOOLEAN /\ abort \in BOOLEAN
  /\ ctx \in Contexts
  /\ running => ctx.fn \in Funcs
  /\ callers \in Seq(Contexts)
  /\ \A i \in 1..Len(callers) : callers[i].fn \in Funcs
  /\ kept \in Seq(Seq(Values)) /\ Len(kept) = Len(callers)
  /\ depth \in Nat /\ execs \in Nat
  /\ outcome \in {"none", "returned", "error", "panic"}

\* DepthExact: recursiveCallDepth is the number of calls in progress, also
\* after a trap in the middle of them and after Terminate; otherwise the limit
\* would bite earlier in every later ExecCode (func.go:83-84, vm.go:276-287).
DepthExact ==
  /\ depth = Len(callers)
  /\ ~running => callers = <<>>

\* DepthBounded: the recursion check stops every chain of calls, one call past
\* the limit it names (vm.go:333-335).
DepthBounded == depth <= MaxCallDepth + 1

\* CallersResumed: a caller goes on with the very operands it had when it
\* called, and the callee's result on top if there is one, whatever the
\* callees in between pushed, discarded or left on their own stacks, and also
\* when code discards below where its own operands start (func.go:85-110).
CallersResumed ==
  [][ Len(callers') < Len(callers) /\ running'
        => /\ Len(callers') = Len(callers) - 1
           /\ ctx'.fn = callers[Len(callers)].fn
           /\ ctx'.stack = kept[Len(callers)] \o
                             (IF Returns[ctx.fn] = 1 THEN <<ctx.stack[Height]>> ELSE <<>>)
    ]_vars

\* TerminateStops: once Terminate was called no function of the module executes
\* another instruction: calls only return (vm.go:332, 471-474).
TerminateStops ==
  [][abort /\ running => ~running' \/ Len(callers') < Len(callers)]_vars

\* TerminateReturns: after Terminate ExecCode returns, however deep the calls
\* are and whatever loops they are in (vm.go:332).
TerminateReturns == abort /\ running ~> ~running

\* StacksApart: what CallersResumed rests on: no two contexts in progress share
\* an array, and each suspended one still shows what it showed when it called.
StacksApart ==
  /\ Len(kept) = Len(callers)
  /\ \A i \in 1..Len(callers) :
       /\ callers[i].stack = kept[i]
       /\ callers[i].array # ctx.array
  /\ \A i, j \in 1..Len(callers) : callers[i].array = callers[j].array => i = j
=============================================================================
