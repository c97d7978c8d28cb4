----------------------------- MODULE WagonVMProofs -----------------------------
(***************************************************************************)
(* Theorems about WagonVM, for any functions, any bodies and any limit on  *)
(* calls.                                                                  *)
(***************************************************************************)
EXTENDS WagonVM, SequenceTheorems, TLAPS

\* Invariant: the types, the count of calls and the separation of the stacks
\* are preserved together: a push writes into the array of its own context
\* only because no other context in progress shares it.
Invariant == TypeOK /\ DepthExact /\ StacksApart

-----------------------------------------------------------------------------
\* Sequences: the contexts that are suspended, and what they showed.

LEMMA PushType ==
  ASSUME NEW S, NEW s \in Seq(S), NEW c \in S
  PROVE  /\ Append(s, c) \in Seq(S)
         /\ Len(Append(s, c)) = Len(s) + 1
         /\ Append(s, c)[Len(s) + 1] = c
         /\ \A i \in 1..Len(s) : Append(s, c)[i] = s[i]
  OBVIOUS

LEMMA CutSeq ==
  ASSUME NEW S, NEW s \in Seq(S), NEW n \in 0..Len(s)
  PROVE  /\ SubSeq(s, 1, n) \in Seq(S)
         /\ Len(SubSeq(s, 1, n)) = n
         /\ \A i \in 1..n : SubSeq(s, 1, n)[i] = s[i]
<1>1. \A i \in 1..n : s[i] \in S
  BY ElementOfSeq
<1>2. /\ SubSeq(s, 1, n) \in Seq(S)
      /\ Len(SubSeq(s, 1, n)) = IF 1 <= n THEN n - 1 + 1 ELSE 0
      /\ \A i \in 1..(n - 1 + 1) : SubSeq(s, 1, n)[i] = s[1 + i - 1]
  BY <1>1, SubSeqProperties
<1>3. Len(SubSeq(s, 1, n)) = n
  BY <1>2
<1>4. \A i \in 1..n : SubSeq(s, 1, n)[i] = s[i]
  BY <1>2
<1> QED
  BY <1>2, <1>3, <1>4

LEMMA PopType ==
  ASSUME NEW S, NEW s \in Seq(S), s # <<>>
  PROVE  /\ Front(s) \in Seq(S) /\ Len(Front(s)) = Len(s) - 1
         /\ Len(s) \in Nat \ {0}
         /\ Last(s) = s[Len(s)] /\ Last(s) \in S
         /\ \A i \in 1..(Len(s) - 1) : Front(s)[i] = s[i]
<1>1. Len(s) \in Nat \ {0}
  BY EmptySeq
<1>2. s[Len(s)] \in S
  BY <1>1, ElementOfSeq
<1>3. PICK n \in 0..Len(s) : n = Len(s) - 1
  <2>1. Len(s) - 1 \in 0..Len(s)
    BY <1>1
  <2> QED
    BY <2>1
<1>4. Front(s) = SubSeq(s, 1, n)
  BY <1>3 DEF Front
<1> QED
  BY <1>1, <1>2, <1>3, <1>4, CutSeq DEF Last

LEMMA NoneSuspended ==
  /\ <<>> \in Seq(Contexts) /\ <<>> \in Seq(Seq(Values)) /\ <<>> \in Seq(Values)
  /\ Len(<<>>) = 0
  BY EmptySeq

-----------------------------------------------------------------------------
\* Contexts.

LEMMA ContextFacts ==
  ASSUME NEW c \in Contexts
  PROVE  /\ c.stack \in Seq(Values) /\ Len(c.stack) \in Nat
         /\ c.array \in Arrays /\ c.fn \in Funcs \cup {"none"}
  BY DEF Contexts

LEMMA CutType ==
  ASSUME NEW c \in Contexts, NEW h \in 0..Len(c.stack)
  PROVE  /\ Cut(c, h) \in Contexts
         /\ Cut(c, h).fn = c.fn /\ Cut(c, h).array = c.array
         /\ Cut(c, h).stack = SubSeq(c.stack, 1, h)
<1>1. SubSeq(c.stack, 1, h) \in Seq(Values)
  BY ContextFacts, CutSeq
<1> QED
  BY <1>1 DEF Cut, Contexts

\* NewArrayFresh: make() returns an array that no context in progress has.
LEMMA NewArrayFresh ==
  ASSUME HasNewArray
  PROVE  /\ NewArray \in Arrays /\ NewArray # ctx.array
         /\ \A i \in 1..Len(callers) : NewArray # callers[i].array
<1>1. NewArray \in Arrays /\ NewArray \notin InUse
  BY DEF HasNewArray, NewArray
<1> QED
  BY <1>1 DEF InUse

\* PushOnFacts: a push onto a context whose array no suspended one shares
\* leaves the suspended ones as they are.
LEMMA PushOnFacts ==
  ASSUME NEW c \in Contexts, NEW s \in Seq(Contexts), NEW v \in Values,
         \A i \in 1..Len(s) : s[i].array # c.array,
         PushOn(c, s, v)
  PROVE  /\ ctx' \in Contexts /\ ctx'.fn = c.fn /\ ctx'.stack = Append(c.stack, v)
         /\ ctx'.array = c.array \/ (HasNewArray /\ ctx'.array = NewArray)
         /\ callers' = s
<1>1. Append(c.stack, v) \in Seq(Values)
  BY ContextFacts, PushType
<1>2. CASE /\ ctx' = [c EXCEPT !.stack = Append(@, v)]
           /\ callers' = [i \in 1..Len(s) |->
                            Overwrite(s[i], c.array, Len(c.stack) + 1, v)]
  <2>1. \A i \in 1..Len(s) : Overwrite(s[i], c.array, Len(c.stack) + 1, v) = s[i]
    BY DEF Overwrite
  <2>2. callers' = [i \in 1..Len(s) |-> s[i]]
    BY <1>2, <2>1
  <2>3. s = [i \in 1..Len(s) |-> s[i]]
    OBVIOUS
  <2>4. ctx' \in Contexts /\ ctx'.fn = c.fn /\ ctx'.array = c.array
        /\ ctx'.stack = Append(c.stack, v)
    BY <1>1, <1>2 DEF Contexts
  <2> QED
    BY <2>2, <2>3, <2>4
<1>3. CASE /\ HasNewArray
           /\ ctx' = [c EXCEPT !.stack = Append(@, v), !.array = NewArray]
           /\ callers' = s
  <2>1. NewArray \in Arrays
    BY <1>3, NewArrayFresh
  <2>2. ctx' \in Contexts /\ ctx'.fn = c.fn /\ ctx'.array = NewArray
        /\ ctx'.stack = Append(c.stack, v)
    BY <1>1, <1>3, <2>1 DEF Contexts
  <2> QED
    BY <1>3, <2>2
<1> QED
  BY <1>2, <1>3 DEF PushOn

LEMMA TypeFacts ==
  ASSUME TypeOK
  PROVE  /\ ctx \in Contexts /\ ctx.stack \in Seq(Values) /\ Height \in Nat
         /\ ctx.array \in Arrays
         /\ callers \in Seq(Contexts) /\ Len(callers) \in Nat
         /\ kept \in Seq(Seq(Values)) /\ Len(kept) = Len(callers)
         /\ \A i \in 1..Len(callers) : callers[i] \in Contexts /\ callers[i].fn \in Funcs
<1>1. ctx \in Contexts /\ callers \in Seq(Contexts) /\ Len(callers) \in Nat
  BY DEF TypeOK
<1>2. \A i \in 1..Len(callers) : callers[i] \in Contexts
  BY <1>1, ElementOfSeq
<1> QED
  BY <1>1, <1>2, ContextFacts DEF TypeOK, Height

-----------------------------------------------------------------------------
\* The effects of the steps on the invariant.

\* SameLevel: a step of the function that runs, or of the VM between two runs.
LEMMA SameLevel ==
  ASSUME Invariant, UNCHANGED <<callers, depth, kept>>,
         ctx' \in Contexts, running' => ctx'.fn \in Funcs,
         ctx'.array = ctx.array \/ (HasNewArray /\ ctx'.array = NewArray),
         running' \in BOOLEAN, abort' \in BOOLEAN, execs' \in Nat,
         outcome' \in {"none", "returned", "error", "panic"},
         ~running' => callers = <<>>
  PROVE  Invariant'
<1>1. TypeOK'
  BY DEF Invariant, TypeOK
<1>2. \A i \in 1..Len(callers) : callers[i].array # ctx'.array
  BY NewArrayFresh DEF Invariant, StacksApart
<1>3. StacksApart'
  BY <1>2 DEF Invariant, StacksApart
<1> QED
  BY <1>1, <1>3 DEF Invariant, DepthExact

\* Unwound: a panic.
LEMMA Unwound ==
  ASSUME Invariant, NEW h \in 0..Height, Unwind(h), abort' \in BOOLEAN, execs' = execs
  PROVE  Invariant'
<1>1. ctx' \in Contexts
  BY CutType, TypeFacts DEF Unwind, Invariant, Height
<1>2. callers' = <<>> /\ kept' = <<>> /\ running' = FALSE /\ outcome' = "panic"
  BY DEF Unwind
<1>3. Len(callers') = 0 /\ Len(kept') = 0
  BY <1>2
<1>4. callers' \in Seq(Contexts) /\ kept' \in Seq(Seq(Values))
  BY <1>2, NoneSuspended
<1>5. depth' = 0
  BY TypeFacts DEF Unwind, Invariant, DepthExact, Suspended
<1>6. execs' \in Nat
  BY DEF Invariant, TypeOK
<1>7. TypeOK'
  <2>1. \A i \in 1..Len(callers') : callers'[i].fn \in Funcs
    BY <1>3
  <2>2. Len(kept') = Len(callers') /\ depth' \in Nat
    BY <1>3, <1>5
  <2>3. outcome' \in {"none", "returned", "error", "panic"} /\ ~running' /\ running' \in BOOLEAN
    BY <1>2
  <2> QED
    BY <1>1, <1>4, <1>6, <2>1, <2>2, <2>3 DEF TypeOK
<1>8. StacksApart'
  BY <1>3 DEF StacksApart
<1> QED
  BY <1>2, <1>3, <1>5, <1>7, <1>8 DEF Invariant, DepthExact

\* Entered: a call.
LEMMA Entered ==
  ASSUME Invariant, NEW g \in Funcs, Call(g)
  PROVE  Invariant'
<1> USE SignatureAssumption, OperandAssumption
<1>1. /\ running /\ ctx.fn \in Funcs /\ HasNewArray
      /\ Height - Args[g] \in 0..Height
  <2>1. Args[g] \in Nat /\ Height \in Nat /\ Height >= Args[g]
    BY TypeFacts DEF Invariant, Call, CanCall
  <2> QED
    BY <2>1 DEF Invariant, TypeOK, Call, CanCall, Executes
<1>2. /\ AfterPops(g) \in Contexts /\ AfterPops(g).fn \in Funcs
      /\ AfterPops(g).array = ctx.array
      /\ AfterPops(g).stack \in Seq(Values)
  BY <1>1, TypeFacts, CutType, ContextFacts DEF AfterPops, Invariant, Height
<1>3. /\ callers' \in Seq(Contexts) /\ Len(callers') = Len(callers) + 1
      /\ callers'[Len(callers) + 1] = AfterPops(g)
      /\ \A i \in 1..Len(callers) : callers'[i] = callers[i]
  BY <1>2, TypeFacts, PushType DEF Call, Invariant
<1>4. /\ kept' \in Seq(Seq(Values)) /\ Len(kept') = Len(callers) + 1
      /\ kept'[Len(callers) + 1] = AfterPops(g).stack
      /\ \A i \in 1..Len(callers) : kept'[i] = kept[i]
  <2>1. kept' = Append(kept, AfterPops(g).stack)
    BY DEF Call
  <2> QED
    BY <1>2, <2>1, TypeFacts, PushType DEF Invariant
<1>5. ctx' \in Contexts /\ ctx'.fn = g /\ ctx'.array = NewArray
  <2>1. Blank(MaxDepth[g]) \in Seq(Values)
    <3>1. MaxDepth[g] \in Nat
      OBVIOUS
    <3>2. Blank(MaxDepth[g]) \in [1..MaxDepth[g] -> Values]
      BY <3>1 DEF Blank
    <3> QED
      BY <3>1, <3>2
  <2>2. NewArray \in Arrays
    BY <1>1, NewArrayFresh
  <2> QED
    BY <2>1, <2>2 DEF Call, NewStack, Contexts
<1>6. Len(callers) \in Nat /\ \A i \in 1..(Len(callers) + 1) : i = Len(callers) + 1 \/ i \in 1..Len(callers)
  BY TypeFacts DEF Invariant
<1>7. \A i \in 1..Len(callers') : callers'[i].fn \in Funcs
  BY <1>2, <1>3, <1>6, TypeFacts DEF Invariant
<1>8. depth' = Len(callers') /\ depth' \in Nat
  BY <1>3, <1>6 DEF Call, Invariant, DepthExact
<1>9. TypeOK'
  BY <1>1, <1>3, <1>4, <1>5, <1>7, <1>8 DEF Call, Invariant, TypeOK
<1>10. \A i \in 1..Len(callers') : callers'[i].stack = kept'[i]
  BY <1>3, <1>4, <1>6 DEF Invariant, StacksApart
<1>11. \A i \in 1..Len(callers') : callers'[i].array # ctx'.array
  <2>1. NewArray # ctx.array /\ \A i \in 1..Len(callers) : NewArray # callers[i].array
    BY <1>1, NewArrayFresh
  <2> QED
    BY <1>2, <1>3, <1>5, <1>6, <2>1
<1>12. \A i, j \in 1..Len(callers') : callers'[i].array = callers'[j].array => i = j
  <2>1. \A i \in 1..Len(callers) : callers[i].array # ctx.array
    BY DEF Invariant, StacksApart
  <2>2. \A i, j \in 1..Len(callers) : callers[i].array = callers[j].array => i = j
    BY DEF Invariant, StacksApart
  <2>3. \A i \in 1..Len(callers) : callers'[i].array = callers[i].array
    BY <1>3
  <2>4. callers'[Len(callers) + 1].array = ctx.array
    BY <1>2, <1>3
  <2> QED
    BY <1>3, <1>6, <2>1, <2>2, <2>3, <2>4
<1> QED
  BY <1>1, <1>3, <1>4, <1>8, <1>9, <1>10, <1>11, <1>12
     DEF Call, Invariant, DepthExact, StacksApart

\* Resumed: a return: the caller is found as it was, and goes on.
LEMMA Resumed ==
  ASSUME Invariant, Return
  PROVE  /\ Invariant'
         /\ Len(callers') = Len(callers) - 1
         /\ ctx'.fn = callers[Len(callers)].fn
         /\ ctx'.stack = kept[Len(callers)] \o
                           (IF Returns[ctx.fn] = 1 THEN <<ctx.stack[Height]>> ELSE <<>>)
<1> DEFINE n == Len(callers)
<1> USE SignatureAssumption
<1>1. /\ n \in Nat \ {0} /\ Last(callers) = callers[n] /\ callers[n] \in Contexts
      /\ Front(callers) \in Seq(Contexts) /\ Len(Front(callers)) = n - 1
      /\ \A i \in 1..(n - 1) : Front(callers)[i] = callers[i]
  <2>1. callers \in Seq(Contexts) /\ callers # <<>>
    BY TypeFacts DEF Return, Invariant
  <2> QED
    BY <2>1, PopType
<1>2. /\ kept' \in Seq(Seq(Values)) /\ Len(kept') = n - 1
      /\ \A i \in 1..(n - 1) : kept'[i] = kept[i]
  <2>1. kept \in Seq(Seq(Values)) /\ Len(kept) = n /\ kept # <<>> /\ kept' = Front(kept)
    BY <1>1, TypeFacts DEF Return, Invariant
  <2> QED
    BY <2>1, PopType
<1>3. running /\ ctx.fn \in Funcs /\ callers[n].fn \in Funcs
  BY <1>1, TypeFacts DEF Return, Leaves, Invariant, TypeOK
<1>4. callers[n].stack = kept[n] /\ callers[n].stack \in Seq(Values)
  BY <1>1, ContextFacts DEF Invariant, StacksApart
<1>5. \A i \in 1..(n - 1) : Front(callers)[i].array # callers[n].array
  BY <1>1 DEF Invariant, StacksApart
<1>6. /\ ctx' \in Contexts /\ ctx'.fn = callers[n].fn
      /\ ctx'.stack = kept[n] \o (IF Returns[ctx.fn] = 1 THEN <<ctx.stack[Height]>> ELSE <<>>)
      /\ ctx'.array = callers[n].array \/ (HasNewArray /\ ctx'.array = NewArray)
      /\ callers' = Front(callers)
  <2>1. CASE Returns[ctx.fn] = 1
    <3>1. ctx.stack \in Seq(Values) /\ ctx.stack # <<>>
      BY <2>1, TypeFacts DEF Return, ResultMissing, Invariant
    <3>2. Last(ctx.stack) \in Values /\ Last(ctx.stack) = ctx.stack[Height]
      BY <3>1, PopType DEF Height
    <3>3. PushOn(callers[n], Front(callers), Last(ctx.stack))
      BY <1>1, <2>1 DEF Return
    <3>4. /\ ctx' \in Contexts /\ ctx'.fn = callers[n].fn
          /\ ctx'.stack = Append(callers[n].stack, Last(ctx.stack))
          /\ ctx'.array = callers[n].array \/ (HasNewArray /\ ctx'.array = NewArray)
          /\ callers' = Front(callers)
      BY <1>1, <1>5, <3>2, <3>3, PushOnFacts
    <3>5. Append(kept[n], ctx.stack[Height]) = kept[n] \o <<ctx.stack[Height]>>
      <4>1. kept[n] \in Seq(Values) /\ ctx.stack[Height] \in Values
        BY <1>4, <3>2
      <4> QED
        BY <4>1, AppendIsConcat
    <3> QED
      BY <1>4, <2>1, <3>2, <3>4, <3>5
  <2>2. CASE Returns[ctx.fn] # 1
    <3>1. ctx' = callers[n] /\ callers' = Front(callers)
      BY <1>1, <2>2 DEF Return
    <3>2. kept[n] \o <<>> = kept[n]
      BY <1>4
    <3> QED
      BY <1>1, <1>4, <2>2, <3>1, <3>2
  <2> QED
    BY <2>1, <2>2
<1>7. Len(callers') = n - 1 /\ \A i \in 1..(n - 1) : callers'[i] = callers[i] /\ i \in 1..n
  BY <1>1, <1>6
<1>8. TypeOK'
  <2>1. depth' \in Nat
    BY <1>1 DEF Return, Invariant, DepthExact
  <2>2. \A i \in 1..Len(callers') : callers'[i].fn \in Funcs
    BY <1>7, TypeFacts DEF Invariant
  <2>3. callers' \in Seq(Contexts) /\ kept' \in Seq(Seq(Values)) /\ Len(kept') = Len(callers')
    BY <1>1, <1>2, <1>6, <1>7
  <2>4. running' \in BOOLEAN /\ abort' \in BOOLEAN /\ execs' \in Nat
        /\ outcome' \in {"none", "returned", "error", "panic"}
    BY DEF Return, Invariant, TypeOK
  <2> QED
    BY <1>3, <1>6, <2>1, <2>2, <2>3, <2>4 DEF TypeOK
<1>9. DepthExact'
  BY <1>1, <1>3, <1>7 DEF Return, Invariant, DepthExact
<1>10. StacksApart'
  <2>1. \A i \in 1..(n - 1) : callers'[i].stack = kept'[i]
    BY <1>2, <1>7 DEF Invariant, StacksApart
  <2>2. \A i \in 1..(n - 1) : callers'[i].array # ctx'.array
    <3>1. \A i \in 1..(n - 1) : callers[i].array # callers[n].array
      BY <1>1, <1>7 DEF Invariant, StacksApart
    <3>2. HasNewArray => \A i \in 1..(n - 1) : callers[i].array # NewArray
      BY <1>7, NewArrayFresh
    <3> QED
      BY <1>6, <1>7, <3>1, <3>2
  <2>3. \A i, j \in 1..(n - 1) : callers'[i].array = callers'[j].array => i = j
    BY <1>7 DEF Invariant, StacksApart
  <2> QED
    BY <1>2, <1>7, <2>1, <2>2, <2>3 DEF StacksApart
<1> QED
  BY <1>6, <1>7, <1>8, <1>9, <1>10 DEF Invariant

-----------------------------------------------------------------------------

LEMMA InvariantInit == Init => Invariant
<1> SUFFICES ASSUME Init PROVE Invariant
  OBVIOUS
<1>1. ctx \in Contexts
  BY OperandAssumption, NoneSuspended DEF Init, Contexts
<1>2. Len(callers) = 0 /\ Len(kept) = 0
  BY NoneSuspended DEF Init
<1>3. callers \in Seq(Contexts) /\ kept \in Seq(Seq(Values))
  BY NoneSuspended DEF Init
<1>4. TypeOK /\ DepthExact
  <2>1. \A i \in 1..Len(callers) : callers[i].fn \in Funcs
    BY <1>2
  <2>2. Len(kept) = Len(callers) /\ depth = Len(callers) /\ depth \in Nat /\ execs \in Nat
    BY <1>2 DEF Init
  <2> QED
    BY <1>1, <1>3, <2>1, <2>2 DEF Init, TypeOK, DepthExact
<1> QED
  BY <1>2, <1>4 DEF Invariant, StacksApart

LEMMA InvariantStep == Invariant /\ [Next]_vars => Invariant'
<1> SUFFICES ASSUME Invariant, [Next]_vars PROVE Invariant'
  OBVIOUS
<1> USE SignatureAssumption
<1>types. TypeOK /\ DepthExact /\ ctx \in Contexts /\ Height \in Nat
  BY TypeFacts DEF Invariant
<1>apart. \A i \in 1..Len(callers) : callers[i].array # ctx.array
  BY DEF Invariant, StacksApart
<1>1. ASSUME NEW f \in Funcs, ExecCode(f) PROVE Invariant'
  <2>1. /\ ctx' \in Contexts /\ ctx'.fn = f
        /\ ctx'.array = ctx.array \/ (HasNewArray /\ ctx'.array = NewArray)
    <3>1. CASE Height < MaxDepth[f]
      <4>1. HasNewArray /\ ctx' = [fn |-> f, array |-> NewArray, stack |-> <<>>]
        BY <1>1, <3>1 DEF ExecCode
      <4> QED
        BY <4>1, NewArrayFresh, NoneSuspended DEF Contexts
    <3>2. CASE ~(Height < MaxDepth[f])
      BY <1>1, <1>types, <3>2 DEF ExecCode, Contexts
    <3> QED
      BY <3>1, <3>2
  <2> QED
    BY <1>1, <1>types, <2>1, SameLevel DEF ExecCode, TypeOK, DepthExact
<1>2. CASE ExecRefused
  BY <1>2, <1>types, SameLevel DEF ExecRefused, TypeOK, DepthExact
<1>3. CASE ResetContext
  <2>1. ctx' \in Contexts /\ HasNewArray /\ ctx'.array = NewArray
    BY <1>3, NewArrayFresh, NoneSuspended DEF ResetContext, Contexts
  <2> QED
    BY <1>3, <1>types, <2>1, SameLevel DEF ResetContext, TypeOK, DepthExact
\* A function takes operands and pushes one, or none.
<1>4. ASSUME running, ctx.fn \in Funcs, NEW h \in 0..Height,
             \/ ctx' = Cut(ctx, h) /\ UNCHANGED callers
             \/ \E v \in Values : PushOn(Cut(ctx, h), callers, v),
             UNCHANGED <<running, depth, outcome, execs, kept>>, abort' \in BOOLEAN
      PROVE  Invariant'
  <2>1. Cut(ctx, h) \in Contexts /\ Cut(ctx, h).fn = ctx.fn /\ Cut(ctx, h).array = ctx.array
    BY <1>4, <1>types, CutType DEF Height
  <2>2. /\ ctx' \in Contexts /\ ctx'.fn = ctx.fn /\ UNCHANGED callers
        /\ ctx'.array = ctx.array \/ (HasNewArray /\ ctx'.array = NewArray)
    <3>1. CASE ctx' = Cut(ctx, h) /\ UNCHANGED callers
      BY <2>1, <3>1
    <3>2. ASSUME NEW v \in Values, PushOn(Cut(ctx, h), callers, v)
          PROVE  /\ ctx' \in Contexts /\ ctx'.fn = ctx.fn /\ UNCHANGED callers
                 /\ ctx'.array = ctx.array \/ (HasNewArray /\ ctx'.array = NewArray)
      <4>1. callers \in Seq(Contexts)
        BY <1>types DEF TypeOK
      <4>2. \A i \in 1..Len(callers) : callers[i].array # Cut(ctx, h).array
        BY <1>apart, <2>1
      <4> QED
        BY <2>1, <3>2, <4>1, <4>2, PushOnFacts
    <3> QED
      BY <1>4, <3>1, <3>2
  <2> QED
    BY <1>4, <1>types, <2>2, SameLevel DEF TypeOK
<1>5. CASE Instruction
  <2>1. running /\ ctx.fn \in Funcs /\ abort' \in BOOLEAN
    BY <1>5, <1>types DEF Instruction, Executes, TypeOK
  <2>2. PICK h \in 0..Height :
          \/ ctx' = Cut(ctx, h) /\ UNCHANGED callers
          \/ \E v \in Values : PushOn(Cut(ctx, h), callers, v)
    BY <1>5 DEF Instruction
  <2> QED
    BY <1>4, <1>5, <2>1, <2>2 DEF Instruction
<1>6. ASSUME NEW g \in Funcs, Call(g) PROVE Invariant'
  BY <1>6, Entered
<1>7. ASSUME NEW g \in Hosts, CallHost(g) PROVE Invariant'
  <2>1. running /\ ctx.fn \in Funcs /\ abort' \in BOOLEAN /\ execs' = execs
    BY <1>7, <1>types DEF CallHost, CanCall, Executes, TypeOK
  <2>2. Height - Args[g] \in 0..Height
    <3>1. Args[g] \in Nat /\ Height >= Args[g]
      BY <1>7 DEF CallHost, CanCall
    <3> QED
      BY <3>1, <1>types
  <2>3. CASE Unwind(Height - Args[g])
    BY <2>1, <2>2, <2>3, Unwound
  <2>4. CASE /\ IF Returns[g] = 1
                  THEN \E v \in Values : PushOn(AfterPops(g), callers, v)
                  ELSE ctx' = AfterPops(g) /\ UNCHANGED callers
             /\ UNCHANGED <<running, depth, outcome, kept>>
    BY <1>4, <2>1, <2>2, <2>4 DEF AfterPops
  <2> QED
    BY <1>7, <2>3, <2>4 DEF CallHost
<1>8. CASE Trap
  BY <1>8, <1>types, Unwound DEF Trap, TypeOK
<1>9. CASE TooDeep
  BY <1>9, <1>types, Unwound DEF TooDeep, TypeOK
<1>10. CASE NoResult
  BY <1>10, <1>types, Unwound DEF NoResult, TypeOK
<1>11. CASE Return
  BY <1>11, Resumed
<1>12. CASE Finish
  <2>1. ctx' = ctx /\ callers = <<>>
    BY <1>12 DEF Finish
  <2> QED
    BY <1>12, <1>types, <2>1, SameLevel DEF Finish, Leaves, TypeOK
<1>13. CASE UNCHANGED vars
  BY <1>13 DEF vars, Invariant, TypeOK, DepthExact, StacksApart, Contexts
<1> QED
  BY <1>1, <1>2, <1>3, <1>5, <1>6, <1>7, <1>8, <1>9, <1>10, <1>11, <1>12, <1>13 DEF Next

\* TypeCorrect: the types of the VM (func.go:82-111).
THEOREM TypeCorrect == Spec => []TypeOK
<1>1. Invariant => TypeOK
  BY DEF Invariant
<1> QED
  BY <1>1, InvariantInit, InvariantStep, PTL DEF Spec

\* DepthCounted: recursiveCallDepth counts the calls in progress, whatever ends
\* them (func.go:83-84).
THEOREM DepthCounted == Spec => []DepthExact
<1>1. Invariant => DepthExact
  BY DEF Invariant
<1> QED
  BY <1>1, InvariantInit, InvariantStep, PTL DEF Spec

-----------------------------------------------------------------------------

LEMMA BoundStep == Invariant /\ DepthBounded /\ [Next]_vars => DepthBounded'
<1> SUFFICES ASSUME Invariant, DepthBounded, [Next]_vars
             PROVE  depth' <= MaxCallDepth + 1
  BY DEF DepthBounded
<1> USE LimitAssumption DEF Invariant, TypeOK, DepthBounded
<1>1. ASSUME NEW g \in Funcs, Call(g) PROVE depth' <= MaxCallDepth + 1
  BY <1>1 DEF Call, CanCall, Executes
<1>2. ASSUME NEW h, Unwind(h) PROVE depth' <= MaxCallDepth + 1
  BY <1>2 DEF Unwind, Suspended, DepthExact
<1>3. ASSUME NEW h \in Hosts, CallHost(h) PROVE depth' <= MaxCallDepth + 1
  <2>1. CASE UNCHANGED <<running, depth, outcome, kept>>
    BY <2>1
  <2> QED
    BY <1>2, <1>3, <2>1 DEF CallHost
<1>4. CASE Trap \/ TooDeep \/ NoResult
  BY <1>2, <1>4 DEF Trap, TooDeep, NoResult
<1>5. CASE Return
  BY <1>5 DEF Return
<1>6. ASSUME NEW f \in Funcs, ExecCode(f) PROVE depth' <= MaxCallDepth + 1
  BY <1>6 DEF ExecCode
<1>7. CASE ExecRefused \/ ResetContext \/ Instruction \/ Finish \/ UNCHANGED vars
  BY <1>7 DEF ExecRefused, ResetContext, Instruction, Finish, vars
<1> QED
  BY <1>1, <1>3, <1>4, <1>5, <1>6, <1>7 DEF Next

\* CallsBounded: no chain of calls gets past the limit by more than the one call
\* whose first instruction is refused (vm.go:333-335).
THEOREM CallsBounded == Spec => []DepthBounded
<1>1. Init => DepthBounded
  BY LimitAssumption DEF Init, DepthBounded
<1> QED
  BY <1>1, InvariantInit, InvariantStep, BoundStep, PTL DEF Spec

-----------------------------------------------------------------------------

\* StopStep: the loop condition keeps every action that executes from a step.
LEMMA StopStep ==
  Invariant /\ [Next]_vars
    => [abort /\ running => ~running' \/ Len(callers') < Len(callers)]_vars
<1> SUFFICES ASSUME Invariant, Next, abort, running, running'
             PROVE  Len(callers') < Len(callers)
  BY DEF vars
<1>1. ~Finish /\ ~Trap /\ ~TooDeep /\ ~NoResult
  BY DEF Finish, Trap, TooDeep, NoResult, Unwind
<1>2. Return
  BY <1>1 DEF Next, ExecCode, Call, CallHost, CanCall, Executes, ExecRefused,
         ResetContext, Instruction
<1>3. Len(callers') = Len(callers) - 1 /\ Len(callers) \in Nat
  BY <1>2, Resumed, TypeFacts DEF Invariant
<1> QED
  BY <1>3

\* TerminateObeyed: after Terminate calls only return (vm.go:332, 471-474).
THEOREM TerminateObeyed == Spec => TerminateStops
  BY InvariantInit, InvariantStep, StopStep, PTL DEF Spec, TerminateStops

-----------------------------------------------------------------------------

\* LengthKept: only Return takes one context from those that are suspended.
LEMMA LengthKept ==
  ASSUME Invariant, Next, running', Len(callers') < Len(callers)
  PROVE  Return
<1>types. callers \in Seq(Contexts) /\ Len(callers) \in Nat
  BY TypeFacts DEF Invariant
<1>1. ~Finish /\ ~Trap /\ ~TooDeep /\ ~NoResult
  BY DEF Finish, Trap, TooDeep, NoResult, Unwind
<1>2. \A c, v : PushOn(c, callers, v) => Len(callers') = Len(callers)
  BY <1>types DEF PushOn
<1>3. ~Instruction
  <2>1. Instruction => callers' = callers \/ (\E c, v : PushOn(c, callers, v))
    BY DEF Instruction
  <2> QED
    BY <1>2, <1>types, <2>1
<1>4. ASSUME NEW h \in Hosts, CallHost(h) PROVE FALSE
  BY <1>2, <1>4, <1>types DEF CallHost, Unwind
<1>5. ASSUME NEW g \in Funcs, Call(g) PROVE FALSE
  <2>1. Len(callers') = Len(callers) + 1
    BY <1>5, <1>types DEF Call
  <2> QED
    BY <2>1, <1>types
<1>6. ASSUME NEW f \in Funcs, ExecCode(f) PROVE FALSE
  BY <1>6, <1>types DEF ExecCode
<1>7. ~ExecRefused /\ ~ResetContext
  BY <1>types DEF ExecRefused, ResetContext
<1> QED
  BY <1>1, <1>3, <1>4, <1>5, <1>6, <1>7 DEF Next

\* CallersKept: a suspended caller shares its array with no context in progress,
\* so it is resumed with what it had and the result on top, whatever the bodies
\* do (func.go:85-110).
THEOREM CallersKept == Spec => CallersResumed
<1>1. Invariant /\ [Next]_vars =>
        [ Len(callers') < Len(callers) /\ running'
            => /\ Len(callers') = Len(callers) - 1
               /\ ctx'.fn = callers[Len(callers)].fn
               /\ ctx'.stack = kept[Len(callers)] \o
                                 (IF Returns[ctx.fn] = 1 THEN <<ctx.stack[Height]>> ELSE <<>>)
        ]_vars
  BY LengthKept, Resumed
<1> QED
  BY <1>1, InvariantInit, InvariantStep, PTL DEF Spec, CallersResumed
=============================================================================
