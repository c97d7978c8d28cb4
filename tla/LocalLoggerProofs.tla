-------------------------- MODULE LocalLoggerProofs --------------------------
(***************************************************************************)
(* Proofs about LocalLogger, for any goroutines, outputs and               *)
(* configurations: what a message is given to, and that the outputs on the *)
(* list are open.                                                          *)
(*                                                                         *)
(* Both rest on the list of outputs having no name twice, and that on what *)
(* DelLogger keeps of it (Kept), a recursive function: what passes from    *)
(* n - 1 to n and holds of 0 has no least exception (LeastNat).            *)
(***************************************************************************)
EXTENDS LocalLogger, FiniteSetTheorems, TLAPS

\* A set of natural numbers that is not empty has a least one: the intervals up to
\* its elements are finite sets, ordered as the elements are.
LEMMA LeastNat ==
  ASSUME NEW S \in SUBSET Nat, S # {}
  PROVE  \E x \in S : \A y \in S : x <= y
<1> DEFINE R == StrictSubsetOrdering(Nat)
           Below == {0 .. x : x \in S}
<1>1. IsWellFoundedOn(R, FiniteSubsetsOf(Nat))
  BY FS_StrictSubsetOrderingWellFounded
<1>2. Below \subseteq FiniteSubsetsOf(Nat)
  <2>1. \A x \in S : 0 .. x \subseteq Nat /\ IsFiniteSet(0 .. x)
    BY FS_Interval
  <2> QED
    BY <2>1 DEF FiniteSubsetsOf
<1>3. Below # {}
  OBVIOUS
<1> HIDE DEF R
<1>4. PICK b \in Below : \A c \in Below : ~ (<<c, b>> \in R)
  BY <1>1, <1>2, <1>3, WFMin, Zenon
<1>5. PICK x \in S : b = 0 .. x
  OBVIOUS
<1>6. \A y \in S : y < x => <<0 .. y, b>> \in R
  <2> TAKE y \in S
  <2> HAVE y < x
  <2>1. 0 .. y \in SUBSET Nat /\ b \in SUBSET Nat
    BY <1>5
  <2>2. 0 .. y \subseteq b /\ x \in b /\ x \notin 0 .. y
    BY <1>5
  <2> QED
    BY <2>1, <2>2 DEF R, StrictSubsetOrdering
<1>7. \A y \in S : x <= y
  <2> TAKE y \in S
  <2>1. 0 .. y \in Below
    OBVIOUS
  <2>2. ~ (y < x)
    BY <1>4, <1>6, <2>1
  <2> QED
    BY <2>2
<1> QED
  BY <1>7

-----------------------------------------------------------------------------
Output == Asked \cup {NoEntry} \cup {[name |-> o.name, config |-> Default] : o \in Asked}
Places == {"idle", "set", "delete", "close", "replacing", "adding", "store", "append",
           "growing", "filling", "deleting", "closing", "reading", "writing"}

\* No name is twice on a list.
Distinct(seq) == \A i, j \in 1 .. Len(seq) : seq[i].name = seq[j].name => i = j

\* The places where a goroutine has the lock.
Holding == {"replacing", "adding", "store", "append", "growing", "filling", "deleting"}

\* An output that is being added has a name which is not on the list that it is added
\* to; when it has its place there, but is not stored yet, that place is the last.
GoroutineTyped(g) ==
  /\ pc[g] \in Holding <=> lock = g
  /\ pc[g] \in {"replacing", "adding"} => Name(g) \in Adapters
  /\ pc[g] \in {"adding", "append", "growing"} => ~Listed(g)
  /\ pc[g] = "growing" => Distinct(list[g]) /\ Name(g) \notin Names(list[g])
  /\ pc[g] = "filling" /\ Listed(g) => outputs[Len(outputs)].name = Name(g)
  /\ pc[g] = "deleting" => Distinct(list[g])

Typed ==
  /\ outputs \in Seq(Output) /\ Distinct(outputs)
  /\ lock \in Goroutines \cup {NoOne}
  /\ config \in [Adapters -> Configs]
  /\ pc \in [Goroutines -> Places]
  /\ entry \in [Goroutines -> Output]
  /\ list \in [Goroutines -> Seq(Output)]
  /\ \A g \in Goroutines : GoroutineTyped(g)

-----------------------------------------------------------------------------
\* The outputs that are kept are collected by a loop.
Collects(f, seq, name, len) ==
  f = [n \in 0 .. len |->
         IF n = 0 THEN <<>>
         ELSE IF seq[n].name = name THEN f[n - 1]
         ELSE Append(f[n - 1], seq[n])]

\* There is such a function for every length: a least length without one would be
\* one more than a length that has one.
LEMMA CollectExists ==
  ASSUME NEW seq, NEW name, NEW len \in Nat
  PROVE  \E f : Collects(f, seq, name, len)
<1> DEFINE S == {n \in Nat : ~ \E f : Collects(f, seq, name, n)}
<1>1. SUFFICES ASSUME S # {} PROVE FALSE
  OBVIOUS
<1>2. PICK n \in S : \A m \in S : n <= m
  BY <1>1, LeastNat
<1>3. n # 0
  <2> DEFINE f == [i \in 0 .. 0 |-> <<>>]
  <2>1. Collects(f, seq, name, 0)
    BY DEF Collects
  <2> HIDE DEF f
  <2> QED
    BY <2>1
<1>4. n - 1 \in Nat /\ n - 1 \notin S
  BY <1>2, <1>3
<1>5. PICK f : Collects(f, seq, name, n - 1)
  BY <1>4
<1> DEFINE g == [i \in 0 .. n |->
                   IF i < n THEN f[i]
                   ELSE IF seq[n].name = name THEN f[n - 1]
                   ELSE Append(f[n - 1], seq[n])]
<1>6. \A i \in 0 .. n : g[i] = IF i = 0 THEN <<>>
                               ELSE IF seq[i].name = name THEN g[i - 1]
                               ELSE Append(g[i - 1], seq[i])
  <2> TAKE i \in 0 .. n
  <2>1. CASE i = n
    <3>1. g[i - 1] = f[n - 1] /\ i # 0
      BY <1>3, <1>4, <2>1
    <3> QED
      BY <2>1, <3>1
  <2>2. CASE i < n
    <3>1. i \in 0 .. n - 1 /\ (i # 0 => i - 1 \in 0 .. n /\ i - 1 < n)
      BY <2>2
    <3>2. g[i] = f[i] /\ (i # 0 => g[i - 1] = f[i - 1])
      BY <2>2, <3>1
    <3>3. f[i] = IF i = 0 THEN <<>>
                 ELSE IF seq[i].name = name THEN f[i - 1]
                 ELSE Append(f[i - 1], seq[i])
      BY <1>5, <3>1 DEF Collects
    <3> QED
      BY <3>2, <3>3
  <2> QED
    BY <2>1, <2>2
<1>7. Collects(g, seq, name, n)
  <2>1. g = [i \in 0 .. n |-> g[i]]
    OBVIOUS
  <2> HIDE DEF g
  <2> QED
    BY <1>6, <2>1 DEF Collects
<1> HIDE DEF g
<1> QED
  BY <1>7

\* Kept is what the loop ends with.
LEMMA KeptIs ==
  ASSUME NEW seq, NEW name, Len(seq) \in Nat
  PROVE  \E f : Collects(f, seq, name, Len(seq)) /\ Kept(seq, name) = f[Len(seq)]
<1> DEFINE f == CHOOSE f : Collects(f, seq, name, Len(seq))
<1>1. Collects(f, seq, name, Len(seq))
  BY CollectExists
<1>2. Kept(seq, name) = f[Len(seq)]
  BY DEF Kept, Collects
<1> QED
  BY <1>1, <1>2

\* What is kept: the outputs of other names, as distinct as they were, and all of the
\* list only when the name is not on it.
LEMMA KeptFacts ==
  ASSUME NEW seq \in Seq(Output), NEW name
  PROVE  /\ Kept(seq, name) \in Seq(Output)
         /\ Distinct(seq) => Distinct(Kept(seq, name))
         /\ \A j \in 1 .. Len(Kept(seq, name)) :
              \E i \in 1 .. Len(seq) : Kept(seq, name)[j] = seq[i] /\ seq[i].name # name
         /\ Len(Kept(seq, name)) = Len(seq) => \A i \in 1 .. Len(seq) : seq[i].name # name
<1> DEFINE len == Len(seq)
<1>1. len \in Nat
  OBVIOUS
<1>2. PICK f : Collects(f, seq, name, len) /\ Kept(seq, name) = f[len]
  BY KeptIs
<1> DEFINE Good(n) ==
      /\ f[n] \in Seq(Output) /\ Len(f[n]) <= n
      /\ Distinct(seq) => Distinct(f[n])
      /\ \A j \in 1 .. Len(f[n]) : \E i \in 1 .. n : f[n][j] = seq[i] /\ seq[i].name # name
      /\ Len(f[n]) = n => \A i \in 1 .. n : seq[i].name # name
    Bad == {n \in 0 .. len : ~Good(n)}
<1>3. Good(0)
  <2>1. f[0] = <<>>
    BY <1>1, <1>2 DEF Collects
  <2>2. <<>> \in Seq(Output) /\ Len(<<>>) = 0
    OBVIOUS
  <2> QED
    BY <2>1, <2>2 DEF Distinct
<1>4. ASSUME NEW n \in 1 .. len, Good(n - 1)
      PROVE  Good(n)
  <2>1. f[n] = IF seq[n].name = name THEN f[n - 1] ELSE Append(f[n - 1], seq[n])
    <3>1. n \in 0 .. len /\ n # 0
      BY <1>1
    <3>2. Collects(f, seq, name, len)
      BY <1>2
    <3> HIDE DEF len
    <3> QED
      BY <3>1, <3>2 DEF Collects
  <2>2. /\ f[n - 1] \in Seq(Output) /\ Len(f[n - 1]) \in Nat /\ Len(f[n - 1]) <= n - 1
        /\ Distinct(seq) => Distinct(f[n - 1])
        /\ \A j \in 1 .. Len(f[n - 1]) :
             \E i \in 1 .. n - 1 : f[n - 1][j] = seq[i] /\ seq[i].name # name
        /\ Len(f[n - 1]) = n - 1 => \A i \in 1 .. n - 1 : seq[i].name # name
    BY <1>4
  <2> HIDE DEF Good
  <2>3. CASE seq[n].name = name
    <3>1. f[n] = f[n - 1]
      BY <2>1, <2>3
    <3>2. Len(f[n]) # n
      BY <2>2, <3>1
    <3> QED
      BY <2>2, <3>1, <3>2 DEF Good
  <2>4. CASE seq[n].name # name
    <3> DEFINE m == Len(f[n - 1])
    <3>1. seq[n] \in Output
      BY <1>1
    <3>2. /\ f[n] \in Seq(Output) /\ Len(f[n]) = m + 1 /\ f[n][m + 1] = seq[n]
          /\ \A j \in 1 .. m : f[n][j] = f[n - 1][j]
      BY <2>1, <2>2, <2>4, <3>1
    <3>3. \A j \in 1 .. m + 1 : \E i \in 1 .. n : f[n][j] = seq[i] /\ seq[i].name # name
      <4> TAKE j \in 1 .. m + 1
      <4>1. CASE j = m + 1
        BY <2>4, <3>2, <4>1
      <4>2. CASE j \in 1 .. m
        <5>1. PICK i \in 1 .. n - 1 : f[n - 1][j] = seq[i] /\ seq[i].name # name
          BY <2>2, <4>2
        <5> QED
          BY <3>2, <4>2, <5>1
      <4> QED
        BY <2>2, <4>1, <4>2
    <3>4. Distinct(seq) => Distinct(f[n])
      <4> SUFFICES ASSUME Distinct(seq), NEW i \in 1 .. m + 1, NEW j \in 1 .. m + 1, i < j
                   PROVE  f[n][i].name # f[n][j].name
        BY <2>2, <3>2 DEF Distinct
      <4>1. i \in 1 .. m
        BY <2>2
      <4>2. CASE j \in 1 .. m
        <5>1. f[n][i] = f[n - 1][i] /\ f[n][j] = f[n - 1][j]
          BY <3>2, <4>1, <4>2
        <5>2. Distinct(f[n - 1])
          BY <2>2
        <5>3. i # j
          BY <4>1, <4>2
        <5>4. f[n - 1][i].name # f[n - 1][j].name
          BY <4>1, <4>2, <5>2, <5>3 DEF Distinct
        <5> QED
          BY <5>1, <5>4
      <4>3. CASE j = m + 1
        <5>1. PICK k \in 1 .. n - 1 : f[n - 1][i] = seq[k]
          BY <2>2, <4>1
        <5>2. k \in 1 .. len /\ n \in 1 .. len /\ k # n
          BY <1>1
        <5>3. seq[k].name # seq[n].name
          BY <5>2 DEF Distinct
        <5> QED
          BY <3>2, <4>1, <4>3, <5>1, <5>3
      <4>4. j = m + 1 \/ j \in 1 .. m
        <5>1. m \in Nat
          BY <2>2
        <5> HIDE DEF m
        <5> QED
          BY <5>1
      <4> QED
        BY <4>2, <4>3, <4>4
    <3>5. Len(f[n]) = n => \A i \in 1 .. n : seq[i].name # name
      BY <2>2, <2>4, <3>2
    <3> QED
      BY <2>2, <3>2, <3>3, <3>4, <3>5 DEF Good
  <2> QED
    BY <2>3, <2>4
<1> HIDE DEF Good
<1>5. Bad = {}
  <2> SUFFICES ASSUME Bad # {} PROVE FALSE
    OBVIOUS
  <2>0. Bad \in SUBSET Nat
    BY <1>1
  <2> HIDE DEF Bad
  <2>1. PICK n \in Bad : \A m \in Bad : n <= m
    BY <2>0, LeastNat
  <2> USE DEF Bad
  <2>2. n \in 1 .. len
    BY <1>1, <1>3, <2>1
  <2>3. n - 1 \in 0 .. len /\ n - 1 \notin Bad
    BY <1>1, <2>1, <2>2
  <2> QED
    BY <1>4, <2>1, <2>2, <2>3
<1>6. Good(len)
  BY <1>1, <1>5
<1> QED
  BY <1>2, <1>6 DEF Good
-----------------------------------------------------------------------------
LEMMA NamesAre ==
  ASSUME NEW seq \in Seq(Output), NEW name
  PROVE  name \in Names(seq) <=> \E i \in 1 .. Len(seq) : seq[i].name = name
BY DEF Names, Range

\* An output of a new name at the end.
LEMMA Appended ==
  ASSUME NEW seq \in Seq(Output), Distinct(seq), NEW o \in Output, o.name \notin Names(seq)
  PROVE  /\ Append(seq, o) \in Seq(Output) /\ Distinct(Append(seq, o))
         /\ Range(Append(seq, o)) = Range(seq) \cup {o}
<1> DEFINE n == Len(seq)
           app == Append(seq, o)
<1>1. /\ n \in Nat /\ app \in Seq(Output) /\ Len(app) = n + 1 /\ app[n + 1] = o
      /\ \A i \in 1 .. n : app[i] = seq[i]
  OBVIOUS
<1>2. \A i \in 1 .. n : seq[i].name # o.name
  BY NamesAre
<1> HIDE DEF app
<1>3. \A i \in 1 .. n + 1 : i \in 1 .. n \/ i = n + 1
  BY <1>1
<1>4. Distinct(app)
  BY <1>1, <1>2, <1>3 DEF Distinct
<1>5. Range(app) = Range(seq) \cup {o}
  <2>1. DOMAIN app = 1 .. n + 1 /\ DOMAIN seq = 1 .. n
    BY <1>1
  <2> QED
    BY <1>1, <1>3, <2>1 DEF Range
<1> QED
  BY <1>1, <1>4, <1>5 DEF app

\* An output in the place of one of the same name.
LEMMA Replaced ==
  ASSUME NEW seq \in Seq(Output), Distinct(seq), NEW o \in Output,
         NEW p \in DOMAIN seq, seq[p].name = o.name
  PROVE  /\ [seq EXCEPT ![p] = o] \in Seq(Output) /\ Distinct([seq EXCEPT ![p] = o])
         /\ \A q \in Range([seq EXCEPT ![p] = o]) :
              q = o \/ (q \in Range(seq) /\ q.name # o.name)
         /\ Names([seq EXCEPT ![p] = o]) = Names(seq)
<1> DEFINE new == [seq EXCEPT ![p] = o]
<1>1. /\ new \in Seq(Output) /\ Len(new) = Len(seq) /\ p \in 1 .. Len(seq)
      /\ DOMAIN seq = 1 .. Len(seq) /\ DOMAIN new = 1 .. Len(seq)
      /\ \A i \in 1 .. Len(seq) : new[i] = IF i = p THEN o ELSE seq[i]
  OBVIOUS
<1> HIDE DEF new
<1>2. \A i \in 1 .. Len(seq) : new[i].name = seq[i].name
  BY <1>1
<1>3. Distinct(new)
  BY <1>1, <1>2 DEF Distinct
<1>4. \A q \in Range(new) : q = o \/ (q \in Range(seq) /\ q.name # o.name)
  BY <1>1 DEF Range, Distinct
<1>5. Names(new) = Names(seq)
  <2>1. \A x : x \in Names(new) <=> \E i \in 1 .. Len(seq) : new[i].name = x
    BY <1>1, NamesAre
  <2>2. \A x : x \in Names(seq) <=> \E i \in 1 .. Len(seq) : seq[i].name = x
    BY NamesAre
  <2>3. \A x : x \in Names(new) <=> x \in Names(seq)
    BY <1>2, <2>1, <2>2
  <2> QED
    BY <2>3
<1> QED
  BY <1>1, <1>3, <1>4, <1>5 DEF new

LEMMA EntryTypes ==
  /\ NoEntry \in Output /\ \A o \in Output : o.config \in Configs \cup {BadConfig}
  /\ Asked \subseteq Output
  /\ NoEntry.name \in Adapters /\ NoEntry.config \in Configs
BY LoggerAssumption DEF Output, NoEntry, Adapters

\* A step of g that leaves the list of outputs and the lock alone.
LEMMA StepTyped ==
  ASSUME Typed, NEW g \in Goroutines, NEW p \in Places,
         UNCHANGED <<outputs, lock>>,
         pc' = [pc EXCEPT ![g] = p],
         config' \in [Adapters -> Configs],
         entry' \in [Goroutines -> Output], list' \in [Goroutines -> Seq(Output)],
         \A h \in Goroutines : h # g => entry'[h] = entry[h] /\ list'[h] = list[h],
         GoroutineTyped(g)'
  PROVE  Typed'
<1>1. pc' \in [Goroutines -> Places] /\ \A h \in Goroutines : h # g => pc'[h] = pc[h]
  BY DEF Typed
<1>2. \A h \in Goroutines : GoroutineTyped(h)'
  BY <1>1 DEF Typed, GoroutineTyped, Name, Listed
<1> QED
  BY <1>1, <1>2 DEF Typed, GoroutineTyped, Distinct

LEMMA TypedInit == Init => Typed
<1> SUFFICES ASSUME Init PROVE Typed
  OBVIOUS
<1>1. <<NoEntry>> \in Seq(Output) /\ Distinct(<<NoEntry>>)
  BY EntryTypes DEF Distinct
<1>2. config \in [Adapters -> Configs]
  BY LoggerAssumption DEF Init
<1>3. <<>> \in Seq(Output)
  OBVIOUS
<1>4. pc \in [Goroutines -> Places] /\ \A g \in Goroutines : pc[g] = "idle"
  BY DEF Init, Places
<1>5. \A g \in Goroutines : lock # g
  BY LoggerAssumption DEF Init
<1>6. entry \in [Goroutines -> Output] /\ list \in [Goroutines -> Seq(Output)]
  BY <1>3, EntryTypes DEF Init
<1>7. lock \in Goroutines \cup {NoOne} /\ outputs = <<NoEntry>>
  BY DEF Init
<1> QED
  BY <1>1, <1>2, <1>4, <1>5, <1>6, <1>7 DEF Typed, GoroutineTyped, Holding

\* A step of g that takes or gives back the lock, or changes the list of outputs: all
\* but the conjunct of each goroutine.
LEMMA LockTyped ==
  ASSUME Typed, NEW g \in Goroutines, NEW p \in Places,
         lock' \in Goroutines \cup {NoOne},
         outputs' \in Seq(Output), Distinct(outputs'),
         pc' = [pc EXCEPT ![g] = p], UNCHANGED config,
         entry' \in [Goroutines -> Output], list' \in [Goroutines -> Seq(Output)],
         \A h \in Goroutines : GoroutineTyped(h)'
  PROVE  Typed'
<1>1. pc' \in [Goroutines -> Places]
  BY DEF Typed
<1> QED
  BY <1>1 DEF Typed, GoroutineTyped

\* Who has the lock is the only one in its places.
LEMMA LockHeld ==
  ASSUME Typed, NEW g \in Goroutines
  PROVE  /\ pc[g] \in Holding => \A h \in Goroutines : h # g => pc[h] \notin Holding
         /\ lock = NoOne => pc[g] \notin Holding
BY LoggerAssumption DEF Typed, GoroutineTyped

\* What a goroutine calls.
LEMMA CalledIs ==
  ASSUME NEW g, Calls(g)
  PROVE  \/ \E op \in {"set", "delete", "close"}, output \in Output : Call(g, op, output)
         \/ WriteMsg(g)
<1>1. ASSUME NEW output \in Asked
      PROVE  output \in Output /\ [name |-> output.name, config |-> Default] \in Output
  BY DEF Output
<1>2. NoEntry \in Output
  BY EntryTypes
<1> QED
  BY <1>1, <1>2 DEF Calls

LEMMA CallTyped ==
  ASSUME Typed, NEW g \in Goroutines, NEW op \in {"set", "delete", "close"},
         NEW output \in Output, Call(g, op, output)
  PROVE  Typed'
<1>1. op \in Places /\ op \notin Holding
  BY DEF Places, Holding
<1>2. pc' = [pc EXCEPT ![g] = op] /\ entry' = [entry EXCEPT ![g] = output]
  BY DEF Call, Goto
<1>3. pc[g] \notin Holding /\ pc'[g] = op /\ UNCHANGED <<outputs, lock, config, list>>
  BY <1>2 DEF Call, At, Typed, Holding, adapterVars
<1>4. GoroutineTyped(g)'
  BY <1>1, <1>3 DEF Typed, GoroutineTyped, Holding
<1>5. /\ entry' \in [Goroutines -> Output]
      /\ \A h \in Goroutines : h # g => entry'[h] = entry[h]
  BY <1>2 DEF Typed
<1> QED
  BY <1>1, <1>2, <1>3, <1>4, <1>5, StepTyped DEF Typed

\* Return of a goroutine that does not hold the lock.
LEMMA ReturnTyped ==
  ASSUME Typed, NEW g \in Goroutines, pc[g] \notin Holding, Return(g),
         UNCHANGED <<outputs, lock, config, list>>
  PROVE  Typed'
<1>1. "idle" \in Places /\ "idle" \notin Holding
  BY DEF Places, Holding
<1>2. pc' = [pc EXCEPT ![g] = "idle"] /\ entry' = [entry EXCEPT ![g] = NoEntry]
  BY DEF Return, Goto
<1>3. pc'[g] = "idle"
  BY <1>2 DEF Typed
<1>4. GoroutineTyped(g)'
  BY <1>1, <1>3 DEF Typed, GoroutineTyped, Holding
<1>5. /\ entry' \in [Goroutines -> Output]
      /\ \A h \in Goroutines : h # g => entry'[h] = entry[h]
  BY <1>2, EntryTypes DEF Typed
<1> QED
  BY <1>1, <1>2, <1>4, <1>5, StepTyped DEF Typed

LEMMA SetLoggerTyped ==
  ASSUME Typed, NEW g \in Goroutines, SetLogger(g)
  PROVE  Typed'
<1>1. /\ pc' = [pc EXCEPT ![g] = IF Listed(g) THEN "replacing" ELSE "adding"]
      /\ lock = NoOne /\ lock' = g /\ UNCHANGED <<outputs, config, entry, list>>
      /\ Name(g) \in Adapters /\ pc[g] \notin Holding
  BY DEF SetLogger, Lock, Goto, At, Holding
<1> DEFINE p == IF Listed(g) THEN "replacing" ELSE "adding"
<1>2. p \in Places /\ p \in Holding
  BY DEF Places, Holding
<1>3. pc'[g] = p /\ \A h \in Goroutines : h # g => pc'[h] = pc[h]
  BY <1>1 DEF Typed
<1>4. Name(g)' = Name(g) /\ (Listed(g)' <=> Listed(g))
  BY <1>1 DEF Name, Listed
<1>5. GoroutineTyped(g)'
  BY <1>1, <1>2, <1>3, <1>4 DEF GoroutineTyped, Holding
<1>6. \A h \in Goroutines : h # g => GoroutineTyped(h)'
  <2> TAKE h \in Goroutines
  <2> HAVE h # g
  <2>1. pc'[h] = pc[h] /\ pc[h] \notin Holding
    BY <1>1, <1>3, LockHeld
  <2> QED
    BY <1>1, <2>1 DEF GoroutineTyped, Holding
<1> QED
  BY <1>1, <1>2, <1>5, <1>6, LockTyped DEF Typed

LEMMA InitAdapterTyped ==
  ASSUME Typed, NEW g \in Goroutines, InitAdapter(g)
  PROVE  Typed'
<1> DEFINE p == IF pc[g] = "adding" THEN "append" ELSE "store"
<1>1. /\ pc' = [pc EXCEPT ![g] = p] /\ UNCHANGED <<outputs, lock, entry, list>>
      /\ config' = [config EXCEPT ![Name(g)] = entry[g].config]
      /\ entry[g].config # BadConfig /\ pc[g] \in {"replacing", "adding"}
  BY DEF InitAdapter, Goto, At
<1>2. p \in Places /\ p \in Holding /\ pc[g] \in Holding
  BY <1>1 DEF Places, Holding
<1>3. entry[g].config \in Configs
  BY <1>1, EntryTypes DEF Typed
<1>4. config' \in [Adapters -> Configs]
  BY <1>1, <1>3 DEF Typed
<1>5. pc'[g] = p /\ Name(g)' = Name(g) /\ (Listed(g)' <=> Listed(g))
  BY <1>1 DEF Typed, Name, Listed
<1>6. GoroutineTyped(g)'
  BY <1>1, <1>2, <1>5 DEF Typed, GoroutineTyped
<1> QED
  BY <1>1, <1>2, <1>4, <1>6, StepTyped DEF Typed

\* The position of an output that is listed.
LEMMA PositionIs ==
  ASSUME Typed, NEW g \in Goroutines, Listed(g)
  PROVE  Position(g) \in DOMAIN outputs /\ outputs[Position(g)].name = Name(g)
BY DEF Position, Listed, Names, Range

LEMMA StoreTyped ==
  ASSUME Typed, NEW g \in Goroutines, Store(g)
  PROVE  Typed'
<1>1. /\ pc' = [pc EXCEPT ![g] = "idle"] /\ entry' = [entry EXCEPT ![g] = NoEntry]
      /\ lock' = NoOne /\ UNCHANGED <<config, list>> /\ pc[g] = "store"
  BY DEF Store, Return, Goto, At, adapterVars
<1>2. entry' \in [Goroutines -> Output] /\ "idle" \in Places /\ entry[g] \in Output
  BY <1>1, EntryTypes DEF Typed, Places
<1>3. \A h \in Goroutines : pc'[h] \notin Holding
  BY <1>1, LockHeld DEF Typed, Holding
<1>4. \A h \in Goroutines : GoroutineTyped(h)'
  BY <1>1, <1>3, LoggerAssumption DEF GoroutineTyped, Holding
<1>5. outputs' \in Seq(Output) /\ Distinct(outputs')
  <2>1. CASE UNCHANGED outputs
    BY <2>1 DEF Typed
  <2>2. CASE ~ UNCHANGED outputs
    <3>1. Listed(g) /\ outputs' = [outputs EXCEPT ![Position(g)] = entry[g]]
      BY <2>2 DEF Store
    <3>2. Position(g) \in DOMAIN outputs /\ outputs[Position(g)].name = entry[g].name
      BY <3>1, PositionIs DEF Name
    <3> QED
      BY <1>2, <3>1, <3>2, Replaced DEF Typed
  <2> QED
    BY <2>1, <2>2
<1> QED
  BY <1>1, <1>2, <1>4, <1>5, LockTyped DEF Typed

\* append.
LEMMA AppendToTyped ==
  ASSUME Typed, NEW g \in Goroutines, AppendTo(g)
  PROVE  Typed'
<1>1. /\ pc' = [pc EXCEPT ![g] = "growing"] /\ pc[g] = "append"
      /\ list' = [list EXCEPT ![g] = outputs]
      /\ UNCHANGED <<outputs, lock, config, entry>>
  BY DEF AppendTo, Goto, At, adapterVars
<1>2. "growing" \in Places /\ pc'[g] = "growing" /\ pc[g] \in Holding /\ "growing" \in Holding
  BY <1>1 DEF Places, Typed, Holding
<1>3. /\ list' \in [Goroutines -> Seq(Output)] /\ list'[g] = outputs
      /\ \A h \in Goroutines : h # g => list'[h] = list[h]
  BY <1>1 DEF Typed
<1>4. lock' = g /\ ~Listed(g) /\ Distinct(outputs)
  BY <1>1, <1>2 DEF Typed, GoroutineTyped
<1>5. GoroutineTyped(g)'
  <2>1. Distinct(list'[g]) /\ Name(g)' \notin Names(list'[g]) /\ ~Listed(g)'
    BY <1>1, <1>3, <1>4 DEF Listed, Name
  <2> QED
    BY <1>2, <1>4, <2>1 DEF GoroutineTyped, Distinct, Names
<1> QED
  BY <1>1, <1>2, <1>3, <1>5, StepTyped DEF Typed

\* The place of the output is there.
LEMMA PlaceTyped ==
  ASSUME Typed, NEW g \in Goroutines, pc[g] = "growing", NEW seq \in Seq(Output),
         Distinct(seq), Name(g) \notin Names(seq),
         outputs' \in {outputs, Append(seq, entry[g])}, list' = [list EXCEPT ![g] = <<>>],
         Goto(g, "filling"), UNCHANGED <<lock, config, entry>>
  PROVE  Typed'
<1>1. /\ pc' = [pc EXCEPT ![g] = "filling"] /\ "filling" \in Places
      /\ pc[g] \in Holding /\ "filling" \in Holding
  BY DEF Goto, Places, Holding
<1>2. /\ pc'[g] = "filling" /\ list' \in [Goroutines -> Seq(Output)]
      /\ \A h \in Goroutines : h # g => pc'[h] = pc[h]
  BY <1>1 DEF Typed
<1>3. PICK e \in Output : e = entry[g]
  BY DEF Typed
<1>4. /\ Append(seq, e) \in Seq(Output) /\ Distinct(Append(seq, e))
      /\ Append(seq, e)[Len(Append(seq, e))].name = Name(g)
  <2>1. Append(seq, e)[Len(Append(seq, e))] = e
    OBVIOUS
  <2> QED
    BY <1>3, <2>1, Appended DEF Name
<1>5. outputs' \in Seq(Output) /\ Distinct(outputs')
  BY <1>3, <1>4 DEF Typed
<1>6. lock' = g /\ ~Listed(g) /\ Name(g)' = Name(g)
  BY <1>1 DEF Typed, GoroutineTyped, Name
<1>7. Listed(g)' => outputs'[Len(outputs')].name = Name(g)'
  <2>1. CASE outputs' = outputs
    BY <1>6, <2>1 DEF Listed
  <2>2. CASE outputs' = Append(seq, e)
    BY <1>4, <1>6, <2>2
  <2> QED
    BY <1>3, <2>1, <2>2
<1>8. GoroutineTyped(g)'
  BY <1>1, <1>2, <1>6, <1>7 DEF GoroutineTyped
<1>9. \A h \in Goroutines : h # g => GoroutineTyped(h)'
  <2> TAKE h \in Goroutines
  <2> HAVE h # g
  <2>1. pc'[h] = pc[h] /\ pc[h] \notin Holding
    BY <1>1, <1>2, LockHeld
  <2> QED
    BY <1>6, <2>1 DEF GoroutineTyped, Holding
<1> QED
  BY <1>1, <1>2, <1>5, <1>8, <1>9, LockTyped DEF Typed

LEMMA GrowListTyped ==
  ASSUME Typed, NEW g \in Goroutines, GrowList(g)
  PROVE  Typed'
<1>1. /\ pc[g] = "growing" /\ Goto(g, "filling") /\ UNCHANGED <<lock, config, entry>>
      /\ outputs' = Append(list[g], entry[g]) /\ list' = [list EXCEPT ![g] = <<>>]
  BY DEF GrowList, At, Publish, adapterVars
<1>2. list[g] \in Seq(Output) /\ Distinct(list[g]) /\ Name(g) \notin Names(list[g])
  BY <1>1 DEF Typed, GoroutineTyped
<1> QED
  BY <1>1, <1>2, PlaceTyped

LEMMA ExtendTyped ==
  ASSUME Typed, NEW g \in Goroutines, Extend(g)
  PROVE  Typed'
<1>1. /\ pc[g] = "growing" /\ Goto(g, "filling") /\ UNCHANGED <<lock, config, entry>>
      /\ outputs' \in {outputs, Append(outputs, entry[g])} /\ list' = [list EXCEPT ![g] = <<>>]
  BY DEF Extend, At, adapterVars
<1>2. outputs \in Seq(Output) /\ Distinct(outputs) /\ Name(g) \notin Names(outputs)
  BY <1>1 DEF Typed, GoroutineTyped, Listed
<1> QED
  BY <1>1, <1>2, PlaceTyped

\* A goroutine gives back the lock and returns.
LEMMA UnlockTyped ==
  ASSUME Typed, NEW g \in Goroutines, pc[g] \in Holding, Return(g), lock' = NoOne,
         outputs' \in {outputs, list[g]}, Distinct(outputs'),
         list' \in {list, [list EXCEPT ![g] = <<>>]}, UNCHANGED config
  PROVE  Typed'
<1>1. pc' = [pc EXCEPT ![g] = "idle"] /\ entry' = [entry EXCEPT ![g] = NoEntry]
  BY DEF Return, Goto
<1>2. entry' \in [Goroutines -> Output] /\ "idle" \in Places
  BY <1>1, EntryTypes DEF Typed, Places
<1>3. \A h \in Goroutines : pc'[h] \notin Holding
  BY <1>1, LockHeld DEF Typed, Holding
<1>4. \A h \in Goroutines : GoroutineTyped(h)'
  BY <1>3, LoggerAssumption DEF GoroutineTyped, Holding
<1>5. outputs' \in Seq(Output)
  BY DEF Typed
<1>6. list' \in [Goroutines -> Seq(Output)]
  <2>1. CASE list' = list
    BY <2>1 DEF Typed
  <2>2. CASE list' = [list EXCEPT ![g] = <<>>]
    BY <2>2 DEF Typed
  <2> QED
    BY <2>1, <2>2
<1> QED
  BY <1>1, <1>2, <1>4, <1>5, <1>6, LockTyped DEF Typed

LEMMA DelLoggerTyped ==
  ASSUME Typed, NEW g \in Goroutines, DelLogger(g)
  PROVE  Typed'
<1>1. /\ pc' = [pc EXCEPT ![g] = "deleting"] /\ lock = NoOne /\ lock' = g
      /\ list' = [list EXCEPT ![g] = Kept(outputs, Name(g))]
      /\ UNCHANGED <<outputs, config, entry>>
  BY DEF DelLogger, Lock, Goto
<1>2. "deleting" \in Places /\ "deleting" \in Holding
  BY DEF Places, Holding
<1>3. Kept(outputs, Name(g)) \in Seq(Output) /\ Distinct(Kept(outputs, Name(g)))
  BY KeptFacts DEF Typed
<1>4. /\ list' \in [Goroutines -> Seq(Output)] /\ Distinct(list'[g])
      /\ pc'[g] = "deleting" /\ \A h \in Goroutines : h # g => pc'[h] = pc[h]
  BY <1>1, <1>3 DEF Typed
<1>5. GoroutineTyped(g)'
  BY <1>1, <1>2, <1>4 DEF GoroutineTyped, Distinct
<1>6. \A h \in Goroutines : h # g => GoroutineTyped(h)'
  <2> TAKE h \in Goroutines
  <2> HAVE h # g
  <2>1. pc'[h] = pc[h] /\ pc[h] \notin Holding
    BY <1>1, <1>4, LockHeld
  <2> QED
    BY <1>1, <2>1 DEF GoroutineTyped, Holding
<1> QED
  BY <1>1, <1>2, <1>4, <1>5, <1>6, LockTyped DEF Typed

LEMMA CloseTyped ==
  ASSUME Typed, NEW g \in Goroutines, Close(g)
  PROVE  Typed'
<1>1. /\ pc' = [pc EXCEPT ![g] = "closing"] /\ pc[g] = "close"
      /\ UNCHANGED <<outputs, lock, config, entry, list>>
  BY DEF Close, Goto, At
<1>2. "closing" \in Places /\ pc'[g] = "closing"
  BY <1>1 DEF Places, Typed
<1>3. GoroutineTyped(g)'
  BY <1>1, <1>2 DEF Typed, GoroutineTyped, Holding
<1> QED
  BY <1>1, <1>2, <1>3, StepTyped DEF Typed

LEMMA ClosedTyped ==
  ASSUME Typed, NEW g \in Goroutines, Closed(g)
  PROVE  Typed'
<1>1. /\ pc' = [pc EXCEPT ![g] = "idle"] /\ entry' = [entry EXCEPT ![g] = NoEntry]
      /\ UNCHANGED <<lock, config>> /\ pc[g] = "closing"
      /\ outputs' = <<>> /\ list' = [list EXCEPT ![g] = <<>>]
  BY DEF Closed, Return, Goto, At, adapterVars, Publish
<1>2. entry' \in [Goroutines -> Output] /\ "idle" \in Places
  BY <1>1, EntryTypes DEF Typed, Places
<1>3. outputs' \in Seq(Output) /\ Distinct(outputs') /\ list' \in [Goroutines -> Seq(Output)]
  BY <1>1 DEF Typed, Distinct
<1>4. Names(outputs') = {}
  BY <1>1 DEF Names, Range
<1>5. \A h \in Goroutines : GoroutineTyped(h)'
  <2> TAKE h \in Goroutines
  <2>1. ~Listed(h)'
    BY <1>4 DEF Listed, Name
  <2>2. CASE h = g
    BY <1>1, <2>2 DEF Typed, GoroutineTyped, Holding
  <2>3. CASE h # g
    BY <1>1, <2>1, <2>3 DEF Typed, GoroutineTyped, Name
  <2> QED
    BY <2>2, <2>3
<1> QED
  BY <1>1, <1>2, <1>3, <1>5, LockTyped DEF Typed

LEMMA WriteMsgTyped ==
  ASSUME Typed, NEW g \in Goroutines, WriteMsg(g)
  PROVE  Typed'
<1>1. /\ pc' = [pc EXCEPT ![g] = "reading"] /\ pc[g] = "idle"
      /\ UNCHANGED <<outputs, lock, config, entry, list>>
  BY DEF WriteMsg, Goto, At, adapterVars
<1>2. "reading" \in Places /\ pc'[g] = "reading"
  BY <1>1 DEF Places, Typed
<1>3. GoroutineTyped(g)'
  BY <1>1, <1>2 DEF Typed, GoroutineTyped, Holding
<1> QED
  BY <1>1, <1>2, <1>3, StepTyped DEF Typed

LEMMA ReadLengthTyped ==
  ASSUME Typed, NEW g \in Goroutines, ReadLength(g)
  PROVE  Typed'
<1>1. /\ pc' = [pc EXCEPT ![g] = "writing"] /\ pc[g] = "reading"
      /\ UNCHANGED <<outputs, lock, config, entry, list>>
  BY DEF ReadLength, Goto, At, adapterVars
<1>2. "writing" \in Places /\ pc'[g] = "writing"
  BY <1>1 DEF Places, Typed
<1>3. GoroutineTyped(g)'
  BY <1>1, <1>2 DEF Typed, GoroutineTyped, Holding
<1> QED
  BY <1>1, <1>2, <1>3, StepTyped DEF Typed

\* A step that changes nothing of this.
LEMMA SameTyped ==
  ASSUME Typed, UNCHANGED <<outputs, lock, config, pc, entry, list>>
  PROVE  Typed'
BY DEF Typed, GoroutineTyped, Name, Listed, Distinct

\* Typed is inductive.
LEMMA TypedStep == Typed /\ [Next]_vars => Typed'
<1> SUFFICES ASSUME Typed, [Next]_vars PROVE Typed'
  OBVIOUS
<1>1. CASE UNCHANGED vars
  BY <1>1, SameTyped DEF vars, adapterVars
<1>2. CASE SaveMessage
  BY <1>2, SameTyped DEF SaveMessage
<1>3. ASSUME NEW g \in Goroutines, Calls(g) PROVE Typed'
  BY <1>3, CalledIs, CallTyped, WriteMsgTyped
<1>4. ASSUME NEW g \in Goroutines, Acquire(g) PROVE Typed'
  <2>1. CASE SetRefused(g)
    BY <2>1, ReturnTyped DEF SetRefused, At, Holding, adapterVars
  <2> QED
    BY <1>4, <2>1, SetLoggerTyped, DelLoggerTyped DEF Acquire
<1>5. ASSUME NEW g \in Goroutines, Proceed(g) PROVE Typed'
  <2>1. CASE Written(g)
    BY <2>1, ReturnTyped DEF Written, At, Holding, adapterVars
  <2>2. CASE LogWrite(g) \/ NilOutput(g)
    BY <2>2, SameTyped DEF LogWrite, NilOutput, adapterVars
  <2>3. CASE InitFails(g)
    BY <2>3, UnlockTyped DEF InitFails, At, Holding, adapterVars, Typed
  <2>4. CASE Fill(g)
    BY <2>4, UnlockTyped DEF Fill, At, Holding, adapterVars, Typed
  <2>5. CASE Deleted(g)
    <3>1. /\ pc[g] \in Holding /\ Return(g) /\ lock' = NoOne /\ outputs' = list[g]
          /\ list' = [list EXCEPT ![g] = <<>>] /\ UNCHANGED config /\ Distinct(list[g])
      BY <2>5 DEF Deleted, At, Holding, adapterVars, Publish, Typed, GoroutineTyped
    <3> QED
      BY <3>1, UnlockTyped
  <2>6. CASE NoneDeleted(g)
    BY <2>6, UnlockTyped DEF NoneDeleted, At, Holding, adapterVars, Typed
  <2> QED
    BY <1>5, <2>1, <2>2, <2>3, <2>4, <2>5, <2>6, InitAdapterTyped, StoreTyped, AppendToTyped,
       GrowListTyped, ExtendTyped, CloseTyped, ClosedTyped, ReadLengthTyped DEF Proceed
<1> QED
  BY <1>1, <1>2, <1>3, <1>4, <1>5 DEF Next
-----------------------------------------------------------------------------
(***************************************************************************)
(* OutputsOpen: while nothing is disturbed, a goroutine that holds the     *)
(* lock is the only one that keeps an output out of order, and it knows    *)
(* which.                                                                  *)
(***************************************************************************)

\* What OutputsOpen says of an output.
InOrder(o) ==
  \/ o.name \in failed
  \/ config[o.name] = o.config /\ (o.name \in open \/ (o.name = Elastic /\ o.config = Off))

Quiet == ~disturbed /\ ~crashed
Closing == \E g \in Goroutines : pc[g] = "closing"

\* What the holder of the lock has done so far.
Settled(g) ==
  /\ pc[g] \in {"replacing", "store"} => Listed(g)
  /\ pc[g] \in {"store", "append", "growing"} => InOrder(entry[g])
  /\ pc[g] = "growing" => list[g] = outputs
  /\ pc[g] = "filling" => \A o \in Range(outputs) : InOrder(o)
  /\ pc[g] = "deleting" => list[g] = Kept(outputs, Name(g))

OpenInv ==
  Quiet =>
    /\ Closing => lock = NoOne
    /\ ~Closing => \A o \in Range(outputs) :
                     InOrder(o) \/ (lock # NoOne /\ o.name = Name(lock))
    /\ \A g \in Goroutines : Settled(g)

LEMMA OpenInit == Init => OpenInv
<1> SUFFICES ASSUME Init PROVE OpenInv
  OBVIOUS
<1>1. Range(outputs) = {NoEntry}
  BY DEF Init, Range
<1>2. InOrder(NoEntry)
  BY DEF Init, InOrder, NoEntry, Adapters
<1>3. \A g \in Goroutines : Settled(g)
  BY DEF Init, Settled
<1>4. ~Closing
  BY DEF Init, Closing
<1> QED
  BY <1>1, <1>2, <1>3, <1>4 DEF OpenInv

\* A step of g, which does not have the lock and does not close, opens an adapter at
\* most.
LEMMA StepOpen ==
  ASSUME Typed, OpenInv, NEW g \in Goroutines,
         UNCHANGED <<outputs, lock, config, failed>>, open \subseteq open',
         Quiet' => Quiet,
         pc[g] \notin Holding \cup {"closing"}, pc'[g] \notin Holding \cup {"closing"},
         \A h \in Goroutines : h # g => pc'[h] = pc[h] /\ entry'[h] = entry[h] /\ list'[h] = list[h]
  PROVE  OpenInv'
<1> SUFFICES ASSUME Quiet', Quiet PROVE OpenInv'
  BY DEF OpenInv
<1>1. Closing' <=> Closing
  BY DEF Closing
<1>2. lock # g
  BY DEF Typed, GoroutineTyped
<1>3. lock # NoOne => Name(lock)' = Name(lock)
  BY <1>2 DEF Typed, Name
<1>4. \A o \in Range(outputs) : InOrder(o) => InOrder(o)'
  BY DEF InOrder
<1>5. \A h \in Goroutines : Settled(h)'
  <2> TAKE h \in Goroutines
  <2>1. CASE h = g
    BY <2>1 DEF Settled, Holding
  <2>2. CASE h # g
    <3>1. Settled(h) /\ pc'[h] = pc[h] /\ entry'[h] = entry[h] /\ list'[h] = list[h]
      BY <2>2 DEF OpenInv
    <3>2. InOrder(entry[h]) => InOrder(entry[h])'
      BY <3>1 DEF InOrder
    <3> QED
      BY <1>4, <3>1, <3>2 DEF Settled, Name, Listed
  <2> QED
    BY <2>1, <2>2
<1> QED
  BY <1>1, <1>3, <1>4, <1>5 DEF OpenInv

\* A step after which nobody has the lock: the outputs are in order or somebody closes.
LEMMA UnlockOpen ==
  ASSUME Typed, Typed', lock' = NoOne,
         Quiet' => \/ Closing'
                   \/ \A o \in Range(outputs') : InOrder(o)'
  PROVE  OpenInv'
<1>1. \A h \in Goroutines : pc'[h] \notin Holding
  BY LoggerAssumption DEF Typed, GoroutineTyped
<1>2. \A h \in Goroutines : Settled(h)'
  BY <1>1 DEF Settled, Holding
<1> QED
  BY <1>2 DEF OpenInv

\* The lock is taken: everything is in order but the output that is destroyed.
LEMMA LockOpen ==
  ASSUME Typed, OpenInv, NEW g \in Goroutines, Lock(g), NEW names \in SUBSET {Name(g)},
         Destroy(names), UNCHANGED <<outputs, config, failed, entry, crashed>>,
         pc'[g] # "closing",
         \A h \in Goroutines : h # g => pc'[h] = pc[h], Settled(g)'
  PROVE  OpenInv'
<1> SUFFICES ASSUME Quiet' PROVE OpenInv'
  BY DEF OpenInv
<1>1. Quiet /\ ~Closing /\ lock = NoOne /\ lock' = g
  BY DEF Quiet, Lock, Closing
<1>2. \A o \in Range(outputs) : InOrder(o)
  BY <1>1 DEF OpenInv
<1>3. Name(g)' = Name(g)
  BY DEF Name
<1>4. \A o \in Range(outputs) : InOrder(o)' \/ o.name = Name(g)
  BY <1>2 DEF InOrder, Destroy
<1>5. \A h \in Goroutines : h # g => pc'[h] \notin Holding
  BY <1>1, LockHeld
<1>6. \A h \in Goroutines : Settled(h)'
  BY <1>5 DEF Settled, Holding
<1>7. ~Closing' /\ lock' # NoOne
  BY <1>1, LoggerAssumption DEF Closing
<1> QED
  BY <1>1, <1>3, <1>4, <1>6, <1>7 DEF OpenInv

LEMMA CallOpen ==
  ASSUME Typed, OpenInv, NEW g \in Goroutines, NEW op \in {"set", "delete", "close"},
         NEW output \in Output, Call(g, op, output)
  PROVE  OpenInv'
<1>1. /\ pc' = [pc EXCEPT ![g] = op] /\ entry' = [entry EXCEPT ![g] = output] /\ pc[g] = "idle"
      /\ UNCHANGED <<outputs, lock, config, open, failed, list, crashed, disturbed>>
  BY DEF Call, Goto, At, adapterVars, history
<1>2. pc'[g] = op /\ \A h \in Goroutines : h # g => pc'[h] = pc[h] /\ entry'[h] = entry[h]
  BY <1>1 DEF Typed
<1> QED
  BY <1>1, <1>2, StepOpen DEF Quiet, Holding

LEMMA ReturnOpen ==
  ASSUME Typed, OpenInv, NEW g \in Goroutines, Return(g), pc[g] \notin Holding \cup {"closing"},
         UNCHANGED <<outputs, lock, config, open, failed, list, crashed, disturbed>>
  PROVE  OpenInv'
<1>1. pc' = [pc EXCEPT ![g] = "idle"] /\ entry' = [entry EXCEPT ![g] = NoEntry]
  BY DEF Return, Goto
<1>2. pc'[g] = "idle" /\ \A h \in Goroutines : h # g => pc'[h] = pc[h] /\ entry'[h] = entry[h]
  BY <1>1 DEF Typed
<1> QED
  BY <1>2, StepOpen DEF Quiet, Holding

LEMMA SetLoggerOpen ==
  ASSUME Typed, OpenInv, NEW g \in Goroutines, SetLogger(g)
  PROVE  OpenInv'
<1>1. /\ pc' = [pc EXCEPT ![g] = IF Listed(g) THEN "replacing" ELSE "adding"]
      /\ Lock(g) /\ UNCHANGED <<outputs, config, entry, list, failed, crashed>>
  BY DEF SetLogger, Goto
<1>2. \E names \in SUBSET {Name(g)} : Destroy(names)
  <2>1. Destroy({Name(g)}) \/ Destroy({})
    BY DEF SetLogger, Destroy
  <2> QED
    BY <2>1
<1>3. pc'[g] = (IF Listed(g) THEN "replacing" ELSE "adding")
      /\ \A h \in Goroutines : h # g => pc'[h] = pc[h]
  BY <1>1 DEF Typed
<1>4. Settled(g)'
  BY <1>1, <1>3 DEF Settled, Listed, Name
<1> QED
  BY <1>1, <1>2, <1>3, <1>4, LockOpen

LEMMA DelLoggerOpen ==
  ASSUME Typed, OpenInv, NEW g \in Goroutines, DelLogger(g)
  PROVE  OpenInv'
<1>1. /\ pc' = [pc EXCEPT ![g] = "deleting"] /\ list' = [list EXCEPT ![g] = Kept(outputs, Name(g))]
      /\ Lock(g) /\ UNCHANGED <<outputs, config, entry, failed, crashed>>
  BY DEF DelLogger, Goto
<1>2. \E names \in SUBSET {Name(g)} : Destroy(names)
  BY DEF DelLogger
<1>3. /\ pc'[g] = "deleting" /\ list'[g] = Kept(outputs, Name(g))
      /\ \A h \in Goroutines : h # g => pc'[h] = pc[h]
  BY <1>1 DEF Typed
<1>4. Settled(g)'
  BY <1>1, <1>3 DEF Settled, Name
<1> QED
  BY <1>1, <1>2, <1>3, <1>4, LockOpen

LEMMA InitFailsOpen ==
  ASSUME Typed, Typed', OpenInv, NEW g \in Goroutines, InitFails(g)
  PROVE  OpenInv'
<1>1. /\ failed' = failed \cup {Name(g)} /\ lock' = NoOne /\ pc[g] \in {"replacing", "adding"}
      /\ UNCHANGED <<outputs, open, config, crashed, disturbed>>
  BY DEF InitFails, At, adapterVars
<1>2. lock = g /\ lock # NoOne
  BY <1>1, LoggerAssumption DEF Typed, GoroutineTyped, Holding
<1>3. Quiet => \A o \in Range(outputs) : InOrder(o)'
  BY <1>1, <1>2 DEF OpenInv, InOrder
<1> QED
  BY <1>1, <1>3, UnlockOpen DEF Quiet

LEMMA InitAdapterOpen ==
  ASSUME Typed, OpenInv, NEW g \in Goroutines, InitAdapter(g)
  PROVE  OpenInv'
<1> DEFINE p == IF pc[g] = "adding" THEN "append" ELSE "store"
<1>1. /\ pc' = [pc EXCEPT ![g] = p] /\ UNCHANGED <<outputs, lock, entry, list, disturbed, crashed>>
      /\ open' = Opened(entry[g]) /\ failed' = failed \ {Name(g)}
      /\ config' = [config EXCEPT ![Name(g)] = entry[g].config]
      /\ pc[g] \in {"replacing", "adding"}
  BY DEF InitAdapter, Goto, At
<1>2. lock = g /\ lock # NoOne /\ Name(g) \in Adapters
  BY <1>1, LoggerAssumption DEF Typed, GoroutineTyped, Holding
<1> SUFFICES ASSUME Quiet PROVE OpenInv'
  BY <1>1 DEF OpenInv, Quiet
<1>3. pc'[g] = p /\ \A h \in Goroutines : h # g => pc'[h] = pc[h]
  BY <1>1 DEF Typed
<1>4. Name(g)' = Name(g) /\ (Listed(g)' <=> Listed(g))
  BY <1>1 DEF Name, Listed
<1>5. ~Closing /\ ~Closing'
  BY <1>1, <1>2, <1>3 DEF OpenInv, Closing
<1>6. config'[Name(g)] = entry[g].config
      /\ \A name : name # Name(g) => config'[name] = config[name]
  BY <1>1, <1>2 DEF Typed
<1>7. \A o \in Range(outputs) : InOrder(o)' \/ o.name = Name(g)
  BY <1>1, <1>2, <1>5, <1>6 DEF OpenInv, InOrder, Opened
<1>8. Settled(g)'
  <2>1. InOrder(entry[g])'
    BY <1>1, <1>6 DEF InOrder, Opened, Name
  <2>2. p = "store" => Listed(g)'
    BY <1>1, <1>4 DEF OpenInv, Settled
  <2> QED
    BY <1>1, <1>3, <2>1, <2>2 DEF Settled
<1>9. \A h \in Goroutines : Settled(h)'
  BY <1>1, <1>3, <1>8, LockHeld DEF Settled, Holding
<1> QED
  BY <1>1, <1>2, <1>4, <1>5, <1>7, <1>9 DEF OpenInv

LEMMA StoreOpen ==
  ASSUME Typed, Typed', OpenInv, NEW g \in Goroutines, Store(g)
  PROVE  OpenInv'
<1>1. /\ lock' = NoOne /\ pc[g] = "store" /\ UNCHANGED <<open, config, failed, disturbed>>
  BY DEF Store, At, adapterVars, history
<1>2. lock = g /\ lock # NoOne
  BY <1>1, LoggerAssumption DEF Typed, GoroutineTyped, Holding
<1> SUFFICES ASSUME Quiet' PROVE \A o \in Range(outputs') : InOrder(o)'
  BY <1>1, UnlockOpen
<1>3. Quiet
  BY <1>1 DEF Quiet, Store, At
<1>4. Settled(g) /\ \A o \in Range(outputs) : InOrder(o) \/ o.name = Name(g)
  BY <1>2, <1>3 DEF OpenInv
<1>5. outputs' = [outputs EXCEPT ![Position(g)] = entry[g]]
  BY DEF Store, Quiet
<1>6. PICK e \in Output : e = entry[g]
  BY DEF Typed
<1>7. InOrder(e)'
  BY <1>1, <1>4, <1>6 DEF Settled, InOrder
<1>8. \A o \in Range(outputs') : o = e \/ (o \in Range(outputs) /\ o.name # Name(g))
  <2>1. Position(g) \in DOMAIN outputs /\ outputs[Position(g)].name = entry[g].name
    BY <1>1, <1>4, PositionIs DEF Settled, Name
  <2> QED
    BY <1>5, <1>6, <2>1, Replaced DEF Typed, Name
<1>9. \A o \in Range(outputs) : InOrder(o) => InOrder(o)'
  BY <1>1 DEF InOrder
<1> QED
  BY <1>4, <1>7, <1>8, <1>9

\* append: the list grows by an output that is in order.
LEMMA AppendToOpen ==
  ASSUME Typed, OpenInv, NEW g \in Goroutines, AppendTo(g)
  PROVE  OpenInv'
<1>1. /\ pc' = [pc EXCEPT ![g] = "growing"] /\ pc[g] = "append"
      /\ list' = [list EXCEPT ![g] = outputs]
      /\ UNCHANGED <<outputs, lock, open, config, failed, entry, disturbed, crashed>>
  BY DEF AppendTo, Goto, At, adapterVars, history
<1> SUFFICES ASSUME Quiet PROVE OpenInv'
  BY <1>1 DEF OpenInv, Quiet
<1>2. /\ pc'[g] = "growing" /\ list'[g] = outputs
      /\ \A h \in Goroutines : h # g => pc'[h] = pc[h] /\ pc[h] \notin Holding
  BY <1>1, LockHeld DEF Typed, Holding
<1>3. Settled(g)'
  BY <1>1, <1>2 DEF OpenInv, Settled, InOrder
<1>4. \A h \in Goroutines : Settled(h)'
  BY <1>2, <1>3 DEF Settled, Holding
<1>5. (Closing' <=> Closing) /\ \A h : Name(h)' = Name(h)
  BY <1>1, <1>2 DEF Closing, Name
<1>6. \A o \in Range(outputs) : InOrder(o) => InOrder(o)'
  BY <1>1 DEF InOrder
<1> QED
  BY <1>1, <1>4, <1>5, <1>6 DEF OpenInv

LEMMA PlaceOpen ==
  ASSUME Typed, OpenInv, NEW g \in Goroutines, pc[g] = "growing", Goto(g, "filling"),
         Quiet' => outputs' = Append(outputs, entry[g]), Quiet' => Quiet,
         UNCHANGED <<lock, open, config, failed, entry>>
  PROVE  OpenInv'
<1> SUFFICES ASSUME Quiet, outputs' = Append(outputs, entry[g]) PROVE OpenInv'
  BY DEF OpenInv
<1>1. lock = g /\ lock # NoOne /\ ~Listed(g)
  BY LoggerAssumption DEF Typed, GoroutineTyped, Holding
<1>2. /\ pc'[g] = "filling" /\ Settled(g)
      /\ \A h \in Goroutines : h # g => pc'[h] = pc[h] /\ pc[h] \notin Holding
  BY LockHeld DEF Goto, Typed, Holding, OpenInv
<1>3. ~Closing /\ ~Closing'
  BY <1>1, <1>2 DEF OpenInv, Closing
<1>4. PICK e \in Output : e = entry[g]
  BY DEF Typed
<1>5. Range(outputs') = Range(outputs) \cup {e} /\ Name(g) \notin Names(outputs)
  BY <1>1, <1>4, Appended DEF Typed, Name, Listed
<1>6. InOrder(e)
  BY <1>2, <1>4 DEF Settled
<1>7. \A o \in Range(outputs) : InOrder(o)
  BY <1>1, <1>3, <1>5 DEF OpenInv, Names
<1>8. \A o \in Range(outputs') : InOrder(o)'
  BY <1>5, <1>6, <1>7 DEF InOrder
<1>9. \A h \in Goroutines : Settled(h)'
  BY <1>2, <1>8 DEF Settled, Holding
<1> QED
  BY <1>3, <1>8, <1>9 DEF OpenInv

LEMMA GrowListOpen ==
  ASSUME Typed, OpenInv, NEW g \in Goroutines, GrowList(g)
  PROVE  OpenInv'
<1>1. /\ pc[g] = "growing" /\ Goto(g, "filling") /\ outputs' = Append(list[g], entry[g])
      /\ UNCHANGED <<lock, open, config, failed, entry, disturbed, crashed>>
  BY DEF GrowList, At, Publish, adapterVars
<1>2. Quiet' => Quiet /\ list[g] = outputs
  BY <1>1 DEF Quiet, OpenInv, Settled
<1> QED
  BY <1>1, <1>2, PlaceOpen

LEMMA ExtendOpen ==
  ASSUME Typed, OpenInv, NEW g \in Goroutines, Extend(g)
  PROVE  OpenInv'
<1>1. /\ pc[g] = "growing" /\ Goto(g, "filling") /\ ~crashed
      /\ crashed' \/ outputs' = Append(outputs, entry[g])
      /\ UNCHANGED <<lock, open, config, failed, entry, disturbed>>
  BY DEF Extend, At, adapterVars, history
<1>2. Quiet' => Quiet /\ outputs' = Append(outputs, entry[g])
  BY <1>1 DEF Quiet
<1> QED
  BY <1>1, <1>2, PlaceOpen

LEMMA FillOpen ==
  ASSUME Typed, Typed', OpenInv, NEW g \in Goroutines, Fill(g)
  PROVE  OpenInv'
<1>1. /\ lock' = NoOne /\ pc[g] = "filling"
      /\ UNCHANGED <<outputs, open, config, failed, disturbed, crashed>>
  BY DEF Fill, At, adapterVars, history
<1>2. Quiet => \A o \in Range(outputs) : InOrder(o)'
  BY <1>1 DEF OpenInv, Settled, InOrder
<1> QED
  BY <1>1, <1>2, UnlockOpen DEF Quiet

\* The new list is shorter than the old, or nothing of the name was on that.
LEMMA DeletedOpen ==
  ASSUME Typed, Typed', OpenInv, NEW g \in Goroutines, Deleted(g) \/ NoneDeleted(g)
  PROVE  OpenInv'
<1>1. /\ lock' = NoOne /\ pc[g] = "deleting"
      /\ outputs' = IF Len(list[g]) = Len(outputs) THEN outputs ELSE list[g]
      /\ UNCHANGED <<open, config, failed, disturbed, crashed>>
  BY DEF Deleted, NoneDeleted, At, adapterVars, history, Publish
<1>2. lock = g /\ lock # NoOne
  BY <1>1, LoggerAssumption DEF Typed, GoroutineTyped, Holding
<1> SUFFICES ASSUME Quiet' PROVE \A o \in Range(outputs') : InOrder(o)'
  BY <1>1, UnlockOpen
<1>3. Quiet
  BY <1>1 DEF Quiet
<1>4. list[g] = Kept(outputs, Name(g)) /\ \A o \in Range(outputs) : InOrder(o) \/ o.name = Name(g)
  BY <1>1, <1>2, <1>3 DEF OpenInv, Settled
<1>5. outputs \in Seq(Output) /\ list[g] \in Seq(Output)
  BY DEF Typed
<1>6. \A o \in Range(outputs') : o \in Range(outputs) /\ o.name # Name(g)
  <2>1. CASE Len(list[g]) = Len(outputs)
    BY <1>1, <1>4, <1>5, <2>1, KeptFacts DEF Range
  <2>2. CASE Len(list[g]) # Len(outputs)
    BY <1>1, <1>4, <1>5, <2>2, KeptFacts DEF Range
  <2> QED
    BY <2>1, <2>2
<1>7. \A o \in Range(outputs) : InOrder(o) => InOrder(o)'
  BY <1>1 DEF InOrder
<1> QED
  BY <1>4, <1>6, <1>7

LEMMA CloseOpen ==
  ASSUME Typed, Typed', OpenInv, NEW g \in Goroutines, Close(g)
  PROVE  OpenInv'
<1>1. /\ pc' = [pc EXCEPT ![g] = "closing"] /\ disturbed' = (disturbed \/ lock # NoOne)
      /\ UNCHANGED lock
  BY DEF Close, Goto
<1>2. Closing'
  BY <1>1 DEF Closing, Typed
<1> SUFFICES ASSUME Quiet' PROVE OpenInv'
  BY DEF OpenInv
<1>3. lock' = NoOne
  BY <1>1 DEF Quiet
<1> QED
  BY <1>2, <1>3, UnlockOpen

LEMMA ClosedOpen ==
  ASSUME Typed, Typed', OpenInv, NEW g \in Goroutines, Closed(g)
  PROVE  OpenInv'
<1>1. outputs' = <<>> /\ pc[g] = "closing" /\ UNCHANGED <<lock, disturbed, crashed>>
  BY DEF Closed, At, Publish
<1> SUFFICES ASSUME Quiet' PROVE OpenInv'
  BY DEF OpenInv
<1>2. lock' = NoOne
  BY <1>1 DEF OpenInv, Quiet, Closing
<1>3. Range(outputs') = {}
  BY <1>1 DEF Range
<1> QED
  BY <1>2, <1>3, UnlockOpen

LEMMA WriteMsgOpen ==
  ASSUME Typed, OpenInv, NEW g \in Goroutines, WriteMsg(g)
  PROVE  OpenInv'
<1>1. /\ pc' = [pc EXCEPT ![g] = "reading"] /\ pc[g] = "idle"
      /\ UNCHANGED <<outputs, lock, config, open, failed, entry, list, crashed, disturbed>>
  BY DEF WriteMsg, Goto, At, adapterVars
<1>2. pc'[g] = "reading" /\ \A h \in Goroutines : h # g => pc'[h] = pc[h]
  BY <1>1 DEF Typed
<1> QED
  BY <1>1, <1>2, StepOpen DEF Quiet, Holding

LEMMA ReadLengthOpen ==
  ASSUME Typed, OpenInv, NEW g \in Goroutines, ReadLength(g)
  PROVE  OpenInv'
<1>1. /\ pc' = [pc EXCEPT ![g] = "writing"] /\ pc[g] = "reading" /\ ~crashed
      /\ UNCHANGED <<outputs, lock, config, open, failed, entry, list, disturbed>>
  BY DEF ReadLength, Goto, At, adapterVars, history
<1>2. pc'[g] = "writing" /\ \A h \in Goroutines : h # g => pc'[h] = pc[h]
  BY <1>1 DEF Typed
<1> QED
  BY <1>1, <1>2, StepOpen DEF Quiet, Holding

LEMMA LogWriteOpen ==
  ASSUME Typed, OpenInv, NEW g \in Goroutines, LogWrite(g) \/ NilOutput(g)
  PROVE  OpenInv'
<1>1. /\ pc[g] = "writing" /\ open \subseteq open' /\ ~crashed
      /\ UNCHANGED <<outputs, lock, config, failed, entry, list, pc, disturbed>>
  BY DEF LogWrite, NilOutput, At, ElasticWrite, adapterVars, history
<1> QED
  BY <1>1, StepOpen DEF Quiet, Holding

\* OpenInv is inductive.
LEMMA OpenStep == Typed /\ Typed' /\ OpenInv /\ [Next]_vars => OpenInv'
<1> SUFFICES ASSUME Typed, Typed', OpenInv, [Next]_vars PROVE OpenInv'
  OBVIOUS
<1>1. CASE UNCHANGED vars
  <2>1. UNCHANGED <<outputs, lock, open, config, crashed, pc, entry, list, failed, disturbed>>
    BY <1>1 DEF vars, adapterVars, history
  <2> QED
    BY <2>1 DEF OpenInv, Quiet, Closing, Settled, InOrder, Name, Listed
<1>2. CASE SaveMessage
  <2>1. UNCHANGED <<outputs, lock, open, config, pc, entry, list, failed, disturbed>> /\ ~crashed
    BY <1>2 DEF SaveMessage, history
  <2> QED
    BY <2>1 DEF OpenInv, Quiet, Closing, Settled, InOrder, Name, Listed
<1>3. ASSUME NEW g \in Goroutines, Calls(g) PROVE OpenInv'
  BY <1>3, CalledIs, CallOpen, WriteMsgOpen
<1>4. ASSUME NEW g \in Goroutines, Acquire(g) PROVE OpenInv'
  <2>1. CASE SetRefused(g)
    BY <2>1, ReturnOpen DEF SetRefused, At, Holding, adapterVars, history
  <2> QED
    BY <1>4, <2>1, SetLoggerOpen, DelLoggerOpen DEF Acquire
<1>5. ASSUME NEW g \in Goroutines, Proceed(g) PROVE OpenInv'
  <2>1. CASE Written(g)
    BY <2>1, ReturnOpen DEF Written, At, Holding, adapterVars
  <2> QED
    BY <1>5, <2>1, InitFailsOpen, InitAdapterOpen, StoreOpen, AppendToOpen, GrowListOpen,
       ExtendOpen, FillOpen, DeletedOpen, CloseOpen, ClosedOpen, ReadLengthOpen, LogWriteOpen
       DEF Proceed
<1> QED
  BY <1>1, <1>2, <1>3, <1>4, <1>5 DEF Next

\* The outputs on the list are open with their configurations, except those that Init
\* left closed and Elasticsearch when it is configured so (log.go:135-195, 315): whatever calls of SetLogger, DelLogger and
\* writeMsg are interleaved, as long as Close does not run beside the first two.
THEOREM OutputsAreOpen == Spec => []OutputsOpen
<1>1. Init => Typed /\ OpenInv
  BY TypedInit, OpenInit
<1>2. Typed /\ OpenInv /\ [Next]_vars => (Typed /\ OpenInv)'
  BY TypedStep, OpenStep
<1>3. Typed /\ OpenInv => OutputsOpen
  <2> SUFFICES ASSUME Typed, OpenInv, Quiet, \A g \in Goroutines : pc[g] \notin Changing,
                      NEW o \in Range(outputs), o.name \notin failed
               PROVE  InOrder(o)
    BY DEF OutputsOpen, Quiet, InOrder
  <2>1. ~Closing
    BY DEF Closing, Changing
  <2>2. lock = NoOne
    BY DEF Typed, GoroutineTyped, Holding, Changing
  <2> QED
    BY <2>1, <2>2 DEF OpenInv
<1> QED
  BY <1>1, <1>2, <1>3, PTL DEF Spec
-----------------------------------------------------------------------------
(***************************************************************************)
(* WholeMessages: what a message was given to and what is left of its      *)
(* array are together the names that it read.  The array may have a place  *)
(* for an output that is not stored yet: that one is due to nobody, and    *)
(* its name is not in the array before it is stored in that place.         *)
(***************************************************************************)

AllNames == {o.name : o \in Output}
Slots == AllNames \cup {NoName}

Whole(g) ==
  pc[g] = "writing" /\ ~torn[g] /\ ~crashed =>
    /\ due[g] \subseteq Range(got[g]) \cup Range(left[g])
    /\ IsInjective(got[g] \o left[g])

\* A place without an output in the array of a message is somebody's to fill.
Fillable(g) ==
  pc[g] = "writing" /\ ~torn[g] /\ ~crashed /\ NoName \in Range(left[g]) =>
    \E k \in Goroutines : pc[k] = "filling" /\ Name(k) \notin Range(got[g]) \cup Range(left[g])

\* The output that k is adding is due to no message.
NotDue(k) == pc[k] = "filling" /\ Listed(k) => \A g \in Goroutines : Name(k) \notin due[g]

WholeInv ==
  /\ got \in [Goroutines -> Seq(AllNames)]
  /\ left \in [Goroutines -> Seq(Slots)]
  /\ due \in [Goroutines -> SUBSET Names(outputs)]
  /\ torn \in [Goroutines -> BOOLEAN]
  /\ \A g \in Goroutines : /\ pc[g] # "writing" => got[g] = <<>>
                           /\ Whole(g) /\ Fillable(g) /\ NotDue(g)

LEMMA NoNameIsNone == NoName \notin AllNames
BY LoggerAssumption DEF AllNames, Output, NoEntry, Adapters

\* A sequence and another one behind it.
LEMMA ConcatIs ==
  ASSUME NEW S, NEW a \in Seq(S), NEW b \in Seq(S)
  PROVE  /\ a \o b \in Seq(S) /\ DOMAIN (a \o b) = 1 .. Len(a) + Len(b)
         /\ \A i \in 1 .. Len(a) + Len(b) :
              (a \o b)[i] = IF i <= Len(a) THEN a[i] ELSE b[i - Len(a)]
<1>1. a \o b \in Seq(S) /\ Len(a \o b) = Len(a) + Len(b)
  OBVIOUS
<1>2. \A i \in 1 .. Len(a) + Len(b) :
        (a \o b)[i] = IF i <= Len(a) THEN a[i] ELSE b[i - Len(a)]
  OBVIOUS
<1>3. DOMAIN (a \o b) = 1 .. Len(a \o b)
  BY <1>1
<1> QED
  BY <1>1, <1>2, <1>3

\* The first name of the array is given the message.
LEMMA HeadGiven ==
  ASSUME NEW S, NEW given \in Seq(S), NEW seq \in Seq(S), seq # <<>>
  PROVE  /\ Range(given) \cup Range(seq) = Range(Append(given, Head(seq))) \cup Range(Tail(seq))
         /\ given \o seq = Append(given, Head(seq)) \o Tail(seq)
<1> DEFINE n == Len(seq)
           m == Len(given)
           rest == Tail(seq)
           more == Append(given, Head(seq))
<1>1. n \in Nat /\ n > 0 /\ m \in Nat /\ Head(seq) = seq[1] /\ seq[1] \in S
  OBVIOUS
<1>2. /\ rest \in Seq(S) /\ Len(rest) = n - 1
      /\ \A i \in 1 .. n - 1 : rest[i] = seq[i + 1]
  OBVIOUS
<1>3. /\ more \in Seq(S) /\ Len(more) = m + 1 /\ more[m + 1] = seq[1]
      /\ \A i \in 1 .. m : more[i] = given[i]
  BY <1>1
<1>4. DOMAIN seq = 1 .. n /\ DOMAIN given = 1 .. m
  OBVIOUS
<1>5. DOMAIN rest = 1 .. n - 1 /\ DOMAIN more = 1 .. m + 1
  BY <1>2, <1>3
<1> HIDE DEF rest, more
<1>6. Range(seq) = {seq[1]} \cup Range(rest)
  <2>1. \A i \in 1 .. n : i = 1 \/ (i - 1 \in 1 .. n - 1 /\ rest[i - 1] = seq[i])
    BY <1>1, <1>2
  <2>2. 1 \in 1 .. n /\ \A i \in 1 .. n - 1 : i + 1 \in 1 .. n
    BY <1>1
  <2>3. ASSUME NEW x \in Range(seq) PROVE x \in {seq[1]} \cup Range(rest)
    <3>1. PICK i \in 1 .. n : seq[i] = x
      BY <1>4 DEF Range
    <3>2. i = 1 \/ (i - 1 \in DOMAIN rest /\ rest[i - 1] = x)
      BY <1>5, <2>1, <3>1
    <3> QED
      BY <3>1, <3>2 DEF Range
  <2>4. \A x \in {seq[1]} \cup Range(rest) : x \in Range(seq)
    BY <1>2, <1>4, <1>5, <2>2 DEF Range
  <2> QED
    BY <2>3, <2>4
<1>7. Range(more) = Range(given) \cup {seq[1]}
  <2>1. \A i \in 1 .. m + 1 : i \in 1 .. m \/ i = m + 1
    BY <1>1
  <2>2. m + 1 \in 1 .. m + 1 /\ \A i \in 1 .. m : i \in 1 .. m + 1
    BY <1>1
  <2> QED
    BY <1>3, <1>4, <1>5, <2>1, <2>2 DEF Range
<1> DEFINE a == given \o seq
           b == more \o rest
<1>8. /\ a \in Seq(S) /\ DOMAIN a = 1 .. m + n
      /\ \A i \in 1 .. m + n : a[i] = IF i <= m THEN given[i] ELSE seq[i - m]
  BY ConcatIs
<1>9. /\ b \in Seq(S) /\ DOMAIN b = 1 .. m + n
      /\ \A i \in 1 .. m + n : b[i] = IF i <= m + 1 THEN more[i] ELSE rest[i - (m + 1)]
  <2>1. /\ b \in Seq(S) /\ DOMAIN b = 1 .. Len(more) + Len(rest)
        /\ \A i \in 1 .. Len(more) + Len(rest) :
             b[i] = IF i <= Len(more) THEN more[i] ELSE rest[i - Len(more)]
    BY <1>2, <1>3, ConcatIs
  <2>2. Len(more) = m + 1 /\ Len(rest) = n - 1 /\ (m + 1) + (n - 1) = m + n
    BY <1>1, <1>2, <1>3
  <2> HIDE DEF b, m, n
  <2> QED
    BY <2>1, <2>2
<1> HIDE DEF a, b, m, n
<1>10. \A i \in 1 .. m + n : a[i] = b[i]
  <2> TAKE i \in 1 .. m + n
  <2>1. CASE i <= m
    <3>1. i \in 1 .. m /\ i <= m + 1
      BY <1>1, <2>1
    <3>2. a[i] = given[i]
      BY <1>8, <2>1
    <3>3. b[i] = more[i]
      BY <1>9, <3>1
    <3> QED
      BY <1>3, <3>1, <3>2, <3>3
  <2>2. CASE i = m + 1
    <3>1. a[i] = seq[1]
      BY <1>1, <1>8, <2>2
    <3>2. b[i] = more[m + 1]
      BY <1>1, <1>9, <2>2
    <3> QED
      BY <1>3, <3>1, <3>2
  <2>3. CASE i > m + 1
    <3>1. i - (m + 1) \in 1 .. n - 1 /\ (i - (m + 1)) + 1 = i - m
      BY <1>1, <2>3
    <3>2. a[i] = seq[i - m]
      BY <1>1, <1>8, <2>3
    <3>3. b[i] = rest[i - (m + 1)]
      BY <1>1, <1>9, <2>3
    <3> QED
      BY <1>2, <3>1, <3>2, <3>3
  <2> QED
    BY <1>1, <2>1, <2>2, <2>3
<1>11. a = b
  <2>1. a = [i \in 1 .. m + n |-> a[i]] /\ b = [i \in 1 .. m + n |-> b[i]]
    BY <1>8, <1>9
  <2> QED
    BY <1>10, <2>1
<1>12. Range(given) \cup Range(seq) = Range(more) \cup Range(rest)
  BY <1>6, <1>7
<1> QED
  BY <1>11, <1>12 DEF a, b, more, rest

\* A name comes to the place that had none.
Stored(seq, name) == [i \in DOMAIN seq |-> IF seq[i] = NoName THEN name ELSE seq[i]]

LEMMA StoredIs ==
  ASSUME NEW given \in Seq(AllNames), NEW seq \in Seq(Slots), NEW name \in AllNames
  PROVE  /\ Stored(seq, name) \in Seq(Slots) /\ NoName \notin Range(Stored(seq, name))
         /\ Range(seq) \ {NoName} \subseteq Range(Stored(seq, name))
         /\ NoName \notin Range(seq) => Stored(seq, name) = seq
         /\ IsInjective(given \o seq) /\ name \notin Range(given) \cup Range(seq)
              => IsInjective(given \o Stored(seq, name))
<1> DEFINE new == Stored(seq, name)
           m == Len(given)
           n == Len(seq)
<1>1. /\ m \in Nat /\ n \in Nat /\ DOMAIN seq = 1 .. n /\ DOMAIN given = 1 .. m
      /\ seq = [i \in 1 .. n |-> seq[i]]
  OBVIOUS
<1>2. new = [i \in 1 .. n |-> IF seq[i] = NoName THEN name ELSE seq[i]]
  BY <1>1 DEF Stored
<1>3. \A i \in 1 .. n : seq[i] \in Slots
  OBVIOUS
<1>4. new \in Seq(Slots) /\ Len(new) = n /\ DOMAIN new = 1 .. n
  <2>1. \A i \in 1 .. n : (IF seq[i] = NoName THEN name ELSE seq[i]) \in Slots
    BY <1>3 DEF Slots
  <2> QED
    BY <1>1, <1>2, <2>1
<1>5. \A i \in 1 .. n : new[i] = IF seq[i] = NoName THEN name ELSE seq[i]
  BY <1>2
<1> HIDE DEF new
<1>6. NoName # name
  BY NoNameIsNone
<1>7. NoName \notin Range(new) /\ Range(seq) \ {NoName} \subseteq Range(new)
  BY <1>1, <1>4, <1>5, <1>6 DEF Range
<1>8. ASSUME NoName \notin Range(seq)
      PROVE  new = seq
  <2>1. \A i \in 1 .. n : seq[i] # NoName
    BY <1>1, <1>8 DEF Range
  <2> QED
    BY <1>1, <1>2, <2>1 DEF new
<1>9. ASSUME IsInjective(given \o seq), name \notin Range(given) \cup Range(seq)
      PROVE  IsInjective(given \o new)
  <2> DEFINE a == given \o seq
             b == given \o new
  <2>1. given \in Seq(Slots)
    BY DEF Slots
  <2>2. /\ DOMAIN a = 1 .. m + n
        /\ \A i \in 1 .. m + n : a[i] = IF i <= m THEN given[i] ELSE seq[i - m]
    BY <2>1, ConcatIs
  <2>3. /\ DOMAIN b = 1 .. m + n
        /\ \A i \in 1 .. m + n : b[i] = IF i <= m THEN given[i] ELSE new[i - m]
    <3>1. /\ DOMAIN b = 1 .. m + Len(new)
          /\ \A i \in 1 .. m + Len(new) : b[i] = IF i <= m THEN given[i] ELSE new[i - m]
      BY <1>4, <2>1, ConcatIs
    <3> QED
      BY <1>4, <3>1
  <2>4. \A i, j \in 1 .. m + n : a[i] = a[j] => i = j
    BY <1>9, <2>2 DEF IsInjective
  <2> HIDE DEF a, b
  <2>5. \A i \in 1 .. m : given[i] # name /\ given[i] # NoName
    BY <1>1, <1>9, NoNameIsNone DEF Range
  <2>6. \A i \in 1 .. n : seq[i] # name
    BY <1>1, <1>9 DEF Range
  <2> HIDE DEF m, n
  <2>7. \A i \in 1 .. m + n : a[i] # name /\ b[i] = IF a[i] = NoName THEN name ELSE a[i]
    <3> TAKE i \in 1 .. m + n
    <3>1. CASE i <= m
      <4>1. i \in 1 .. m
        BY <1>1, <3>1
      <4> QED
        BY <2>2, <2>3, <2>5, <3>1, <4>1
    <3>2. CASE ~ (i <= m)
      <4>1. i - m \in 1 .. n
        BY <1>1, <3>2
      <4>2. a[i] = seq[i - m] /\ b[i] = new[i - m]
        BY <2>2, <2>3, <3>2
      <4> QED
        BY <1>5, <2>6, <4>1, <4>2
    <3> QED
      BY <3>1, <3>2
  <2>8. \A i, j \in 1 .. m + n : b[i] = b[j] => i = j
    BY <2>4, <2>7
  <2> QED
    BY <2>3, <2>8 DEF IsInjective, b
<1> QED
  BY <1>4, <1>7, <1>8, <1>9 DEF new

\* The array as it is.
LEMMA SeenIs ==
  ASSUME Typed, WholeInv
  PROVE  /\ Seen \in Seq(Slots) /\ IsInjective(<<>> \o Seen)
         /\ Range(Seen) \ {NoName} \subseteq Names(outputs)
         /\ \A g \in Goroutines : due[g] \subseteq Range(Seen)
         /\ \A k \in Goroutines : pc[k] = "filling" /\ Listed(k) => Name(k) \notin Range(Seen)
         /\ NoName \in Range(Seen) => Unfilled
<1> DEFINE n == Len(outputs)
           name(i) == IF Unfilled /\ i = n THEN NoName ELSE outputs[i].name
<1>1. n \in Nat /\ DOMAIN outputs = 1 .. n /\ \A i \in 1 .. n : outputs[i] \in Output
  BY DEF Typed
<1>2. Seen = [i \in 1 .. n |-> name(i)]
  BY <1>1 DEF Seen
<1>3. \A i \in 1 .. n : outputs[i].name \in AllNames /\ name(i) \in Slots
  BY <1>1 DEF AllNames, Slots
<1>4. \A i \in 1 .. n : outputs[i].name # NoName
  BY <1>3, NoNameIsNone
<1>5. Seen \in Seq(Slots) /\ DOMAIN Seen = 1 .. n /\ \A i \in 1 .. n : Seen[i] = name(i)
  <2> HIDE DEF name, n
  <2> QED
    BY <1>1, <1>2, <1>3
<1>6. \A i, j \in 1 .. n : outputs[i].name = outputs[j].name => i = j
  BY DEF Typed, Distinct
<1>7. IsInjective(<<>> \o Seen)
  <2>1. <<>> \o Seen = Seen
    BY <1>5
  <2>2. \A i, j \in 1 .. n : name(i) = name(j) => i = j
    BY <1>4, <1>6
  <2> HIDE DEF name, n
  <2>3. IsInjective(Seen)
    BY <1>5, <2>2 DEF IsInjective
  <2> QED
    BY <2>1, <2>3
<1>8. Range(Seen) \ {NoName} \subseteq Names(outputs)
  BY <1>1, <1>5 DEF Range, Names
<1>9. NoName \in Range(Seen) => Unfilled
  BY <1>4, <1>5 DEF Range
<1>10. ASSUME NEW k \in Goroutines, pc[k] = "filling", Listed(k)
       PROVE  /\ n \in 1 .. n /\ outputs[n].name = Name(k) /\ Unfilled
              /\ Name(k) \notin Range(Seen)
  <2>1. outputs[n].name = Name(k) /\ Unfilled
    BY <1>10 DEF Typed, GoroutineTyped, Unfilled
  <2>2. n \in 1 .. n
    <3>1. outputs # <<>>
      BY <1>10 DEF Listed, Names, Range
    <3> QED
      BY <1>1, <3>1 DEF Typed
  <2>3. \A i \in 1 .. n : name(i) # Name(k)
    BY <1>4, <1>6, <2>1, <2>2
  <2> HIDE DEF name, n
  <2> QED
    BY <1>5, <2>1, <2>2, <2>3 DEF Range
<1>11. ASSUME NEW g \in Goroutines, NEW x \in due[g]
       PROVE  x \in Range(Seen)
  <2>1. PICK i \in 1 .. n : outputs[i].name = x
    <3>1. x \in Names(outputs)
      BY <1>11 DEF WholeInv
    <3> QED
      BY <3>1, NamesAre DEF Typed
  <2>2. name(i) = x
    <3>1. CASE Unfilled /\ i = n
      <4>1. PICK k \in Goroutines : pc[k] = "filling" /\ Listed(k)
        BY <3>1 DEF Unfilled
      <4>2. x = Name(k)
        BY <1>10, <2>1, <3>1, <4>1
      <4> QED
        BY <1>11, <4>1, <4>2 DEF WholeInv, NotDue
    <3>2. CASE ~ (Unfilled /\ i = n)
      BY <2>1, <3>2
    <3> QED
      BY <3>1, <3>2
  <2> HIDE DEF name, n
  <2> QED
    BY <1>5, <2>1, <2>2 DEF Range
<1> QED
  BY <1>5, <1>7, <1>8, <1>9, <1>10, <1>11

LEMMA WholeInit == Init => WholeInv
<1> SUFFICES ASSUME Init PROVE WholeInv
  OBVIOUS
<1>1. <<>> \in Seq(AllNames) /\ <<>> \in Seq(Slots)
  OBVIOUS
<1>2. got \in [Goroutines -> Seq(AllNames)] /\ left \in [Goroutines -> Seq(Slots)]
  BY <1>1 DEF Init
<1>3. due \in [Goroutines -> SUBSET Names(outputs)] /\ torn \in [Goroutines -> BOOLEAN]
  BY DEF Init
<1>4. \A g \in Goroutines : pc[g] = "idle" /\ got[g] = <<>>
  BY DEF Init
<1> QED
  BY <1>2, <1>3, <1>4 DEF WholeInv, Whole, Fillable, NotDue

\* A step of g, which does not write a message, leaves what was given to the outputs.
LEMMA ElsewhereWhole ==
  ASSUME Typed, WholeInv, NEW g \in Goroutines,
         pc[g] \notin {"writing", "filling"}, pc'[g] # "writing",
         \A h \in Goroutines :
           h # g => pc'[h] = pc[h] /\ entry'[h] = entry[h] /\ left'[h] = left[h],
         left' \in [Goroutines -> Seq(Slots)], UNCHANGED got, crashed => crashed',
         torn' \in [Goroutines -> BOOLEAN], \A h \in Goroutines : torn[h] => torn'[h],
         due' \in [Goroutines -> SUBSET Names(outputs')],
         \A h \in Goroutines : h # g => due'[h] \subseteq due[h],
         \A k \in Goroutines : NotDue(k)'
  PROVE  WholeInv'
<1>1. ASSUME NEW h \in Goroutines
      PROVE  (pc'[h] # "writing" => got'[h] = <<>>) /\ Whole(h)' /\ Fillable(h)'
  <2>1. CASE h = g
    BY <2>1 DEF WholeInv, Whole, Fillable
  <2>2. CASE h # g
    <3>1. /\ pc'[h] = pc[h] /\ left'[h] = left[h] /\ due'[h] \subseteq due[h]
          /\ got'[h] = got[h] /\ torn[h] => torn'[h]
      BY <2>2
    <3>2. (pc[h] # "writing" => got[h] = <<>>) /\ Whole(h) /\ Fillable(h)
      BY DEF WholeInv
    <3>3. Whole(h)'
      BY <3>1, <3>2 DEF Whole
    <3>4. \A k \in Goroutines : pc[k] = "filling" => pc'[k] = "filling" /\ Name(k)' = Name(k)
      BY DEF Name
    <3>5. Fillable(h)'
      BY <3>1, <3>2, <3>4 DEF Fillable
    <3> QED
      BY <3>1, <3>2, <3>3, <3>5
  <2> QED
    BY <2>1, <2>2
<1>2. got' \in [Goroutines -> Seq(AllNames)]
  BY DEF WholeInv
<1> QED
  BY <1>1, <1>2 DEF WholeInv

\* A step of g to a place where it does not write either.
LEMMA MoveWhole ==
  ASSUME Typed, WholeInv, NEW g \in Goroutines, NEW p \in Places \ {"writing", "filling"},
         pc[g] \notin {"writing", "filling"}, pc' = [pc EXCEPT ![g] = p],
         \A h \in Goroutines : h # g => entry'[h] = entry[h],
         UNCHANGED <<outputs, due, got, torn, left>>, crashed => crashed'
  PROVE  WholeInv'
<1>1. pc'[g] = p /\ \A h \in Goroutines : h # g => pc'[h] = pc[h]
  BY DEF Typed
<1>2. /\ due' \in [Goroutines -> SUBSET Names(outputs')] /\ torn' \in [Goroutines -> BOOLEAN]
      /\ left' \in [Goroutines -> Seq(Slots)]
  BY DEF WholeInv
<1>3. \A k \in Goroutines : NotDue(k)'
  BY <1>1 DEF WholeInv, NotDue, Listed, Name
<1>4. \A h \in Goroutines : torn[h] => torn'[h]
  OBVIOUS
<1> QED
  BY <1>1, <1>2, <1>3, <1>4, ElsewhereWhole

LEMMA StoreWhole ==
  ASSUME Typed, WholeInv, NEW g \in Goroutines, Store(g)
  PROVE  WholeInv'
<1>1. /\ pc' = [pc EXCEPT ![g] = "idle"] /\ entry' = [entry EXCEPT ![g] = NoEntry]
      /\ pc[g] = "store" /\ UNCHANGED <<due, got, torn, left>> /\ ~crashed
  BY DEF Store, Return, Goto, At, history
<1>2. pc'[g] = "idle" /\ \A h \in Goroutines : h # g => pc'[h] = pc[h] /\ entry'[h] = entry[h]
  BY <1>1 DEF Typed
<1>3. Names(outputs') = Names(outputs)
  <2>1. CASE Listed(g)
    <3>1. /\ Position(g) \in DOMAIN outputs /\ outputs[Position(g)].name = entry[g].name
          /\ outputs' = [outputs EXCEPT ![Position(g)] = entry[g]] /\ entry[g] \in Output
      BY <2>1, PositionIs DEF Store, Name, Typed
    <3> QED
      BY <3>1, Replaced DEF Typed
  <2>2. CASE ~Listed(g)
    BY <2>2 DEF Store
  <2> QED
    BY <2>1, <2>2
<1>4. \A k \in Goroutines : NotDue(k)'
  BY <1>1, <1>2, LockHeld DEF NotDue, Holding
<1>5. /\ due' \in [Goroutines -> SUBSET Names(outputs')] /\ torn' \in [Goroutines -> BOOLEAN]
      /\ left' \in [Goroutines -> Seq(Slots)]
  BY <1>1, <1>3 DEF WholeInv
<1>6. \A h \in Goroutines : torn[h] => torn'[h]
  BY <1>1
<1> QED
  BY <1>1, <1>2, <1>4, <1>5, <1>6, ElsewhereWhole

\* What a new array does to messages.
LEMMA PublishIs ==
  ASSUME Typed, WholeInv, NEW g \in Goroutines, NEW new, Publish(g, new)
  PROVE  /\ outputs' = new /\ UNCHANGED left /\ left' \in [Goroutines -> Seq(Slots)]
         /\ due' \in [Goroutines -> SUBSET Names(outputs')]
         /\ \A h \in Goroutines : due'[h] \subseteq due[h]
         /\ torn' \in [Goroutines -> BOOLEAN] /\ \A h \in Goroutines : torn[h] => torn'[h]
<1>1. /\ outputs' = new /\ UNCHANGED left
      /\ due' = [h \in Goroutines |-> due[h] \cap Names(new)]
      /\ torn' = [h \in Goroutines |-> torn[h] \/ pc[h] = "reading"]
  BY DEF Publish
<1>2. left' \in [Goroutines -> Seq(Slots)]
  BY <1>1 DEF WholeInv
<1>3. /\ due' \in [Goroutines -> SUBSET Names(outputs')]
      /\ \A h \in Goroutines : due'[h] \subseteq due[h]
  BY <1>1
<1>4. torn' \in [Goroutines -> BOOLEAN]
  BY <1>1
<1>5. \A h \in Goroutines : torn[h] => torn'[h]
  BY <1>1
<1> QED
  BY <1>1, <1>2, <1>3, <1>4, <1>5

\* Nobody is due an output that has got its place in this step.
LEMMA PlaceNotDue ==
  ASSUME Typed, WholeInv, NEW g \in Goroutines, pc[g] = "growing", Goto(g, "filling"),
         UNCHANGED entry, \A h \in Goroutines : due'[h] \subseteq due[h]
  PROVE  \A k \in Goroutines : NotDue(k)'
<1>1. /\ pc'[g] = "filling"
      /\ \A h \in Goroutines : h # g => pc'[h] = pc[h] /\ pc[h] \notin Holding
  BY LockHeld DEF Goto, Typed, Holding
<1>2. Name(g) \notin Names(outputs) /\ Name(g)' = Name(g)
  BY DEF Typed, GoroutineTyped, Listed, Name
<1>3. \A h \in Goroutines : Name(g)' \notin due'[h]
  BY <1>2 DEF WholeInv
<1> QED
  BY <1>1, <1>3 DEF NotDue, Holding

LEMMA GrowListWhole ==
  ASSUME Typed, WholeInv, NEW g \in Goroutines, GrowList(g)
  PROVE  WholeInv'
<1>1. /\ pc[g] = "growing" /\ Goto(g, "filling") /\ Publish(g, Append(list[g], entry[g]))
      /\ UNCHANGED <<entry, got, crashed>>
  BY DEF GrowList, At
<1>2. pc'[g] = "filling" /\ \A h \in Goroutines : h # g => pc'[h] = pc[h]
  BY <1>1 DEF Goto, Typed
<1>3. \A k \in Goroutines : NotDue(k)'
  BY <1>1, PublishIs, PlaceNotDue
<1> QED
  BY <1>1, <1>2, <1>3, PublishIs, ElsewhereWhole

LEMMA ExtendWhole ==
  ASSUME Typed, WholeInv, NEW g \in Goroutines, Extend(g)
  PROVE  WholeInv'
<1>1. /\ pc[g] = "growing" /\ Goto(g, "filling") /\ ~crashed
      /\ UNCHANGED <<entry, got, due, torn, left>>
      /\ outputs' \in {outputs, Append(outputs, entry[g])}
  BY DEF Extend, At, history
<1>2. pc'[g] = "filling" /\ \A h \in Goroutines : h # g => pc'[h] = pc[h]
  BY <1>1 DEF Goto, Typed
<1>3. \A k \in Goroutines : NotDue(k)'
  BY <1>1, PlaceNotDue
<1>4. Names(outputs) \subseteq Names(outputs')
  <2>1. CASE outputs' = outputs
    BY <2>1
  <2>2. CASE outputs' = Append(outputs, entry[g])
    <3>1. /\ entry[g] \in Output /\ entry[g].name \notin Names(outputs)
          /\ outputs \in Seq(Output) /\ Distinct(outputs)
      BY <1>1 DEF Typed, GoroutineTyped, Listed, Name
    <3>2. Range(outputs') = Range(outputs) \cup {entry[g]}
      BY <2>2, <3>1, Appended
    <3> QED
      BY <3>2 DEF Names
  <2> QED
    BY <1>1, <2>1, <2>2
<1>5. /\ due' \in [Goroutines -> SUBSET Names(outputs')] /\ torn' \in [Goroutines -> BOOLEAN]
      /\ left' \in [Goroutines -> Seq(Slots)]
  BY <1>1, <1>4 DEF WholeInv
<1>6. \A h \in Goroutines : torn[h] => torn'[h]
  BY <1>1
<1> QED
  BY <1>1, <1>2, <1>3, <1>5, <1>6, ElsewhereWhole

LEMMA DeletedWhole ==
  ASSUME Typed, WholeInv, NEW g \in Goroutines, Deleted(g)
  PROVE  WholeInv'
<1>1. /\ pc[g] = "deleting" /\ Return(g) /\ Publish(g, list[g]) /\ UNCHANGED <<got, crashed>>
  BY DEF Deleted, At
<1>2. /\ pc'[g] = "idle"
      /\ \A h \in Goroutines : h # g => pc'[h] = pc[h] /\ entry'[h] = entry[h]
  BY <1>1 DEF Return, Goto, Typed
<1>3. \A k \in Goroutines : NotDue(k)'
  BY <1>1, <1>2, LockHeld DEF NotDue, Holding
<1> QED
  BY <1>1, <1>2, <1>3, PublishIs, ElsewhereWhole

LEMMA ClosedWhole ==
  ASSUME Typed, WholeInv, NEW g \in Goroutines, Closed(g)
  PROVE  WholeInv'
<1>1. /\ pc[g] = "closing" /\ Return(g) /\ Publish(g, <<>>) /\ UNCHANGED <<got, crashed>>
  BY DEF Closed, At
<1>2. /\ pc'[g] = "idle"
      /\ \A h \in Goroutines : h # g => pc'[h] = pc[h] /\ entry'[h] = entry[h]
  BY <1>1 DEF Return, Goto, Typed
<1>3. \A k \in Goroutines : ~Listed(k)'
  BY <1>1 DEF Publish, Listed, Names, Range
<1>4. \A k \in Goroutines : NotDue(k)'
  BY <1>3 DEF NotDue
<1> QED
  BY <1>1, <1>2, <1>4, PublishIs, ElsewhereWhole

LEMMA WriteMsgWhole ==
  ASSUME Typed, WholeInv, NEW g \in Goroutines, WriteMsg(g)
  PROVE  WholeInv'
<1>1. /\ pc' = [pc EXCEPT ![g] = "reading"] /\ left' = [left EXCEPT ![g] = Seen]
      /\ pc[g] = "idle" /\ due' = [due EXCEPT ![g] = Range(Seen) \ {NoName}]
      /\ UNCHANGED <<outputs, entry, got, torn, crashed>>
  BY DEF WriteMsg, Goto, At
<1>2. pc'[g] = "reading" /\ \A h \in Goroutines : h # g => pc'[h] = pc[h] /\ left'[h] = left[h]
  BY <1>1 DEF Typed, WholeInv
<1>3. Seen \in Seq(Slots) /\ Range(Seen) \ {NoName} \subseteq Names(outputs)
  BY SeenIs
<1>4. PICK seen : seen = Seen
  OBVIOUS
<1>5. left' \in [Goroutines -> Seq(Slots)] /\ torn' \in [Goroutines -> BOOLEAN]
  BY <1>1, <1>3, <1>4 DEF WholeInv
<1>6. /\ due' \in [Goroutines -> SUBSET Names(outputs')] /\ due'[g] = Range(seen) \ {NoName}
      /\ \A h \in Goroutines : h # g => due'[h] = due[h]
  BY <1>1, <1>3, <1>4 DEF WholeInv
<1>7. ASSUME NEW k \in Goroutines PROVE NotDue(k)'
  <2>1. pc'[k] = "filling" => pc[k] = "filling"
    BY <1>2
  <2>2. (Listed(k)' <=> Listed(k)) /\ Name(k)' = Name(k)
    BY <1>1 DEF Listed, Name
  <2>3. pc[k] = "filling" /\ Listed(k) => Name(k) \notin Range(seen)
    BY <1>4, SeenIs
  <2>4. NotDue(k)
    BY DEF WholeInv
  <2> QED
    BY <1>6, <2>1, <2>2, <2>3, <2>4 DEF NotDue
<1>8. \A h \in Goroutines : torn[h] => torn'[h]
  BY <1>1
<1> QED
  BY <1>1, <1>2, <1>5, <1>6, <1>7, <1>8, ElsewhereWhole

LEMMA ReadLengthWhole ==
  ASSUME Typed, WholeInv, NEW g \in Goroutines, ReadLength(g)
  PROVE  WholeInv'
<1>1. /\ pc' = [pc EXCEPT ![g] = "writing"] /\ pc[g] = "reading" /\ ~crashed
      /\ UNCHANGED <<outputs, entry, due, got, torn>>
  BY DEF ReadLength, Goto, At, history
<1>2. pc'[g] = "writing" /\ \A h \in Goroutines : h # g => pc'[h] = pc[h]
  BY <1>1 DEF Typed
<1>3. PICK new : /\ new \in Seq(Slots) /\ left' = [left EXCEPT ![g] = new]
                 /\ ~torn[g] => new = Seen
  <2>1. left[g] \in Seq(Slots) /\ Seen \in Seq(Slots) /\ Len(outputs) \in Nat
    BY SeenIs DEF WholeInv, Typed
  <2>2. CASE ~torn[g]
    BY <2>1, <2>2 DEF ReadLength
  <2>3. CASE torn[g] /\ Len(outputs) > Len(left[g])
    <3>1. left' = [left EXCEPT ![g] = <<>>]
      BY <2>3 DEF ReadLength
    <3>2. <<>> \in Seq(Slots)
      OBVIOUS
    <3> QED
      BY <2>3, <3>1, <3>2
  <2>4. CASE torn[g] /\ ~ (Len(outputs) > Len(left[g]))
    <3>1. left' = [left EXCEPT ![g] = SubSeq(left[g], 1, Len(outputs))]
      BY <2>4 DEF ReadLength
    <3>2. SubSeq(left[g], 1, Len(outputs)) \in Seq(Slots)
      BY <2>1, <2>4
    <3> QED
      BY <2>4, <3>1, <3>2
  <2> QED
    BY <2>2, <2>3, <2>4
<1>4. /\ left' \in [Goroutines -> Seq(Slots)] /\ left'[g] = new
      /\ \A h \in Goroutines : h # g => left'[h] = left[h]
  BY <1>3 DEF WholeInv
<1>5. got[g] = <<>> /\ got'[g] = <<>>
  BY <1>1 DEF WholeInv
<1>6. Whole(g)'
  <2> SUFFICES ASSUME ~torn[g]
               PROVE  /\ due'[g] \subseteq Range(got'[g]) \cup Range(left'[g])
                      /\ IsInjective(got'[g] \o left'[g])
    BY <1>1 DEF Whole
  <2>1. due[g] \subseteq Range(new) /\ IsInjective(<<>> \o new)
    BY <1>3, SeenIs
  <2> QED
    BY <1>1, <1>4, <1>5, <2>1
<1>7. Fillable(g)'
  <2> SUFFICES ASSUME ~torn[g], NoName \in Range(new)
               PROVE  \E k \in Goroutines : /\ pc'[k] = "filling"
                                            /\ Name(k)' \notin Range(got'[g]) \cup Range(left'[g])
    BY <1>1, <1>4 DEF Fillable
  <2>1. PICK k \in Goroutines : pc[k] = "filling" /\ Listed(k)
    BY <1>3, SeenIs DEF Unfilled
  <2>2. Name(k) \notin Range(new)
    BY <1>3, <2>1, SeenIs
  <2>3. pc'[k] = "filling" /\ Name(k)' = Name(k) /\ Range(got'[g]) = {}
    BY <1>1, <1>2, <1>5, <2>1 DEF Name, Range
  <2> QED
    BY <1>4, <2>2, <2>3
<1>8. ASSUME NEW h \in Goroutines
      PROVE  (pc'[h] # "writing" => got'[h] = <<>>) /\ Whole(h)' /\ Fillable(h)' /\ NotDue(h)'
  <2>1. (pc[h] # "writing" => got[h] = <<>>) /\ Whole(h) /\ Fillable(h) /\ NotDue(h)
    BY DEF WholeInv
  <2>2. NotDue(h)'
    BY <1>1, <1>2, <2>1 DEF NotDue, Listed, Name
  <2>3. CASE h = g
    BY <1>5, <1>6, <1>7, <2>2, <2>3
  <2>4. CASE h # g
    <3>1. pc'[h] = pc[h] /\ left'[h] = left[h] /\ got'[h] = got[h]
      BY <1>1, <1>2, <1>4, <2>4
    <3>2. \A k \in Goroutines : pc[k] = "filling" => pc'[k] = "filling" /\ Name(k)' = Name(k)
      BY <1>1, <1>2 DEF Name
    <3>3. Whole(h)'
      BY <1>1, <2>1, <3>1 DEF Whole
    <3>4. Fillable(h)'
      BY <1>1, <2>1, <3>1, <3>2 DEF Fillable
    <3> QED
      BY <2>1, <2>2, <3>1, <3>3, <3>4
  <2> QED
    BY <2>3, <2>4
<1> QED
  BY <1>1, <1>4, <1>8 DEF WholeInv

LEMMA LogWriteWhole ==
  ASSUME Typed, WholeInv, NEW g \in Goroutines, LogWrite(g)
  PROVE  WholeInv'
<1> DEFINE name == Head(left[g])
<1>1. /\ got' = [got EXCEPT ![g] = Append(got[g], name)]
      /\ left' = [left EXCEPT ![g] = Tail(left[g])]
      /\ left[g] # <<>> /\ pc[g] = "writing" /\ name # NoName
      /\ UNCHANGED <<outputs, crashed, pc, entry, due, torn>>
  BY DEF LogWrite, At
<1>2. got[g] \in Seq(AllNames) /\ got[g] \in Seq(Slots) /\ left[g] \in Seq(Slots)
  <2>1. got[g] \in Seq(AllNames) /\ left[g] \in Seq(Slots)
    BY DEF WholeInv
  <2> QED
    BY <2>1 DEF Slots
<1>3. /\ Range(got[g]) \cup Range(left[g]) = Range(Append(got[g], name)) \cup Range(Tail(left[g]))
      /\ got[g] \o left[g] = Append(got[g], name) \o Tail(left[g])
  BY <1>1, <1>2, HeadGiven
<1>4. Append(got[g], name) \in Seq(AllNames) /\ Tail(left[g]) \in Seq(Slots)
  <2>1. name \in Slots /\ Tail(left[g]) \in Seq(Slots)
    BY <1>1, <1>2
  <2>2. name \in AllNames
    BY <1>1, <2>1 DEF Slots
  <2> QED
    BY <1>2, <2>1, <2>2
<1>5. /\ got'[g] = Append(got[g], name) /\ left'[g] = Tail(left[g])
      /\ \A h \in Goroutines : h # g => got'[h] = got[h] /\ left'[h] = left[h]
  BY <1>1 DEF WholeInv
<1>6. got' \in [Goroutines -> Seq(AllNames)] /\ left' \in [Goroutines -> Seq(Slots)]
  BY <1>1, <1>4 DEF WholeInv
<1> HIDE DEF name
<1>7. \A k \in Goroutines : Name(k)' = Name(k) /\ (NotDue(k)' <=> NotDue(k))
  BY <1>1 DEF Name, NotDue, Listed
<1>8. Whole(g)'
  BY <1>1, <1>3, <1>5 DEF WholeInv, Whole
<1>9. Fillable(g)'
  <2>1. Fillable(g)
    BY DEF WholeInv
  <2>2. NoName \in Range(left'[g]) => NoName \in Range(left[g])
    <3>1. NoName \notin Range(got[g])
      BY <1>2, NoNameIsNone DEF Range
    <3> QED
      BY <1>3, <1>5, <3>1
  <2> QED
    BY <1>1, <1>3, <1>5, <1>7, <2>1, <2>2 DEF Fillable
<1>10. ASSUME NEW h \in Goroutines, h # g
       PROVE  (pc'[h] # "writing" => got'[h] = <<>>) /\ Whole(h)' /\ Fillable(h)'
  <2>1. (pc[h] # "writing" => got[h] = <<>>) /\ Whole(h) /\ Fillable(h)
    BY DEF WholeInv
  <2>2. got'[h] = got[h] /\ left'[h] = left[h]
    BY <1>5, <1>10
  <2>3. Whole(h)'
    BY <1>1, <2>1, <2>2 DEF Whole
  <2>4. Fillable(h)'
    BY <1>1, <1>7, <2>1, <2>2 DEF Fillable
  <2> QED
    BY <1>1, <2>1, <2>2, <2>3, <2>4
<1> QED
  BY <1>1, <1>6, <1>7, <1>8, <1>9, <1>10 DEF WholeInv

LEMMA WrittenWhole ==
  ASSUME Typed, WholeInv, NEW g \in Goroutines, Written(g)
  PROVE  WholeInv'
<1>1. /\ pc' = [pc EXCEPT ![g] = "idle"] /\ got' = [got EXCEPT ![g] = <<>>]
      /\ torn' = [torn EXCEPT ![g] = FALSE] /\ due' = [due EXCEPT ![g] = {}]
      /\ entry' = [entry EXCEPT ![g] = NoEntry]
      /\ UNCHANGED <<outputs, crashed, left>> /\ pc[g] = "writing"
  BY DEF Written, Return, Goto, At
<1>2. <<>> \in Seq(AllNames)
  OBVIOUS
<1>3. /\ got' \in [Goroutines -> Seq(AllNames)] /\ torn' \in [Goroutines -> BOOLEAN]
      /\ due' \in [Goroutines -> SUBSET Names(outputs')] /\ left' \in [Goroutines -> Seq(Slots)]
      /\ pc'[g] = "idle" /\ got'[g] = <<>> /\ due'[g] = {}
      /\ \A h \in Goroutines :
           h # g => /\ pc'[h] = pc[h] /\ got'[h] = got[h] /\ torn'[h] = torn[h]
                    /\ due'[h] = due[h] /\ entry'[h] = entry[h]
  BY <1>1, <1>2 DEF Typed, WholeInv
<1>4. \A k \in Goroutines : k # g => Name(k)' = Name(k) /\ (Listed(k)' <=> Listed(k))
  BY <1>1, <1>3 DEF Name, Listed
<1>5. \A k \in Goroutines : NotDue(k)'
  <2> TAKE k \in Goroutines
  <2>1. NotDue(k)
    BY DEF WholeInv
  <2>2. \A h \in Goroutines : due'[h] \subseteq due[h]
    BY <1>3
  <2> QED
    BY <1>3, <1>4, <2>1, <2>2 DEF NotDue
<1>6. ASSUME NEW h \in Goroutines
      PROVE  (pc'[h] # "writing" => got'[h] = <<>>) /\ Whole(h)' /\ Fillable(h)'
  <2>1. CASE h = g
    BY <1>3, <2>1 DEF Whole, Fillable
  <2>2. CASE h # g
    <3>1. (pc[h] # "writing" => got[h] = <<>>) /\ Whole(h) /\ Fillable(h)
      BY DEF WholeInv
    <3>2. Whole(h)'
      BY <1>1, <1>3, <2>2, <3>1 DEF Whole
    <3>3. \A k \in Goroutines : pc[k] = "filling" => pc'[k] = "filling" /\ Name(k)' = Name(k)
      BY <1>1, <1>3, <1>4
    <3>4. Fillable(h)'
      <4>1. /\ pc'[h] = pc[h] /\ got'[h] = got[h] /\ torn'[h] = torn[h] /\ left'[h] = left[h]
            /\ crashed' = crashed
        BY <1>1, <1>3, <2>2
      <4> QED
        BY <3>1, <3>3, <4>1 DEF Fillable
    <3> QED
      BY <1>3, <2>2, <3>1, <3>2, <3>4
  <2> QED
    BY <2>1, <2>2
<1> QED
  BY <1>3, <1>5, <1>6 DEF WholeInv

\* The output is stored in its place: in all arrays that have this place.
LEMMA FillWhole ==
  ASSUME Typed, WholeInv, NEW g \in Goroutines, Fill(g)
  PROVE  WholeInv'
<1>1. /\ pc' = [pc EXCEPT ![g] = "idle"] /\ entry' = [entry EXCEPT ![g] = NoEntry]
      /\ left' = [h \in Goroutines |-> Stored(left[h], Name(g))]
      /\ UNCHANGED <<outputs, crashed, due, got, torn>> /\ pc[g] = "filling"
  BY DEF Fill, Return, Goto, At, history, Stored
<1>2. /\ pc'[g] = "idle"
      /\ \A h \in Goroutines : h # g => pc'[h] = pc[h] /\ pc[h] # "filling"
  BY <1>1, LockHeld DEF Typed, Holding
<1>3. PICK name \in AllNames : name = Name(g)
  BY DEF Typed, Name, AllNames
<1>4. ASSUME NEW h \in Goroutines
      PROVE  /\ got[h] \in Seq(AllNames) /\ left[h] \in Seq(Slots) /\ due[h] \subseteq AllNames
             /\ left'[h] = Stored(left[h], name) /\ left'[h] \in Seq(Slots)
             /\ NoName \notin Range(left'[h])
  <2>1. got[h] \in Seq(AllNames) /\ left[h] \in Seq(Slots) /\ due[h] \subseteq Names(outputs)
    BY DEF WholeInv
  <2>2. Names(outputs) \subseteq AllNames
    BY DEF Typed, Names, Range, AllNames
  <2>3. left'[h] = Stored(left[h], name)
    BY <1>1, <1>3
  <2> QED
    BY <2>1, <2>2, <2>3, StoredIs
<1>5. left' \in [Goroutines -> Seq(Slots)]
  BY <1>1, <1>3, <1>4
<1>6. ASSUME NEW h \in Goroutines
      PROVE  (pc'[h] # "writing" => got'[h] = <<>>) /\ Whole(h)' /\ Fillable(h)' /\ NotDue(h)'
  <2>1. Fillable(h)' /\ NotDue(h)'
    BY <1>2, <1>4 DEF Fillable, NotDue
  <2>2. pc[h] # "writing" => got[h] = <<>>
    BY DEF WholeInv
  <2>3. Whole(h)'
    <3> SUFFICES ASSUME pc[h] = "writing", ~torn[h], ~crashed
                 PROVE  /\ due[h] \subseteq Range(got[h]) \cup Range(left'[h])
                        /\ IsInjective(got[h] \o left'[h])
      BY <1>1, <1>2 DEF Whole
    <3>1. /\ due[h] \subseteq Range(got[h]) \cup Range(left[h]) /\ IsInjective(got[h] \o left[h])
          /\ NoName \in Range(left[h]) => name \notin Range(got[h]) \cup Range(left[h])
      BY <1>2, <1>3 DEF WholeInv, Whole, Fillable
    <3>2. due[h] \subseteq Range(got[h]) \cup Range(left'[h])
      <4>1. NoName \notin due[h]
        BY <1>4, NoNameIsNone
      <4>2. Range(left[h]) \ {NoName} \subseteq Range(left'[h])
        BY <1>4, StoredIs
      <4> QED
        BY <3>1, <4>1, <4>2
    <3>3. IsInjective(got[h] \o left'[h])
      <4>1. CASE NoName \in Range(left[h])
        BY <1>4, <3>1, <4>1, StoredIs
      <4>2. CASE NoName \notin Range(left[h])
        <5>1. left'[h] = left[h]
          BY <1>4, <4>2, StoredIs
        <5> QED
          BY <3>1, <5>1
      <4> QED
        BY <4>1, <4>2
    <3> QED
      BY <3>2, <3>3
  <2> QED
    BY <1>1, <1>2, <2>1, <2>2, <2>3
<1> QED
  BY <1>1, <1>5, <1>6 DEF WholeInv

\* Nothing is said of messages once the program has ended.
LEMMA CrashWhole ==
  ASSUME Typed, WholeInv, crashed => crashed',
         UNCHANGED <<outputs, pc, entry, left, due, got, torn>>
  PROVE  WholeInv'
<1>1. \A h \in Goroutines : Whole(h)' /\ Fillable(h)' /\ NotDue(h)'
  BY DEF WholeInv, Whole, Fillable, NotDue, Name, Listed
<1> QED
  BY <1>1 DEF WholeInv

\* The other steps of a call to SetLogger, DelLogger or Close.
LEMMA AcquireWhole ==
  ASSUME Typed, WholeInv, NEW g \in Goroutines, Acquire(g)
  PROVE  WholeInv'
<1>1. CASE SetRefused(g)
  <2>1. /\ pc' = [pc EXCEPT ![g] = "idle"] /\ pc[g] = "set"
        /\ entry' = [entry EXCEPT ![g] = NoEntry]
        /\ UNCHANGED <<outputs, left, due, got, torn, crashed>>
    BY <1>1 DEF SetRefused, Return, Goto, At, history
  <2>2. \A h \in Goroutines : h # g => entry'[h] = entry[h]
    BY <2>1 DEF Typed
  <2> QED
    BY <2>1, <2>2, MoveWhole DEF Places
<1>2. CASE SetLogger(g)
  <2>1. /\ pc' = [pc EXCEPT ![g] = IF Listed(g) THEN "replacing" ELSE "adding"] /\ pc[g] = "set"
        /\ UNCHANGED <<outputs, entry, left, due, got, torn, crashed>>
    BY <1>2 DEF SetLogger, Goto, At
  <2> QED
    BY <2>1, MoveWhole DEF Places
<1>3. CASE DelLogger(g)
  <2>1. /\ pc' = [pc EXCEPT ![g] = "deleting"] /\ pc[g] = "delete"
        /\ UNCHANGED <<outputs, entry, left, due, got, torn, crashed>>
    BY <1>3 DEF DelLogger, Goto, At
  <2> QED
    BY <2>1, MoveWhole DEF Places
<1> QED
  BY <1>1, <1>2, <1>3 DEF Acquire

LEMMA ProceedWhole ==
  ASSUME Typed, WholeInv, NEW g \in Goroutines, Proceed(g)
  PROVE  WholeInv'
<1>1. CASE InitFails(g) \/ NoneDeleted(g)
  <2>1. /\ pc' = [pc EXCEPT ![g] = "idle"] /\ pc[g] \in {"replacing", "adding", "deleting"}
        /\ entry' = [entry EXCEPT ![g] = NoEntry]
        /\ UNCHANGED <<outputs, left, due, got, torn, crashed>>
    BY <1>1 DEF InitFails, NoneDeleted, Return, Goto, At, history
  <2>2. \A h \in Goroutines : h # g => entry'[h] = entry[h]
    BY <2>1 DEF Typed
  <2> QED
    BY <2>1, <2>2, MoveWhole DEF Places
<1>2. CASE InitAdapter(g)
  <2>1. /\ pc' = [pc EXCEPT ![g] = IF pc[g] = "adding" THEN "append" ELSE "store"]
        /\ pc[g] \in {"replacing", "adding"}
        /\ UNCHANGED <<outputs, entry, left, due, got, torn, crashed>>
    BY <1>2 DEF InitAdapter, Goto, At
  <2> QED
    BY <2>1, MoveWhole DEF Places
<1>3. CASE AppendTo(g)
  <2>1. /\ pc' = [pc EXCEPT ![g] = "growing"] /\ pc[g] = "append"
        /\ UNCHANGED <<outputs, entry, left, due, got, torn, crashed>>
    BY <1>3 DEF AppendTo, Goto, At, history
  <2> QED
    BY <2>1, MoveWhole DEF Places
<1>4. CASE Close(g)
  <2>1. /\ pc' = [pc EXCEPT ![g] = "closing"] /\ pc[g] = "close" /\ ~crashed
        /\ UNCHANGED <<outputs, entry, left, due, got, torn>>
    BY <1>4 DEF Close, Goto, At
  <2> QED
    BY <2>1, MoveWhole DEF Places
<1>5. CASE NilOutput(g)
  BY <1>5, CrashWhole DEF NilOutput, history
<1> QED
  BY <1>1, <1>2, <1>3, <1>4, <1>5, StoreWhole, GrowListWhole, ExtendWhole, FillWhole,
     DeletedWhole, ClosedWhole, ReadLengthWhole, LogWriteWhole, WrittenWhole DEF Proceed

\* WholeInv is inductive.
LEMMA WholeStep == Typed /\ WholeInv /\ [Next]_vars => WholeInv'
<1> SUFFICES ASSUME Typed, WholeInv, [Next]_vars PROVE WholeInv'
  OBVIOUS
<1>1. CASE UNCHANGED vars
  BY <1>1, CrashWhole DEF vars, history
<1>2. CASE SaveMessage
  BY <1>2, CrashWhole DEF SaveMessage, history
<1>3. ASSUME NEW g \in Goroutines, Calls(g) PROVE WholeInv'
  <2>1. ASSUME NEW op \in {"set", "delete", "close"}, NEW output, Call(g, op, output)
        PROVE  WholeInv'
    <3>1. /\ pc' = [pc EXCEPT ![g] = op] /\ pc[g] = "idle"
          /\ entry' = [entry EXCEPT ![g] = output]
          /\ UNCHANGED <<outputs, left, due, got, torn, crashed>>
      BY <2>1 DEF Call, Goto, At, history
    <3>2. \A h \in Goroutines : h # g => entry'[h] = entry[h]
      BY <3>1 DEF Typed
    <3> QED
      BY <3>1, <3>2, MoveWhole DEF Places
  <2> QED
    BY <1>3, <2>1, CalledIs, WriteMsgWhole
<1> QED
  BY <1>1, <1>2, <1>3, AcquireWhole, ProceedWhole DEF Next

\* A message is given to every output that stays on the list while it is written, and
\* to none twice (log.go:171-174, 202): for any number of goroutines that set, delete
\* and close outputs meanwhile, unless the list gets another array in the very moment
\* the message reads it.
THEOREM MessagesAreWhole == Spec => []WholeMessages
<1>1. Init => Typed /\ WholeInv
  BY TypedInit, WholeInit
<1>2. Typed /\ WholeInv /\ [Next]_vars => (Typed /\ WholeInv)'
  BY TypedStep, WholeStep
<1>3. WholeInv => WholeMessages
  BY DEF WholeInv, WholeMessages, Whole
<1> QED
  BY <1>1, <1>2, <1>3, PTL DEF Spec
==============================================================================
