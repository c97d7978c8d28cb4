--------------------------- MODULE RLPStreamProofs ---------------------------
(***************************************************************************)
(* Proofs about RLPStream, for any inputs, limits and numbers of the       *)
(* layout: the stream is a cursor over its input (RLPCursor).              *)
(***************************************************************************)
EXTENDS RLPStream, FiniteSetTheorems, SequenceTheorems, TLAPS

\* A set of natural numbers that is not empty has a least one: the intervals up to
\* its elements are finite sets, ordered as the elements are.
LEMMA LeastNat ==
  ASSUME NEW S \in SUBSET Nat, S # {}
  PROVE  \E x \in S : \A y \in S : x <= y
<1> DEFINE R == StrictSubsetOrdering(Nat)
           Below == {0 .. x : x \in S}
<1>1. IsWellFoundedOn(R, FiniteSubsetsOf(Nat))
  BY FS_StrictSubsetOrderingWellFounded
<1>2. Below \subseteq FiniteSubsetsOf(Nat)
  <2>1. \A x \in S : 0 .. x \subseteq Nat /\ IsFiniteSet(0 .. x)
    BY FS_Interval
  <2> QED
    BY <2>1 DEF FiniteSubsetsOf
<1>3. Below # {}
  OBVIOUS
<1> HIDE DEF R
<1>4. PICK b \in Below : \A c \in Below : ~ (<<c, b>> \in R)
  BY <1>1, <1>2, <1>3, WFMin, Zenon
<1>5. PICK x \in S : b = 0 .. x
  OBVIOUS
<1>6. \A y \in S : y < x => <<0 .. y, b>> \in R
  <2> TAKE y \in S
  <2> HAVE y < x
  <2>1. 0 .. y \in SUBSET Nat /\ b \in SUBSET Nat
    BY <1>5
  <2>2. 0 .. y \subseteq b /\ x \in b /\ x \notin 0 .. y
    BY <1>5
  <2> QED
    BY <2>1, <2>2 DEF R, StrictSubsetOrdering
<1>7. \A y \in S : x <= y
  <2> TAKE y \in S
  <2>1. 0 .. y \in Below
    OBVIOUS
  <2>2. ~ (y < x)
    BY <1>4, <1>6, <2>1
  <2> QED
    BY <2>2
<1> QED
  BY <1>7

-----------------------------------------------------------------------------
\* Numbers and the ends of lists are sums that are computed by a loop.
Sums(f, a, c, d, len) ==
  f = [k \in 0 .. len |-> IF k = 0 THEN c ELSE a * f[k - 1] + d[k]]

LEMMA SumsExists ==
  ASSUME NEW a, NEW c, NEW d, NEW len \in Nat
  PROVE  \E f : Sums(f, a, c, d, len)
<1> DEFINE S == {n \in Nat : ~ \E f : Sums(f, a, c, d, n)}
           Next1(before, n) == a * before + d[n]
<1>1. SUFFICES ASSUME S # {} PROVE FALSE
  OBVIOUS
<1>2. PICK n \in S : \A k \in S : n <= k
  BY <1>1, LeastNat
<1>3. n # 0
  <2> DEFINE f == [i \in 0 .. 0 |-> c]
  <2>1. Sums(f, a, c, d, 0)
    BY DEF Sums
  <2> HIDE DEF f
  <2> QED
    BY <2>1
<1>4. n - 1 \in Nat /\ n - 1 \notin S
  BY <1>2, <1>3
<1>5. PICK f : Sums(f, a, c, d, n - 1)
  BY <1>4
<1> DEFINE g == [i \in 0 .. n |-> IF i < n THEN f[i] ELSE Next1(f[n - 1], n)]
<1> HIDE DEF Next1
<1>6. \A i \in 0 .. n : g[i] = IF i = 0 THEN c ELSE Next1(g[i - 1], i)
  <2> TAKE i \in 0 .. n
  <2>1. CASE i = n
    <3>1. g[i - 1] = f[n - 1] /\ i # 0
      BY <1>3, <1>4, <2>1
    <3> QED
      BY <2>1, <3>1
  <2>2. CASE i < n
    <3>1. i \in 0 .. n - 1 /\ (i # 0 => i - 1 \in 0 .. n /\ i - 1 < n)
      BY <2>2
    <3>2. g[i] = f[i] /\ (i # 0 => g[i - 1] = f[i - 1])
      BY <2>2, <3>1
    <3>3. f[i] = IF i = 0 THEN c ELSE Next1(f[i - 1], i)
      BY <1>5, <3>1 DEF Sums, Next1
    <3> QED
      BY <3>2, <3>3
  <2> QED
    BY <2>1, <2>2
<1>7. Sums(g, a, c, d, n)
  <2>1. g = [i \in 0 .. n |-> g[i]]
    OBVIOUS
  <2> HIDE DEF g
  <2> QED
    BY <1>6, <2>1 DEF Sums, Next1
<1> HIDE DEF g
<1> QED
  BY <1>7

\* What holds of 0 and passes on from k - 1 to k holds up to any number.
LEMMA Upwards ==
  ASSUME NEW len \in Nat, NEW Good \in SUBSET Nat, 0 \in Good,
         \A k \in 1 .. len : k - 1 \in Good => k \in Good
  PROVE  0 .. len \subseteq Good
<1> DEFINE Bad == {k \in 0 .. len : k \notin Good}
<1>1. SUFFICES ASSUME Bad # {} PROVE FALSE
  OBVIOUS
<1>2. Bad \in SUBSET Nat
  OBVIOUS
<1> HIDE DEF Bad
<1>3. PICK k \in Bad : \A l \in Bad : k <= l
  BY <1>1, <1>2, LeastNat
<1> USE DEF Bad
<1>4. k \in 1 .. len
  BY <1>3
<1>5. k - 1 \in 0 .. len /\ k - 1 \notin Bad
  BY <1>3, <1>4
<1> QED
  BY <1>3, <1>4, <1>5

LEMMA SumsInt ==
  ASSUME NEW f, NEW a \in Int, NEW c \in Int, NEW d, NEW len \in Nat,
         Sums(f, a, c, d, len), \A k \in 1 .. len : d[k] \in Int
  PROVE  /\ \A k \in 0 .. len : f[k] \in Int
         /\ f[0] = c /\ \A k \in 1 .. len : f[k] = a * f[k - 1] + d[k]
         /\ a >= 0 /\ c >= 0 /\ (\A k \in 1 .. len : d[k] >= 0)
              => \A k \in 0 .. len : f[k] >= 0
<1>1. f[0] = c /\ \A k \in 1 .. len : f[k] = a * f[k - 1] + d[k]
  <2>1. \A k \in 0 .. len : f[k] = IF k = 0 THEN c ELSE a * f[k - 1] + d[k]
    BY DEF Sums
  <2> QED
    BY <2>1
<1>2. \A k \in 0 .. len : f[k] \in Int
  <2> DEFINE Good == {k \in Nat : f[k] \in Int}
  <2>1. 0 \in Good
    BY <1>1
  <2>2. ASSUME NEW k \in 1 .. len, k - 1 \in Good PROVE k \in Good
    BY <1>1, <2>2
  <2>3. Good \in SUBSET Nat
    OBVIOUS
  <2> HIDE DEF Good
  <2>4. 0 .. len \subseteq Good
    BY <2>1, <2>2, <2>3, Upwards
  <2> QED
    BY <2>4 DEF Good
<1>3. ASSUME a >= 0, c >= 0, \A k \in 1 .. len : d[k] >= 0
      PROVE  \A k \in 0 .. len : f[k] >= 0
  <2> DEFINE Good == {k \in Nat : f[k] \in Int /\ f[k] >= 0}
  <2>1. 0 \in Good
    BY <1>1, <1>3
  <2>2. ASSUME NEW k \in 1 .. len, k - 1 \in Good PROVE k \in Good
    <3>1. PICK x \in Int : x = f[k - 1] /\ x >= 0
      BY <2>2
    <3>2. a * x >= 0 /\ a * x \in Int
      BY <1>3, <3>1
    <3> QED
      BY <1>1, <1>3, <3>1, <3>2
  <2>3. Good \in SUBSET Nat
    OBVIOUS
  <2> HIDE DEF Good
  <2>4. 0 .. len \subseteq Good
    BY <2>1, <2>2, <2>3, Upwards
  <2> QED
    BY <2>4 DEF Good
<1> QED
  BY <1>1, <1>2, <1>3

\* Two loops that add the same numbers have the same sums.
LEMMA SumsEqual ==
  ASSUME NEW f, NEW g, NEW a, NEW c, NEW d, NEW e, NEW len \in Nat,
         Sums(f, a, c, d, len), Sums(g, a, c, e, len), \A k \in 1 .. len : d[k] = e[k]
  PROVE  \A k \in 0 .. len : f[k] = g[k]
<1> DEFINE Good == {k \in Nat : f[k] = g[k]}
<1>1. \A k \in 0 .. len : /\ f[k] = IF k = 0 THEN c ELSE a * f[k - 1] + d[k]
                          /\ g[k] = IF k = 0 THEN c ELSE a * g[k - 1] + e[k]
  BY DEF Sums
<1>2. 0 \in Good
  BY <1>1
<1>3. ASSUME NEW k \in 1 .. len, k - 1 \in Good PROVE k \in Good
  <2>1. f[k - 1] = g[k - 1] /\ d[k] = e[k] /\ k \in 0 .. len /\ k # 0 /\ k \in Nat
    BY <1>3
  <2>2. f[k] = a * f[k - 1] + d[k] /\ g[k] = a * g[k - 1] + e[k]
    BY <1>1, <2>1, Zenon
  <2> QED
    BY <2>1, <2>2
<1>4. Good \in SUBSET Nat
  OBVIOUS
<1> HIDE DEF Good
<1>5. 0 .. len \subseteq Good
  BY <1>2, <1>3, <1>4, Upwards
<1> QED
  BY <1>5 DEF Good

LEMMA SumsNat ==
  ASSUME NEW f, NEW a \in Nat, NEW c \in Nat, NEW d, NEW len \in Nat,
         Sums(f, a, c, d, len), \A k \in 1 .. len : d[k] \in Nat
  PROVE  \A k \in 0 .. len : f[k] \in Nat
<1>1. a \in Int /\ c \in Int /\ a >= 0 /\ c >= 0
  OBVIOUS
<1>2. \A k \in 1 .. len : d[k] \in Int
  OBVIOUS
<1>3. \A k \in 1 .. len : d[k] >= 0
  OBVIOUS
<1>4. \A k \in 0 .. len : f[k] \in Int
  BY <1>1, <1>2, SumsInt
<1>5. (\A k \in 1 .. len : d[k] >= 0) => \A k \in 0 .. len : f[k] >= 0
  BY <1>1, <1>2, SumsInt
<1> QED
  BY <1>3, <1>4, <1>5

-----------------------------------------------------------------------------
\* Bytes and what they stand for.
Byte == 0 .. (Base - 1)

LEMMA Layout ==
  /\ Single \in Nat /\ Short \in Nat /\ Long \in Nat
  /\ Short > 0 /\ Single = 2 * (Short + Long) /\ Base = 4 * (Short + Long) /\ Base >= 4
  /\ Base \in Int /\ Base >= 0 /\ \A b \in Inputs : b \in Seq(Byte)
  /\ Again \subseteq Inputs /\ Limits \subseteq Nat
BY LayoutAssumption DEF Base, Byte

LEMMA SubSeqFacts ==
  ASSUME NEW b \in Seq(Byte), NEW a \in Nat, NEW n \in Nat, a + n <= Len(b)
  PROVE  /\ SubSeq(b, a + 1, a + n) \in Seq(Byte) /\ Len(SubSeq(b, a + 1, a + n)) = n
         /\ \A k \in 1 .. n : SubSeq(b, a + 1, a + n)[k] = b[a + k]
BY SMTT(30)

LEMMA ValueIs ==
  ASSUME NEW bytes, Len(bytes) \in Nat
  PROVE  \E f : Sums(f, Base, 0, bytes, Len(bytes)) /\ Value(bytes) = f[Len(bytes)]
<1> DEFINE f == CHOOSE f : Sums(f, Base, 0, bytes, Len(bytes))
<1>1. Sums(f, Base, 0, bytes, Len(bytes))
  BY SumsExists
<1>2. Value(bytes) = f[Len(bytes)]
  BY DEF Value, Sums
<1> HIDE DEF f
<1> QED
  BY <1>1, <1>2

LEMMA NumberIs ==
  ASSUME NEW b, NEW from, NEW n \in Nat
  PROVE  \E f : /\ Sums(f, Base, 0, [k \in 1 .. n |-> b[from + k]], n)
                /\ Cursor!Number(b, from, n) = f[n]
<1> DEFINE d == [k \in 1 .. n |-> b[from + k]]
           Is(f) == f = [k \in 0 .. n |-> IF k = 0 THEN 0 ELSE 2 * Single * f[k - 1] + b[from + k]]
           g == CHOOSE f : Is(f)
<1>1. PICK f : Sums(f, Base, 0, d, n)
  BY SumsExists
<1>2. ASSUME NEW h PROVE Is(h) <=> Sums(h, Base, 0, d, n)
  <2>1. [k \in 0 .. n |-> IF k = 0 THEN 0 ELSE 2 * Single * h[k - 1] + b[from + k]]
          = [k \in 0 .. n |-> IF k = 0 THEN 0 ELSE Base * h[k - 1] + d[k]]
    BY DEF Base
  <2> QED
    BY <2>1 DEF Sums
<1>3. Is(g)
  BY <1>1, <1>2
<1>4. Cursor!Number(b, from, n) = g[n]
  BY DEF Cursor!Number, Cursor!Base
<1> HIDE DEF g, Is
<1> QED
  BY <1>2, <1>3, <1>4

\* The size a header gives is what its bytes stand for.
LEMMA NumberValue ==
  ASSUME NEW b \in Seq(Byte), NEW from \in Nat, NEW n \in Nat, from + n <= Len(b)
  PROVE  /\ Cursor!Number(b, from, n) = Value(SubSeq(b, from + 1, from + n))
         /\ Cursor!Number(b, from, n) \in Nat
<1> DEFINE bytes == SubSeq(b, from + 1, from + n)
           d == [k \in 1 .. n |-> b[from + k]]
<1>1. /\ bytes \in Seq(Byte) /\ Len(bytes) = n
      /\ \A k \in 1 .. n : bytes[k] = b[from + k] /\ bytes[k] \in Byte
  BY SubSeqFacts
<1>2. PICK f : Sums(f, Base, 0, d, n) /\ Cursor!Number(b, from, n) = f[n]
  BY NumberIs
<1>3. PICK g : Sums(g, Base, 0, bytes, n) /\ Value(bytes) = g[n]
  BY <1>1, ValueIs
<1> HIDE DEF bytes
<1>4. \A k \in 1 .. n : d[k] = bytes[k] /\ d[k] \in Int /\ d[k] >= 0
  BY <1>1, Layout DEF Byte
<1> HIDE DEF d
<1>5. f[n] = g[n]
  BY <1>2, <1>3, <1>4, SumsEqual
<1>6. f[n] \in Nat
  <2>1. (\A k \in 1 .. n : d[k] >= 0) => \A k \in 0 .. n : f[k] >= 0
    BY <1>2, <1>4, Layout, SumsInt
  <2>2. \A k \in 0 .. n : f[k] \in Int
    BY <1>2, <1>4, Layout, SumsInt
  <2> QED
    BY <1>4, <2>1, <2>2
<1> QED
  BY <1>2, <1>3, <1>5, <1>6 DEF bytes

\* A byte stands for itself; several, the first of them not zero, for a number that
\* no single byte stands for.
LEMMA ValueFacts ==
  ASSUME NEW bytes \in Seq(Byte)
  PROVE  /\ Value(bytes) \in Nat
         /\ Len(bytes) = 1 => Value(bytes) = bytes[1]
         /\ Len(bytes) > 1 /\ bytes[1] # 0 => Value(bytes) >= Base
<1> DEFINE n == Len(bytes)
<1>1. n \in Nat /\ \A k \in 1 .. n : bytes[k] \in Int /\ bytes[k] >= 0
  BY Layout DEF Byte
<1>2. PICK f : Sums(f, Base, 0, bytes, n) /\ Value(bytes) = f[n]
  BY <1>1, ValueIs
<1> HIDE DEF n
<1>3. /\ \A k \in 0 .. n : f[k] \in Int /\ f[k] >= 0
      /\ f[0] = 0 /\ \A k \in 1 .. n : f[k] = Base * f[k - 1] + bytes[k]
  <2>1. /\ \A k \in 0 .. n : f[k] \in Int
        /\ f[0] = 0 /\ \A k \in 1 .. n : f[k] = Base * f[k - 1] + bytes[k]
    BY <1>1, <1>2, Layout, SumsInt
  <2>2. (\A k \in 1 .. n : bytes[k] >= 0) => \A k \in 0 .. n : f[k] >= 0
    BY <1>1, <1>2, Layout, SumsInt, SMTT(30)
  <2> QED
    BY <1>1, <2>1, <2>2
<1>4. Value(bytes) \in Nat
  BY <1>1, <1>2, <1>3
<1>5. n >= 1 => f[1] = bytes[1]
  <2> HAVE n >= 1
  <2>1. f[1] = Base * f[1 - 1] + bytes[1] /\ f[1 - 1] = 0
    BY <1>1, <1>3
  <2> QED
    BY <1>1, <2>1, Layout
<1>6. ASSUME n > 1, bytes[1] # 0
      PROVE  f[n] >= Base
  <2> DEFINE Good == {k \in Nat : k + 1 <= n => f[k + 1] > 0}
  <2>1. 0 \in Good
    BY <1>1, <1>5, <1>6
  <2>2. ASSUME NEW k \in 1 .. n, k - 1 \in Good PROVE k \in Good
    <3>1. SUFFICES ASSUME k + 1 <= n PROVE f[k + 1] > 0
      BY <1>1
    <3>2. f[k] \in Int /\ f[k] > 0
      BY <1>1, <1>3, <2>2, <3>1
    <3>3. k + 1 \in 1 .. n /\ k + 1 - 1 = k
      BY <1>1, <3>1
    <3>4. f[k + 1] = Base * f[k] + bytes[k + 1]
      BY <1>3, <3>3
    <3>5. Base * f[k] > 0
      BY <3>2, Layout
    <3> QED
      BY <1>1, <3>2, <3>3, <3>4, <3>5, Layout
  <2>3. Good \in SUBSET Nat
    OBVIOUS
  <2> HIDE DEF Good
  <2>4. 0 .. n \subseteq Good
    BY <1>1, <2>1, <2>2, <2>3, Upwards
  <2>5. n - 2 \in Good /\ n - 2 + 1 = n - 1
    BY <1>1, <1>6, <2>4
  <2>6. PICK x \in Int : x = f[n - 1] /\ x > 0
    BY <1>1, <1>3, <1>6, <2>5 DEF Good
  <2>7. f[n] = Base * x + bytes[n] /\ bytes[n] \in Int /\ bytes[n] >= 0
    BY <1>1, <1>3, <1>6, <2>6
  <2>8. Base * x >= Base
    BY <2>6, Layout
  <2> QED
    BY <2>6, <2>7, <2>8, Layout
<1> QED
  BY <1>1, <1>2, <1>4, <1>5, <1>6 DEF n

-----------------------------------------------------------------------------
\* The state of a stream that has not failed: what is left of the limit is what has
\* not been read, and no list has read more than there is of it, or holds a list
\* that is longer than what is left.
Errors == Refusals \cup {"nil", "EOF", "UnexpectedEOF", "ElemTooLarge", "ValueTooLarge",
                         "CanonSize", "CanonInt"}
Stream ==
  [in : Seq(Byte), at : Nat, limited : BOOLEAN, remaining : Int,
   stack : Seq([pos : Int, size : Int]),
   kind : {"none", "Byte", "String", "List"}, size : Int, byteval : Int, kinderr : Errors]

Nested(stack) ==
  /\ \A i \in 1 .. Len(stack) : stack[i].pos >= 0 /\ stack[i].pos <= stack[i].size
  /\ \A i \in 1 .. Len(stack) - 1 : stack[i].pos + stack[i + 1].size <= stack[i].size

Reading(st, lim) ==
  /\ st \in Stream
  /\ st.at <= Len(st.in) /\ st.limited = (lim > 0)
  /\ st.limited => st.remaining = lim - st.at /\ st.at <= lim
  /\ Nested(st.stack)
  /\ st.kinderr = "nil"

\* What can be seen of an input.
Seen(in, lim) == IF lim = 0 \/ lim > Len(in) THEN in ELSE SubSeq(in, 1, lim)

LEMMA SeenFacts ==
  ASSUME NEW in \in Seq(Byte), NEW lim \in Nat
  PROVE  /\ Seen(in, lim) \in Seq(Byte)
         /\ Len(Seen(in, lim)) = IF lim = 0 \/ lim > Len(in) THEN Len(in) ELSE lim
         /\ Len(Seen(in, lim)) \in Nat /\ Len(Seen(in, lim)) <= Len(in)
         /\ \A i \in 1 .. Len(Seen(in, lim)) : Seen(in, lim)[i] = in[i]
         /\ \A a \in Nat, e \in 0 .. Len(Seen(in, lim)) :
              SubSeq(Seen(in, lim), a + 1, e) = SubSeq(in, a + 1, e)
<1> DEFINE b == Seen(in, lim)
<1>1. /\ b \in Seq(Byte) /\ Len(b) = IF lim = 0 \/ lim > Len(in) THEN Len(in) ELSE lim
      /\ \A i \in 1 .. Len(b) : b[i] = in[i]
  BY DEF Seen
<1>2. Len(b) <= Len(in) /\ Len(b) \in Nat
  BY <1>1
<1> HIDE DEF b
<1>3. ASSUME NEW a \in Nat, NEW e \in 0 .. Len(b)
      PROVE  SubSeq(b, a + 1, e) = SubSeq(in, a + 1, e)
  <2>1. \A i \in a + 1 .. e : b[i] = in[i]
    BY <1>1, <1>2
  <2>2. /\ SubSeq(b, a + 1, e) \in Seq(Byte) /\ SubSeq(in, a + 1, e) \in Seq(Byte)
        /\ Len(SubSeq(b, a + 1, e)) = Len(SubSeq(in, a + 1, e))
        /\ \A i \in 1 .. Len(SubSeq(b, a + 1, e)) : SubSeq(b, a + 1, e)[i] = SubSeq(in, a + 1, e)[i]
    BY <1>1, <1>2, <2>1
  <2> QED
    BY <2>2, SeqEqual
<1> QED
  BY <1>1, <1>2, <1>3 DEF b

\* n bytes have been read from the innermost list of k.
Counts(k, k2, n) ==
  /\ Len(k2) = Len(k)
  /\ \A i \in 1 .. Len(k) : k2[i].size = k[i].size
  /\ \A i \in 1 .. Len(k) - 1 : k2[i].pos = k[i].pos
  /\ k # <<>> => k2[Len(k)].pos = k[Len(k)].pos + n

\* n bytes have been read.
Advanced(st, st2, n) ==
  /\ st2.in = st.in /\ st2.at = st.at + n
  /\ Counts(st.stack, st2.stack, n)

\* There are no n bytes to be read.
Missing(st, lim, n) ==
  (st.stack # <<>> /\ n > Room(st)) \/ st.at + n > Len(Seen(st.in, lim))

LEMMA TopFacts ==
  ASSUME NEW st \in Stream, st.stack # <<>>
  PROVE  /\ Len(st.stack) \in Nat /\ Len(st.stack) > 0 /\ Len(st.stack) \in 1 .. Len(st.stack)
         /\ st.stack[Len(st.stack)] \in [pos : Int, size : Int]
         /\ Top(st) = st.stack[Len(st.stack)]
         /\ Room(st) = st.stack[Len(st.stack)].size - st.stack[Len(st.stack)].pos
         /\ Room(st) \in Int
<1>1. PICK k : k = st.stack
  OBVIOUS
<1>2. k \in Seq([pos : Int, size : Int])
  BY <1>1 DEF Stream
<1>3. Len(k) \in Nat /\ Len(k) > 0 /\ Len(k) \in 1 .. Len(k)
  BY <1>1, <1>2, EmptySeq
<1>4. k[Len(k)] \in [pos : Int, size : Int]
  BY <1>2, <1>3, ElementOfSeq, Zenon
<1> QED
  BY <1>1, <1>3, <1>4 DEF Top, Room

LEMMA CountedFacts ==
  ASSUME NEW st \in Stream, NEW n \in Nat, NEW c, c = Counted(st, n)
  PROVE  /\ c \in Stream
         /\ c = [st EXCEPT !.stack = c.stack]
         /\ Counts(st.stack, c.stack, n)
<1>1. CASE st.stack = <<>>
  <2>1. c = st
    BY <1>1 DEF Counted
  <2> QED
    BY <1>1, <2>1 DEF Stream, Counts
<1>2. CASE st.stack # <<>>
  <2>1. PICK k : k = st.stack
    OBVIOUS
  <2>2. /\ k \in Seq([pos : Int, size : Int]) /\ Len(k) \in 1 .. Len(k) /\ Len(k) \in Nat
        /\ k[Len(k)] \in [pos : Int, size : Int]
    BY <1>2, <2>1, TopFacts DEF Stream
  <2> DEFINE k2 == [k EXCEPT ![Len(k)].pos = @ + n]
  <2>3. k2 = [k EXCEPT ![Len(k)] = [k[Len(k)] EXCEPT !.pos = k[Len(k)].pos + n]]
    OBVIOUS
  <2>4. PICK e : e = [k[Len(k)] EXCEPT !.pos = k[Len(k)].pos + n]
    OBVIOUS
  <2>5. e \in [pos : Int, size : Int] /\ e.pos = k[Len(k)].pos + n /\ e.size = k[Len(k)].size
    <3>1. PICK x : x = k[Len(k)]
      OBVIOUS
    <3>2. x \in [pos : Int, size : Int] /\ e = [x EXCEPT !.pos = x.pos + n]
      BY <2>2, <2>4, <3>1
    <3>3. e \in [pos : Int, size : Int] /\ e.pos = x.pos + n /\ e.size = x.size
      BY <3>2
    <3> QED
      BY <3>1, <3>3, Zenon
  <2>6. /\ k2 \in Seq([pos : Int, size : Int]) /\ Len(k2) = Len(k) /\ k2[Len(k)] = e
        /\ \A i \in 1 .. Len(k) : i # Len(k) => k2[i] = k[i]
    BY <2>2, <2>3, <2>4, <2>5
  <2>7. c = [st EXCEPT !.stack = k2]
    BY <1>2, <2>1 DEF Counted
  <2> HIDE DEF k2
  <2>8. c \in Stream /\ c.stack = k2
    BY <2>6, <2>7 DEF Stream
  <2>9. \A i \in 1 .. Len(k) : k2[i].size = k[i].size
    BY <2>2, <2>5, <2>6
  <2>10. \A i \in 1 .. Len(k) - 1 : k2[i].pos = k[i].pos
    <3> TAKE i \in 1 .. Len(k) - 1
    <3>1. i \in 1 .. Len(k) /\ i # Len(k)
      BY <2>2
    <3> QED
      BY <2>6, <3>1
  <2> QED
    BY <2>1, <2>5, <2>6, <2>7, <2>8, <2>9, <2>10 DEF Counts
<1> QED
  BY <1>1, <1>2

\* willRead charges the list and the limit, or says what is too large.
LEMMA WillReadFacts ==
  ASSUME NEW lim \in Nat, NEW st, Reading(st, lim), NEW n \in Nat, NEW w, w = WillRead(st, n)
  PROVE  /\ w.s \in Stream /\ w.v = 0 /\ w.err \in {"nil", "ElemTooLarge", "ValueTooLarge"}
         /\ w.err # "nil" => Missing(st, lim, n)
         /\ w.err = "nil" =>
              /\ Advanced(st, [w.s EXCEPT !.at = st.at + n], n)
              /\ w.s.at = st.at /\ w.s.kind = "none" /\ w.s.kinderr = "nil"
              /\ w.s.limited = st.limited
              /\ st.limited => w.s.remaining = st.remaining - n /\ st.at + n <= lim
              /\ st.stack # <<>> => n <= Room(st)
<1>0. st \in Stream /\ st.at \in Nat /\ st.remaining \in Int
  BY DEF Reading, Stream
<1> DEFINE s1 == Rearmed(st)
           s2 == Counted(s1, n)
<1>1. s1 \in Stream /\ s1 = [st EXCEPT !.kind = "none"] /\ s1.stack = st.stack
  BY <1>0 DEF Rearmed, Stream
<1>2. PICK t1 : t1 = s1
  OBVIOUS
<1>3. PICK t2 : t2 = s2
  OBVIOUS
<1> HIDE DEF s1, s2
<1>4. /\ t2 \in Stream /\ t2 = [t1 EXCEPT !.stack = t2.stack]
      /\ Counts(t1.stack, t2.stack, n)
  <2>1. t2 = Counted(t1, n) /\ t1 \in Stream
    BY <1>1, <1>2, <1>3 DEF s2
  <2> QED
    BY <2>1, CountedFacts
<1>5. /\ t2.in = st.in /\ t2.at = st.at /\ t2.limited = st.limited
      /\ t2.remaining = st.remaining /\ t2.kind = "none" /\ t2.size = st.size
      /\ t2.byteval = st.byteval /\ t2.kinderr = st.kinderr
  BY <1>0, <1>1, <1>2, <1>4 DEF Stream
<1>6. w = IF st.stack # <<>> /\ n > Room(st) THEN Result(t1, "ElemTooLarge", 0)
          ELSE IF st.limited /\ n > st.remaining THEN Result(t2, "ValueTooLarge", 0)
          ELSE Result(IF st.limited THEN [t2 EXCEPT !.remaining = @ - n] ELSE t2, "nil", 0)
  BY <1>2, <1>3 DEF WillRead, s1, s2
<1>7. CASE st.stack # <<>> /\ n > Room(st)
  BY <1>1, <1>2, <1>6, <1>7 DEF Result, Missing
<1>8. CASE ~(st.stack # <<>> /\ n > Room(st)) /\ st.limited /\ n > st.remaining
  <2>1. w.s = t2 /\ w.err = "ValueTooLarge" /\ w.v = 0
    BY <1>6, <1>8 DEF Result
  <2>2. st.remaining = lim - st.at /\ lim > 0
    BY <1>8 DEF Reading
  <2>3. Len(Seen(st.in, lim)) <= lim
    BY <1>0, <2>2, SeenFacts DEF Stream
  <2>4. st.at + n > Len(Seen(st.in, lim))
    BY <1>0, <1>8, <2>2, <2>3, SeenFacts DEF Stream
  <2> QED
    BY <1>4, <2>1, <2>4 DEF Missing
<1>9. CASE ~(st.stack # <<>> /\ n > Room(st)) /\ ~(st.limited /\ n > st.remaining)
  <2> DEFINE t3 == IF st.limited THEN [t2 EXCEPT !.remaining = t2.remaining - n] ELSE t2
  <2>1. w.s = t3 /\ w.err = "nil" /\ w.v = 0
    BY <1>6, <1>9 DEF Result
  <2>2. /\ t3 \in Stream /\ t3.in = t2.in /\ t3.at = t2.at /\ t3.limited = t2.limited
        /\ t3.kind = t2.kind /\ t3.size = t2.size /\ t3.byteval = t2.byteval
        /\ t3.kinderr = t2.kinderr /\ t3.stack = t2.stack
        /\ st.limited => t3.remaining = t2.remaining - n
    <3>1. CASE st.limited
      <4>1. t3 = [t2 EXCEPT !.remaining = t2.remaining - n]
        BY <3>1
      <4> HIDE DEF t3
      <4>2. t2.remaining \in Int
        BY <1>4 DEF Stream
      <4>3. PICK x \in Int : x = t2.remaining - n
        BY <4>2
      <4>4. t2 \in Stream /\ t3 = [t2 EXCEPT !.remaining = x]
        BY <1>4, <4>1, <4>3
      <4>5. /\ t3 \in Stream /\ t3.in = t2.in /\ t3.at = t2.at /\ t3.limited = t2.limited
            /\ t3.kind = t2.kind /\ t3.size = t2.size /\ t3.byteval = t2.byteval
            /\ t3.kinderr = t2.kinderr /\ t3.stack = t2.stack /\ t3.remaining = x
        BY <4>4 DEF Stream
      <4> QED
        BY <4>3, <4>5
    <3>2. CASE ~st.limited
      BY <1>4, <3>2
    <3> QED
      BY <3>1, <3>2
  <2> HIDE DEF t3
  <2>3. PICK t4 : t4 = [t3 EXCEPT !.at = st.at + n]
    OBVIOUS
  <2>4. t4.in = t3.in /\ t4.at = st.at + n /\ t4.stack = t3.stack
    BY <2>2, <2>3 DEF Stream
  <2>5. Advanced(st, t4, n)
    BY <1>1, <1>2, <1>4, <1>5, <2>2, <2>4 DEF Advanced
  <2>6. st.limited => st.remaining = lim - st.at
    BY DEF Reading
  <2>7. st.limited => st.at + n <= lim
    BY <1>0, <1>9, <2>6
  <2>8. st.stack # <<>> => n <= Room(st)
    <3>1. st.stack # <<>> => Room(st) \in Int
      BY <1>0, TopFacts
    <3> QED
      BY <1>9, <3>1
  <2>9. st.kinderr = "nil"
    BY DEF Reading
  <2> QED
    BY <1>5, <2>1, <2>2, <2>3, <2>5, <2>7, <2>8, <2>9
<1> QED
  BY <1>7, <1>8, <1>9

\* Reading takes what is there, or fails because it is missing; nothing else about
\* the lists changes.
LEMMA ReadFacts ==
  ASSUME NEW lim \in Nat, NEW st, Reading(st, lim), NEW n \in Nat, NEW r, r = Read(st, n)
  PROVE  /\ r.s \in Stream
         /\ r.err \in {"nil", "ElemTooLarge", "ValueTooLarge", "UnexpectedEOF"}
         /\ r.err # "nil" => Missing(st, lim, n) /\ r.v = 0
         /\ r.err = "nil" =>
              /\ Advanced(st, r.s, n) /\ Reading(r.s, lim) /\ r.s.kind = "none"
              /\ ~Missing(st, lim, n)
              /\ r.v = SubSeq(st.in, st.at + 1, st.at + n)
              /\ st.at + n <= Len(Seen(st.in, lim))
<1>0. /\ st \in Stream /\ st.at \in Nat /\ st.in \in Seq(Byte) /\ Len(st.in) \in Nat
      /\ st.at <= Len(st.in)
  BY DEF Reading, Stream
<1>1. PICK w : w = WillRead(st, n)
  OBVIOUS
<1>2. r = IF w.err # "nil" THEN w
          ELSE IF st.at + n > Len(st.in)
          THEN Result([w.s EXCEPT !.at = Len(st.in)], "UnexpectedEOF", 0)
          ELSE Result([w.s EXCEPT !.at = st.at + n], "nil", SubSeq(st.in, st.at + 1, st.at + n))
  BY <1>1 DEF Read
<1>3. /\ w.s \in Stream /\ w.v = 0 /\ w.err \in {"nil", "ElemTooLarge", "ValueTooLarge"}
      /\ w.err # "nil" => Missing(st, lim, n)
      /\ w.err = "nil" =>
           /\ Advanced(st, [w.s EXCEPT !.at = st.at + n], n)
           /\ w.s.at = st.at /\ w.s.kind = "none" /\ w.s.kinderr = "nil"
           /\ w.s.limited = st.limited
           /\ st.limited => w.s.remaining = st.remaining - n /\ st.at + n <= lim
           /\ st.stack # <<>> => n <= Room(st)
  BY <1>1, WillReadFacts
<1>4. Len(Seen(st.in, lim)) <= Len(st.in) /\ Len(Seen(st.in, lim)) \in Nat
  BY <1>0, SeenFacts
<1>5. CASE w.err # "nil"
  BY <1>2, <1>3, <1>5
<1>6. CASE w.err = "nil" /\ st.at + n > Len(st.in)
  <2>1. r.s = [w.s EXCEPT !.at = Len(st.in)] /\ r.err = "UnexpectedEOF" /\ r.v = 0
    BY <1>2, <1>6 DEF Result
  <2>2. r.s \in Stream
    BY <1>0, <1>3, <2>1 DEF Stream
  <2>3. Missing(st, lim, n)
    BY <1>0, <1>4, <1>6 DEF Missing
  <2> QED
    BY <2>1, <2>2, <2>3
<1>7. CASE w.err = "nil" /\ ~(st.at + n > Len(st.in))
  <2>1. /\ r.s = [w.s EXCEPT !.at = st.at + n] /\ r.err = "nil"
        /\ r.v = SubSeq(st.in, st.at + 1, st.at + n)
    <3>1. r = Result([w.s EXCEPT !.at = st.at + n], "nil", SubSeq(st.in, st.at + 1, st.at + n))
      BY <1>2, <1>7, Zenon
    <3>2. PICK x, y : x = SubSeq(st.in, st.at + 1, st.at + n) /\ y = [w.s EXCEPT !.at = st.at + n]
      OBVIOUS
    <3>3. r = [s |-> y, err |-> "nil", v |-> x]
      BY <3>1, <3>2 DEF Result
    <3>4. r.s = y /\ r.err = "nil" /\ r.v = x
      BY <3>3
    <3> QED
      BY <3>2, <3>4, Zenon
  <2>2. /\ r.s \in Stream /\ r.s.at = st.at + n /\ r.s.kind = "none" /\ r.s.kinderr = "nil"
        /\ r.s.limited = st.limited /\ r.s.remaining = w.s.remaining
    <3>1. st.at + n \in Nat
      BY <1>0
    <3>2. /\ w.s \in Stream /\ w.s.kind = "none" /\ w.s.kinderr = "nil"
          /\ w.s.limited = st.limited
      BY <1>3, <1>7
    <3> QED
      BY <2>1, <3>1, <3>2 DEF Stream
  <2>3. Advanced(st, r.s, n)
    BY <1>3, <1>7, <2>1
  <2>4. st.stack # <<>> => n <= Room(st)
    BY <1>3, <1>7
  <2>5. st.at + n <= Len(Seen(st.in, lim))
    <3>1. st.limited = (lim > 0)
      BY DEF Reading
    <3>2. lim > 0 => st.at + n <= lim
      BY <1>3, <1>7, <3>1
    <3>3. Len(Seen(st.in, lim)) = IF lim = 0 \/ lim > Len(st.in) THEN Len(st.in) ELSE lim
      BY <1>0, SeenFacts
    <3>4. CASE lim = 0 \/ lim > Len(st.in)
      BY <1>0, <1>7, <3>3, <3>4
    <3>5. CASE ~(lim = 0 \/ lim > Len(st.in))
      BY <1>0, <3>2, <3>3, <3>5
    <3> QED
      BY <3>4, <3>5
  <2>6. ~Missing(st, lim, n)
    <3>1. st.stack # <<>> => Room(st) \in Int
      BY <1>0, TopFacts
    <3> QED
      BY <1>0, <1>4, <2>4, <2>5, <3>1 DEF Missing
  <2>7. Nested(r.s.stack)
    <3> DEFINE k == st.stack
               k2 == r.s.stack
    <3>1. /\ k \in Seq([pos : Int, size : Int]) /\ k2 \in Seq([pos : Int, size : Int])
          /\ Nested(k) /\ Counts(k, k2, n)
      BY <1>0, <2>2, <2>3 DEF Reading, Advanced, Stream
    <3>2. k # <<>> => /\ n <= k[Len(k)].size - k[Len(k)].pos
                      /\ Len(k) \in Nat /\ Len(k) > 0
      BY <1>0, <2>4, TopFacts
    <3> HIDE DEF k, k2
    <3>3. CASE k = <<>>
      <4>1. Len(k2) = 0
        BY <3>1, <3>3 DEF Counts
      <4> QED
        BY <4>1 DEF Nested, k2
    <3>4. CASE k # <<>>
      <4>1. PICK len \in Nat : len = Len(k) /\ len = Len(k2) /\ len > 0
        BY <3>1, <3>2, <3>4 DEF Counts
      <4>2. \A i \in 1 .. len : k[i].pos \in Int /\ k[i].size \in Int
        <5> TAKE i \in 1 .. len
        <5>1. k[i] \in [pos : Int, size : Int]
          BY <3>1, <4>1, ElementOfSeq, Zenon
        <5> QED
          BY <5>1
      <4>3. /\ \A i \in 1 .. len : k[i].pos >= 0 /\ k[i].pos <= k[i].size
            /\ \A i \in 1 .. len - 1 : k[i].pos + k[i + 1].size <= k[i].size
        BY <3>1, <4>1 DEF Nested
      <4>4. /\ \A i \in 1 .. len : k2[i].size = k[i].size
            /\ \A i \in 1 .. len - 1 : k2[i].pos = k[i].pos
            /\ k2[len].pos = k[len].pos + n /\ n <= k[len].size - k[len].pos
        BY <3>1, <3>2, <3>4, <4>1 DEF Counts
      <4>5. \A i \in 1 .. len : k2[i].pos >= 0 /\ k2[i].pos <= k2[i].size
        <5> TAKE i \in 1 .. len
        <5>1. CASE i = len
          BY <4>2, <4>3, <4>4, <5>1
        <5>2. CASE i \in 1 .. len - 1
          BY <4>2, <4>3, <4>4, <5>2
        <5> QED
          BY <4>1, <5>1, <5>2
      <4>6. \A i \in 1 .. len - 1 : k2[i].pos + k2[i + 1].size <= k2[i].size
        <5> TAKE i \in 1 .. len - 1
        <5>1. i \in 1 .. len /\ i + 1 \in 1 .. len
          BY <4>1
        <5> QED
          BY <4>2, <4>3, <4>4, <5>1
      <4> QED
        BY <4>1, <4>5, <4>6 DEF Nested, k2
    <3> QED
      BY <3>3, <3>4
  <2>8. Reading(r.s, lim)
    <3>1. r.s.in = st.in
      BY <2>3 DEF Advanced
    <3>2. /\ st.limited = (lim > 0) /\ st.remaining \in Int
          /\ st.limited => st.remaining = lim - st.at
      BY <1>0 DEF Reading, Stream
    <3> QED
      BY <1>0, <1>3, <1>7, <2>2, <2>7, <3>1, <3>2 DEF Reading
  <2> QED
    BY <2>1, <2>2, <2>3, <2>5, <2>6, <2>8
<1> QED
  BY <1>5, <1>6, <1>7

\* A list ends where it did.
LEMMA SameRoom ==
  ASSUME NEW st \in Stream, NEW st2 \in Stream, NEW n \in Nat, Advanced(st, st2, n)
  PROVE  /\ st2.stack = <<>> <=> st.stack = <<>>
         /\ st.stack # <<>> => Room(st2) = Room(st) - n /\ st2.at + Room(st2) = st.at + Room(st)
<1>1. /\ st.stack \in Seq([pos : Int, size : Int]) /\ st2.stack \in Seq([pos : Int, size : Int])
      /\ Counts(st.stack, st2.stack, n) /\ st2.at = st.at + n /\ st.at \in Nat
  BY DEF Stream, Advanced
<1>2. Len(st2.stack) = Len(st.stack)
  BY <1>1 DEF Counts
<1>3. st2.stack = <<>> <=> st.stack = <<>>
  BY <1>1, <1>2
<1>4. ASSUME st.stack # <<>>
      PROVE  Room(st2) = Room(st) - n /\ st2.at + Room(st2) = st.at + Room(st)
  <2>1. /\ Room(st2) = st2.stack[Len(st.stack)].size - st2.stack[Len(st.stack)].pos
        /\ Room(st) = st.stack[Len(st.stack)].size - st.stack[Len(st.stack)].pos
        /\ Room(st) \in Int /\ Room(st2) \in Int /\ Len(st.stack) \in 1 .. Len(st.stack)
        /\ st.stack[Len(st.stack)] \in [pos : Int, size : Int]
    BY <1>2, <1>3, <1>4, TopFacts
  <2>2. /\ st2.stack[Len(st.stack)].size = st.stack[Len(st.stack)].size
        /\ st2.stack[Len(st.stack)].pos = st.stack[Len(st.stack)].pos + n
    BY <1>1, <1>4, <2>1 DEF Counts
  <2>3. PICK p \in Int, z \in Int : /\ p = st.stack[Len(st.stack)].pos
                                    /\ z = st.stack[Len(st.stack)].size
    BY <2>1
  <2>4. Room(st2) = z - (p + n) /\ Room(st) = z - p
    BY <2>1, <2>2, <2>3
  <2>5. PICK a \in Nat : a = st.at /\ st2.at = a + n
    BY <1>1
  <2>6. \A i, j, k, m \in Int : i - (j + k) = (i - j) - k /\ (m + k) + (i - (j + k)) = m + (i - j)
    OBVIOUS
  <2>7. z - (p + n) = (z - p) - n /\ (a + n) + (z - (p + n)) = a + (z - p)
    BY <2>6
  <2> QED
    BY <2>4, <2>5, <2>7, Zenon
<1> QED
  BY <1>3, <1>4

LEMMA AdvancedTwice ==
  ASSUME NEW st \in Stream, NEW st1 \in Stream, NEW st2 \in Stream, NEW m \in Nat, NEW n \in Nat,
         Advanced(st, st1, m), Advanced(st1, st2, n)
  PROVE  Advanced(st, st2, m + n)
<1> DEFINE k == st.stack
           k1 == st1.stack
           k2 == st2.stack
<1>1. /\ k \in Seq([pos : Int, size : Int]) /\ st.at \in Nat
      /\ Counts(k, k1, m) /\ Counts(k1, k2, n)
  BY DEF Stream, Advanced
<1>2. st2.at = st.at + (m + n)
  BY <1>1 DEF Advanced
<1>3. k # <<>> => /\ Len(k) \in Nat /\ k[Len(k)] \in [pos : Int, size : Int]
                  /\ k1 # <<>> /\ Len(k) \in 1 .. Len(k)
  <2> HAVE k # <<>>
  <2>1. Len(k) \in Nat /\ k[Len(k)] \in [pos : Int, size : Int] /\ Len(k) \in 1 .. Len(k)
    BY TopFacts
  <2>2. Len(k1) = Len(k) /\ k1 \in Seq([pos : Int, size : Int])
    BY <1>1 DEF Counts, Stream
  <2> QED
    BY <2>1, <2>2
<1> HIDE DEF k, k1, k2
<1>4. Counts(k, k2, m + n)
  <2>1. Len(k1) = Len(k) /\ Len(k2) = Len(k)
    BY <1>1 DEF Counts
  <2>2. /\ \A i \in 1 .. Len(k) : k2[i].size = k[i].size
        /\ \A i \in 1 .. Len(k) - 1 : k2[i].pos = k[i].pos
    BY <1>1, <2>1 DEF Counts
  <2>3. ASSUME k # <<>> PROVE k2[Len(k)].pos = k[Len(k)].pos + (m + n)
    <3>1. k1[Len(k)].pos = k[Len(k)].pos + m /\ k2[Len(k)].pos = k1[Len(k)].pos + n
      BY <1>1, <1>3, <2>1, <2>3 DEF Counts
    <3>2. PICK p \in Int : p = k[Len(k)].pos
      BY <1>3, <2>3
    <3>3. (p + m) + n = p + (m + n)
      BY <3>2
    <3> QED
      BY <3>1, <3>2, <3>3
  <2> QED
    BY <2>1, <2>2, <2>3 DEF Counts
<1> QED
  BY <1>2, <1>4 DEF Advanced, k, k1, k2

\* An integer of n bytes is what they stand for, without a leading zero.
LEMMA UintFacts ==
  ASSUME NEW lim \in Nat, NEW st, Reading(st, lim), NEW n \in Nat, NEW r, r = ReadUint(st, n)
  PROVE  /\ r.s \in Stream /\ r.v \in Nat
         /\ r.err \in {"nil", "ElemTooLarge", "ValueTooLarge", "UnexpectedEOF", "CanonSize"}
         /\ r.err \in {"ElemTooLarge", "ValueTooLarge", "UnexpectedEOF"} => Missing(st, lim, n)
         /\ r.err = "CanonSize" => n > 1 /\ st.in[st.at + 1] = 0 /\ ~Missing(st, lim, n)
                                   /\ st.at + n <= Len(Seen(st.in, lim))
         /\ r.err = "nil" =>
              /\ Advanced(st, r.s, n) /\ Reading(r.s, lim) /\ r.s.kind = "none"
              /\ st.at + n <= Len(Seen(st.in, lim))
              /\ n > 1 => st.in[st.at + 1] # 0
              /\ n > 0 => r.v = Value(SubSeq(st.in, st.at + 1, st.at + n))
<1>0. /\ st \in Stream /\ st.at \in Nat /\ st.in \in Seq(Byte) /\ Len(st.in) \in Nat
      /\ st.at <= Len(st.in)
  BY DEF Reading, Stream
<1>1. CASE n = 0
  <2>1. r.s = [st EXCEPT !.kind = "none"] /\ r.err = "nil" /\ r.v = 0
    BY <1>1 DEF ReadUint, Result, Rearmed
  <2>2. /\ r.s \in Stream /\ r.s.in = st.in /\ r.s.at = st.at /\ r.s.stack = st.stack
        /\ r.s.kind = "none" /\ r.s.size = st.size /\ r.s.byteval = st.byteval
        /\ r.s.limited = st.limited /\ r.s.remaining = st.remaining /\ r.s.kinderr = st.kinderr
    BY <1>0, <2>1 DEF Stream
  <2>3. Counts(st.stack, st.stack, 0)
    <3>1. st.stack # <<>> => st.stack[Len(st.stack)].pos \in Int
      <4>1. st.stack # <<>> => st.stack[Len(st.stack)] \in [pos : Int, size : Int]
        BY <1>0, TopFacts
      <4> QED
        BY <4>1
    <3> QED
      BY <3>1 DEF Counts
  <2>4. Advanced(st, r.s, n)
    BY <1>0, <1>1, <2>2, <2>3 DEF Advanced
  <2>5. Reading(r.s, lim)
    BY <2>2 DEF Reading
  <2>6. st.at + n <= Len(Seen(st.in, lim))
    <3>1. lim > 0 => st.at <= lim
      BY DEF Reading
    <3>2. Len(Seen(st.in, lim)) = IF lim = 0 \/ lim > Len(st.in) THEN Len(st.in) ELSE lim
      BY <1>0, SeenFacts
    <3>3. CASE lim = 0 \/ lim > Len(st.in)
      BY <1>0, <1>1, <3>2, <3>3
    <3>4. CASE ~(lim = 0 \/ lim > Len(st.in))
      BY <1>0, <1>1, <3>1, <3>2, <3>4
    <3> QED
      BY <3>3, <3>4
  <2> QED
    BY <1>1, <2>1, <2>2, <2>4, <2>5, <2>6
<1>2. CASE n > 0
  <2>1. PICK q : q = Read(st, n)
    OBVIOUS
  <2>2. r = IF q.err # "nil" THEN Result(q.s, q.err, 0)
            ELSE IF n > 1 /\ q.v[1] = 0 THEN Result(q.s, "CanonSize", 0)
            ELSE Result(q.s, "nil", Value(q.v))
    BY <1>2, <2>1 DEF ReadUint
  <2>3. /\ q.s \in Stream
        /\ q.err \in {"nil", "ElemTooLarge", "ValueTooLarge", "UnexpectedEOF"}
        /\ q.err # "nil" => Missing(st, lim, n)
        /\ q.err = "nil" =>
             /\ Advanced(st, q.s, n) /\ Reading(q.s, lim) /\ q.s.kind = "none"
             /\ ~Missing(st, lim, n)
             /\ q.v = SubSeq(st.in, st.at + 1, st.at + n)
             /\ st.at + n <= Len(Seen(st.in, lim))
    BY <2>1, ReadFacts
  <2>4. CASE q.err # "nil"
    BY <2>2, <2>3, <2>4 DEF Result
  <2>5. CASE q.err = "nil"
    <3>1. Len(Seen(st.in, lim)) <= Len(st.in) /\ Len(Seen(st.in, lim)) \in Nat
      BY <1>0, SeenFacts
    <3>2. st.at + n <= Len(st.in)
      BY <1>0, <2>3, <2>5, <3>1
    <3>3. q.v \in Seq(Byte) /\ q.v[1] = st.in[st.at + 1]
      <4>1. PICK x : x = SubSeq(st.in, st.at + 1, st.at + n)
        OBVIOUS
      <4>2. x \in Seq(Byte) /\ x[1] = st.in[st.at + 1]
        <5>1. x \in Seq(Byte) /\ \A k \in 1 .. n : x[k] = st.in[st.at + k]
          BY <1>0, <3>2, <4>1, SubSeqFacts
        <5>2. 1 \in 1 .. n
          BY <1>2
        <5> QED
          BY <5>1, <5>2
      <4> QED
        BY <2>3, <2>5, <4>1, <4>2
    <3>4. Value(q.v) \in Nat
      BY <3>3, ValueFacts
    <3>5. CASE n > 1 /\ q.v[1] = 0
      BY <2>2, <2>3, <2>5, <3>3, <3>5 DEF Result
    <3>6. CASE ~(n > 1 /\ q.v[1] = 0)
      <4>1. r.s = q.s /\ r.err = "nil" /\ r.v = Value(q.v)
        BY <2>2, <2>5, <3>6 DEF Result
      <4> QED
        BY <2>3, <2>5, <3>3, <3>4, <3>6, <4>1
    <3> QED
      BY <3>5, <3>6
  <2> QED
    BY <2>4, <2>5
<1> QED
  BY <1>1, <1>2

-----------------------------------------------------------------------------
\* The header of a value.
LEMMA ModSmall ==
  ASSUME NEW m \in Nat, m > 0, NEW x \in 0 .. m - 1
  PROVE  x % m = x /\ (x + m) % m = x
OBVIOUS

LEMMA HeaderShapes ==
  ASSUME NEW b \in Seq(Byte), NEW i \in Nat, i < Len(b)
  PROVE  LET tag == b[i + 1]
             lists == Single + Short + Long
             Form(kind, n) == /\ Cursor!Width(b, i) = n /\ n \in Nat /\ n > 0
                              /\ Cursor!Header(b, i) = [kind |-> kind, from |-> i + 1 + n,
                                                        size |-> Cursor!Number(b, i + 1, n)]
             Small(kind, n) == /\ Cursor!Width(b, i) = 0 /\ n \in Nat
                               /\ Cursor!Header(b, i) = [kind |-> kind, from |-> i + 1, size |-> n]
         IN /\ tag \in Nat
            /\ tag < Single => /\ Cursor!Width(b, i) = 0
                               /\ Cursor!Header(b, i) = [kind |-> "Byte", from |-> i, size |-> 1]
            /\ tag >= Single /\ tag < Single + Short => Small("String", tag - Single)
            /\ tag >= Single + Short /\ tag < lists
                 => Form("String", tag - (Single + Short - 1))
            /\ tag >= lists /\ tag < lists + Short => Small("List", tag - lists)
            /\ tag >= lists + Short => Form("List", tag - (lists + Short - 1))
<1> DEFINE tag == b[i + 1]
           t == (tag - Single) % (Short + Long)
           lists == Single + Short + Long
<1>1. i + 1 \in 1 .. Len(b) /\ Len(b) \in Nat
  OBVIOUS
<1>2. tag \in Byte
  BY <1>1, ElementOfSeq, Zenon
<1>3. tag \in Nat /\ tag < 4 * (Short + Long)
  BY <1>2, Layout DEF Byte
<1> HIDE DEF tag
<1>4. tag >= Single /\ tag < lists => t = tag - Single
  BY <1>3, Layout, ModSmall
<1>5. tag >= lists => t = tag - lists
  <2> HAVE tag >= lists
  <2>1. PICK m \in Nat : m = Short + Long /\ m > 0 /\ Single = 2 * m
    BY Layout
  <2>2. PICK x \in Int : x = tag - lists
    BY <1>3, Layout
  <2>3. x \in 0 .. m - 1 /\ tag - Single = x + m
    BY <1>3, <2>1, <2>2, Layout
  <2>4. (x + m) % m = x
    BY <2>1, <2>3, ModSmall
  <2> QED
    BY <2>1, <2>2, <2>3, <2>4
<1>6. Cursor!Width(b, i) = IF tag < Single \/ t < Short THEN 0 ELSE t - Short + 1
  BY DEF Cursor!Width, tag
<1>7. Cursor!Header(b, i) =
        IF tag < Single THEN [kind |-> "Byte", from |-> i, size |-> 1]
        ELSE IF tag >= lists THEN Cursor!Sized("List", b, i, tag - Single - Short - Long)
        ELSE Cursor!Sized("String", b, i, tag - Single)
  <2>1. lists \in Nat /\ Single \in Nat /\ lists >= Single
    BY Layout
  <2>2. Cursor!Header(b, i) =
          CASE tag < Single -> [kind |-> "Byte", from |-> i, size |-> 1]
            [] tag >= lists -> Cursor!Sized("List", b, i, tag - Single - Short - Long)
            [] OTHER -> Cursor!Sized("String", b, i, tag - Single)
    BY DEF Cursor!Header, tag
  <2> HIDE DEF lists
  <2>3. CASE tag < Single
    <3>1. ~(tag >= lists)
      BY <1>3, <2>1, <2>3
    <3> QED
      BY <2>2, <2>3, <3>1
  <2>4. CASE ~(tag < Single) /\ tag >= lists
    BY <2>2, <2>4
  <2>5. CASE ~(tag < Single) /\ ~(tag >= lists)
    BY <2>2, <2>5
  <2> QED
    BY <2>3, <2>4, <2>5
<1>8. ASSUME NEW kind, NEW u \in Nat
      PROVE  /\ u < Short => Cursor!Sized(kind, b, i, u)
                               = [kind |-> kind, from |-> i + 1, size |-> u]
             /\ u >= Short => Cursor!Sized(kind, b, i, u)
                                = [kind |-> kind, from |-> i + 1 + (u - Short + 1),
                                   size |-> Cursor!Number(b, i + 1, u - Short + 1)]
  BY Layout DEF Cursor!Sized
<1> HIDE DEF t
<1>9. CASE tag < Single
  BY <1>3, <1>6, <1>7, <1>9, Layout DEF tag
<1>10. CASE tag >= Single /\ tag < lists
  <2>1. tag - Single \in Nat
    BY <1>3, <1>10, Layout
  <2>2. Cursor!Header(b, i) = Cursor!Sized("String", b, i, tag - Single)
    BY <1>3, <1>7, <1>10, Layout
  <2>3. CASE tag < Single + Short
    <3>1. tag - Single < Short
      BY <1>3, <2>3, Layout
    <3>2. Cursor!Header(b, i) = [kind |-> "String", from |-> i + 1, size |-> tag - Single]
      BY <1>8, <2>1, <2>2, <3>1
    <3>3. Cursor!Width(b, i) = 0
      BY <1>4, <1>6, <1>10, <3>1
    <3> QED
      BY <1>3, <1>10, <2>1, <2>3, <3>2, <3>3, Layout, SMTT(30) DEF tag
  <2>4. CASE tag >= Single + Short
    <3>1. PICK n : n = tag - (Single + Short - 1)
      OBVIOUS
    <3>2. n \in Nat /\ n > 0 /\ n = tag - Single - Short + 1 /\ tag - Single >= Short
      BY <1>3, <2>4, <3>1, Layout
    <3>3. Cursor!Header(b, i) = [kind |-> "String", from |-> i + 1 + n,
                                 size |-> Cursor!Number(b, i + 1, n)]
      BY <1>8, <2>1, <2>2, <3>2
    <3>4. Cursor!Width(b, i) = n
      BY <1>3, <1>4, <1>6, <1>10, <3>2, Layout
    <3>5. tag \in Nat /\ ~(tag < Single) /\ ~(tag < Single + Short) /\ ~(tag >= lists)
          /\ ~(tag >= lists + Short)
      BY <1>3, <1>10, <2>4, Layout
    <3> HIDE DEF lists
    <3> QED
      BY <3>1, <3>2, <3>3, <3>4, <3>5 DEF tag, lists
  <2> QED
    BY <1>3, <2>3, <2>4, Layout
<1>11. CASE tag >= lists
  <2>1. tag - lists \in Nat /\ tag - Single - Short - Long = tag - lists /\ tag >= Single
    BY <1>3, <1>11, Layout
  <2>2. Cursor!Header(b, i) = Cursor!Sized("List", b, i, tag - lists)
    BY <1>3, <1>7, <1>11, <2>1, Layout
  <2>3. CASE tag < lists + Short
    <3>1. tag - lists < Short
      BY <1>3, <2>3, Layout
    <3>2. Cursor!Header(b, i) = [kind |-> "List", from |-> i + 1, size |-> tag - lists]
      BY <1>8, <2>1, <2>2, <3>1
    <3>3. Cursor!Width(b, i) = 0
      BY <1>5, <1>6, <1>11, <3>1
    <3> QED
      BY <1>3, <1>11, <2>1, <2>3, <3>2, <3>3, Layout, SMTT(30) DEF tag
  <2>4. CASE tag >= lists + Short
    <3>1. PICK n : n = tag - (lists + Short - 1)
      OBVIOUS
    <3>2. n \in Nat /\ n > 0 /\ n = tag - lists - Short + 1 /\ tag - lists >= Short
      BY <1>3, <2>4, <3>1, Layout
    <3>3. Cursor!Header(b, i) = [kind |-> "List", from |-> i + 1 + n,
                                 size |-> Cursor!Number(b, i + 1, n)]
      BY <1>8, <2>1, <2>2, <3>2
    <3>4. Cursor!Width(b, i) = n
      BY <1>3, <1>5, <1>6, <1>11, <2>1, <3>2, Layout
    <3>5. tag \in Nat /\ ~(tag < Single) /\ ~(tag < Single + Short) /\ ~(tag < lists)
          /\ ~(tag < lists + Short)
      BY <1>3, <1>11, <2>4, Layout
    <3> HIDE DEF lists
    <3> QED
      BY <3>1, <3>2, <3>3, <3>4, <3>5 DEF tag, lists
  <2> QED
    BY <1>3, <2>3, <2>4, Layout
<1> QED
  BY <1>3, <1>9, <1>10, <1>11, Layout

\* What may end at e: it lies in the innermost list, or within the limit.
InBounds(st, lim, e) ==
  IF st.stack # <<>> THEN e <= st.at + Room(st) ELSE lim = 0 \/ e <= lim

\* There is a header at i, and room for its value.
There(st, lim, i) ==
  LET b == Seen(st.in, lim)
      h == Cursor!Header(b, i)
  IN Cursor!GoodHeader(b, i) /\ InBounds(st, lim, h.from + h.size)

\* The header that starts at m has been read, and its value is ahead.
Known(st, lim, m) ==
  LET b == Seen(st.in, lim)
      h == Cursor!Header(b, m)
  IN /\ m \in Nat /\ m < st.at /\ Cursor!GoodHeader(b, m) /\ h.kind = st.kind
     /\ IF st.kind = "Byte"
        THEN st.at = m + 1 /\ st.byteval = b[m + 1] /\ st.size = 0 /\ h.from = m /\ h.size = 1
        ELSE h.from = st.at /\ h.size = st.size /\ st.size \in Nat
     /\ InBounds(st, lim, st.at + st.size)

ReadErrors == {"ElemTooLarge", "ValueTooLarge", "UnexpectedEOF", "CanonSize"}

\* A header whose size takes n bytes.
LEMMA LongHeaderFacts ==
  ASSUME NEW lim \in Nat, NEW st, NEW st1, Reading(st, lim), Reading(st1, lim),
         Advanced(st, st1, 1), st.at < Len(Seen(st.in, lim)),
         NEW kind, NEW n \in Nat, n > 0,
         Cursor!Width(Seen(st.in, lim), st.at) = n,
         Cursor!Header(Seen(st.in, lim), st.at)
           = [kind |-> kind, from |-> st.at + 1 + n,
              size |-> Cursor!Number(Seen(st.in, lim), st.at + 1, n)],
         NEW r, r = LongHeader(st1, kind, n)
  PROVE  /\ r.s \in Stream /\ r.err \in ReadErrors \cup {"nil"}
         /\ r.v.kind = kind /\ r.v.size \in Nat /\ r.v.byte = 0
         /\ r.err # "nil" => ~There(st, lim, st.at)
         /\ r.err = "nil" =>
              /\ Advanced(st, r.s, 1 + n) /\ Reading(r.s, lim)
              /\ Cursor!GoodHeader(Seen(st.in, lim), st.at)
              /\ r.v.size = Cursor!Number(Seen(st.in, lim), st.at + 1, n)
<1> DEFINE b == Seen(st.in, lim)
           i == st.at
           size == Cursor!Number(b, i + 1, n)
<1>0. /\ st \in Stream /\ st1 \in Stream /\ st.at \in Nat /\ st.in \in Seq(Byte)
      /\ st1.in = st.in /\ st1.at = st.at + 1
  BY DEF Reading, Stream, Advanced
<1>1. /\ b \in Seq(Byte) /\ Len(b) \in Nat /\ Len(b) <= Len(st.in)
      /\ \A k \in 1 .. Len(b) : b[k] = st.in[k]
      /\ \A a \in Nat, e \in 0 .. Len(b) : SubSeq(b, a + 1, e) = SubSeq(st.in, a + 1, e)
  BY <1>0, SeenFacts, Zenon
<1>2. i + 1 + n <= Len(b) =>
        /\ size = Value(SubSeq(st.in, i + 2, i + 1 + n)) /\ size \in Nat
        /\ b[i + 2] = st.in[i + 2]
  <2> SUFFICES ASSUME i + 1 + n <= Len(b)
               PROVE  /\ size = Value(SubSeq(st.in, i + 2, i + 1 + n)) /\ size \in Nat
                      /\ b[i + 2] = st.in[i + 2]
    OBVIOUS
  <2>1. PICK from \in Nat : from = i + 1
    BY <1>0
  <2> HIDE DEF b
  <2>2. size = Value(SubSeq(b, from + 1, from + n)) /\ size \in Nat
    BY <1>1, <2>1, NumberValue
  <2>3. from + n \in 0 .. Len(b) /\ from + 1 = i + 2 /\ from + n = i + 1 + n
    BY <1>0, <1>1, <2>1
  <2>4. SubSeq(b, from + 1, from + n) = SubSeq(st.in, from + 1, from + n)
    BY <1>1, <2>1, <2>3
  <2>5. i + 2 \in 1 .. Len(b)
    BY <1>0, <1>1
  <2> QED
    BY <1>1, <2>2, <2>3, <2>4, <2>5
<1>3. PICK q : q = ReadUint(st1, n)
  OBVIOUS
<1>4. r = Result(q.s, IF q.err = "nil" /\ q.v < Short THEN "CanonSize" ELSE q.err,
                 Ahead(kind, q.v, 0))
  BY <1>3 DEF LongHeader
<1>5. /\ q.s \in Stream /\ q.v \in Nat /\ q.err \in ReadErrors \cup {"nil"}
      /\ q.err \in {"ElemTooLarge", "ValueTooLarge", "UnexpectedEOF"} => Missing(st1, lim, n)
      /\ q.err = "CanonSize" => n > 1 /\ st1.in[st1.at + 1] = 0
      /\ q.err = "nil" =>
           /\ Advanced(st1, q.s, n) /\ Reading(q.s, lim)
           /\ st1.at + n <= Len(Seen(st1.in, lim))
           /\ n > 1 => st1.in[st1.at + 1] # 0
           /\ n > 0 => q.v = Value(SubSeq(st1.in, st1.at + 1, st1.at + n))
  BY <1>3, UintFacts DEF ReadErrors
<1>6. /\ r.s = q.s /\ r.v.kind = kind /\ r.v.size = q.v /\ r.v.byte = 0
      /\ r.err = IF q.err = "nil" /\ q.v < Short THEN "CanonSize" ELSE q.err
  BY <1>4 DEF Result, Ahead
<1>7. Cursor!GoodHeader(b, i) <=> i + 1 + n <= Len(b) /\ b[i + 2] # 0 /\ size >= Short
  BY DEF Cursor!GoodHeader, Cursor!HasTag
<1>8. Cursor!Header(b, i).from = i + 1 + n /\ Cursor!Header(b, i).size = size
  OBVIOUS
<1>9. st.stack # <<>> =>
        /\ Room(st1) \in Int /\ Room(st) \in Int /\ st1.stack # <<>>
        /\ st1.at + Room(st1) = st.at + Room(st)
  <2>1. 1 \in Nat
    OBVIOUS
  <2>2. st.stack # <<>> => st1.stack # <<>> /\ st1.at + Room(st1) = st.at + Room(st)
    BY <1>0, <2>1, SameRoom
  <2> QED
    BY <1>0, <2>2, TopFacts
<1>10. Missing(st1, lim, n) => ~There(st, lim, i)
  <2> SUFFICES ASSUME Missing(st1, lim, n), There(st, lim, i) PROVE FALSE
    OBVIOUS
  <2>1. Cursor!GoodHeader(b, i) /\ InBounds(st, lim, (i + 1 + n) + size)
    BY <1>8 DEF There
  <2>2. i + 1 + n <= Len(b) /\ size \in Nat
    BY <1>2, <1>7, <2>1
  <2> HIDE DEF b, size
  <2>3. ~(st1.at + n > Len(Seen(st1.in, lim)))
    BY <1>0, <1>1, <2>2 DEF b
  <2>4. st1.stack # <<>> /\ n > Room(st1)
    BY <2>3 DEF Missing
  <2>5. st.stack # <<>>
    <3>1. 1 \in Nat
      OBVIOUS
    <3> QED
      BY <1>0, <2>4, <3>1, SameRoom
  <2>6. (i + 1 + n) + size <= i + Room(st)
    BY <2>1, <2>5 DEF InBounds
  <2>7. Room(st1) \in Int /\ Room(st) \in Int /\ (i + 1) + Room(st1) = i + Room(st)
    BY <1>0, <1>9, <2>5
  <2> QED
    BY <1>0, <2>2, <2>4, <2>6, <2>7
<1>11. CASE q.err \in {"ElemTooLarge", "ValueTooLarge", "UnexpectedEOF"}
  BY <1>5, <1>6, <1>10, <1>11 DEF ReadErrors
<1>12. CASE q.err = "CanonSize"
  <2>1. st.in[i + 2] = 0
    <3>1. st1.at + 1 = i + 2
      BY <1>0
    <3> QED
      BY <1>0, <1>5, <1>12, <3>1
  <2>2. ~Cursor!GoodHeader(b, i)
    BY <1>2, <1>7, <2>1
  <2>3. ~There(st, lim, i)
    BY <2>2 DEF There
  <2> QED
    BY <1>5, <1>6, <1>12, <2>3 DEF ReadErrors
<1>13. CASE q.err = "nil"
  <2>1. /\ st1.at + n = i + 1 + n /\ st1.at + 1 = i + 2 /\ i + 1 + n <= Len(b)
    BY <1>0, <1>5, <1>13
  <2>2. q.v = size
    BY <1>0, <1>2, <1>5, <1>13, <2>1
  <2>3. CASE q.v < Short
    <3>1. ~There(st, lim, i)
      <4>1. ~(size >= Short)
        BY <1>2, <2>1, <2>2, <2>3, Layout
      <4> QED
        BY <1>7, <4>1 DEF There
    <3> QED
      BY <1>5, <1>6, <1>13, <2>3, <3>1 DEF ReadErrors
  <2>4. CASE ~(q.v < Short)
    <3>1. b[i + 2] # 0
      <4>1. CASE n > 1
        BY <1>0, <1>2, <1>5, <1>13, <2>1, <4>1
      <4>2. CASE n = 1
        <5>1. /\ SubSeq(st.in, i + 2, i + 1 + n) \in Seq(Byte)
              /\ Len(SubSeq(st.in, i + 2, i + 1 + n)) = 1
              /\ SubSeq(st.in, i + 2, i + 1 + n)[1] = st.in[i + 2]
          <6>1. PICK from \in Nat : from = i + 1 /\ from + 1 = i + 2 /\ from + n = i + 1 + n
            BY <1>0
          <6>2. from + n <= Len(st.in)
            BY <1>0, <1>1, <2>1, <6>1
          <6>3. /\ SubSeq(st.in, from + 1, from + n) \in Seq(Byte)
                /\ Len(SubSeq(st.in, from + 1, from + n)) = n
                /\ SubSeq(st.in, from + 1, from + n)[1] = st.in[from + 1]
            <7>1. 1 \in 1 .. n
              BY <4>2
            <7>2. st.in \in Seq(Byte)
              BY <1>0
            <7>3. \A k \in 1 .. n : SubSeq(st.in, from + 1, from + n)[k] = st.in[from + k]
              BY <6>2, <7>2, SubSeqFacts
            <7>4. /\ SubSeq(st.in, from + 1, from + n) \in Seq(Byte)
                  /\ Len(SubSeq(st.in, from + 1, from + n)) = n
              BY <6>2, <7>2, SubSeqFacts
            <7> QED
              BY <7>1, <7>3, <7>4
          <6> QED
            BY <4>2, <6>1, <6>3
        <5>2. q.v = st.in[i + 2]
          BY <1>2, <2>1, <2>2, <5>1, ValueFacts
        <5> QED
          BY <1>2, <1>5, <2>1, <2>4, <5>2, Layout
      <4> QED
        BY <4>1, <4>2
    <3>2. Cursor!GoodHeader(b, i)
      BY <1>2, <1>7, <2>1, <2>2, <2>4, <3>1, Layout
    <3>3. Advanced(st, q.s, 1 + n)
      <4>1. 1 \in Nat
        OBVIOUS
      <4> QED
        BY <1>0, <1>5, <1>13, <4>1, AdvancedTwice
    <3> QED
      BY <1>5, <1>6, <1>13, <2>2, <2>4, <3>2, <3>3 DEF ReadErrors
  <2> QED
    BY <2>3, <2>4
<1> QED
  BY <1>5, <1>11, <1>12, <1>13 DEF ReadErrors

\* The header of the value ahead, or there is none.
LEMMA ReadKindFacts ==
  ASSUME NEW lim \in Nat, NEW st, Reading(st, lim), st.stack # <<>> => Room(st) # 0,
         NEW r, r = ReadKind(st)
  PROVE  /\ r.s \in Stream /\ r.err \in ReadErrors \cup {"nil", "EOF"}
         /\ r.v.kind \in {"Byte", "String", "List"} /\ r.v.size \in Nat /\ r.v.byte \in Int
         /\ r.err # "nil" => ~There(st, lim, st.at)
         /\ r.err = "nil" =>
              LET b == Seen(st.in, lim)
                  h == Cursor!Header(b, st.at)
              IN /\ \E n \in Nat : n > 0 /\ Advanced(st, r.s, n)
                 /\ Reading(r.s, lim) /\ Cursor!GoodHeader(b, st.at) /\ h.kind = r.v.kind
                 /\ IF r.v.kind = "Byte"
                    THEN r.s.at = st.at + 1 /\ r.v.byte = b[st.at + 1] /\ r.v.size = 0
                         /\ h.from = st.at /\ h.size = 1
                    ELSE h.from = r.s.at /\ h.size = r.v.size
<1> DEFINE b == Seen(st.in, lim)
           i == st.at
           h == Cursor!Header(b, i)
           lists == Single + Short + Long
<1>0. /\ st \in Stream /\ st.at \in Nat /\ st.in \in Seq(Byte) /\ st.at <= Len(st.in)
  BY DEF Reading, Stream
<1>1. PICK q : q = Read(st, 1)
  OBVIOUS
<1>2. PICK tag : tag = q.v[1]
  OBVIOUS
<1>3. r = IF q.err # "nil"
          THEN Result(q.s, IF st.stack = <<>> /\ q.err \in {"UnexpectedEOF", "ValueTooLarge"}
                           THEN "EOF" ELSE q.err, Ahead("Byte", 0, 0))
          ELSE IF tag < Single THEN Result(q.s, "nil", Ahead("Byte", 0, tag))
          ELSE IF tag < Single + Short THEN Result(q.s, "nil", Ahead("String", tag - Single, 0))
          ELSE IF tag < lists THEN LongHeader(q.s, "String", tag - (Single + Short - 1))
          ELSE IF tag < lists + Short THEN Result(q.s, "nil", Ahead("List", tag - lists, 0))
          ELSE LongHeader(q.s, "List", tag - (lists + Short - 1))
  BY <1>1, <1>2 DEF ReadKind
<1>4. /\ q.s \in Stream
      /\ q.err \in {"nil", "ElemTooLarge", "ValueTooLarge", "UnexpectedEOF"}
      /\ q.err # "nil" => Missing(st, lim, 1)
      /\ q.err = "nil" =>
           /\ Advanced(st, q.s, 1) /\ Reading(q.s, lim)
           /\ q.v = SubSeq(st.in, i + 1, i + 1) /\ i + 1 <= Len(b)
  <2>1. 1 \in Nat
    OBVIOUS
  <2> QED
    BY <1>1, <2>1, ReadFacts
<1>5. /\ b \in Seq(Byte) /\ Len(b) \in Nat /\ Len(b) <= Len(st.in)
      /\ \A k \in 1 .. Len(b) : b[k] = st.in[k]
  BY <1>0, SeenFacts
<1>6. CASE q.err # "nil"
  <2>1. /\ r.s = q.s /\ r.v.kind = "Byte" /\ r.v.size = 0 /\ r.v.byte = 0
        /\ r.err \in {q.err, "EOF"}
    <3>1. r = Result(q.s, IF st.stack = <<>> /\ q.err \in {"UnexpectedEOF", "ValueTooLarge"}
                          THEN "EOF" ELSE q.err, Ahead("Byte", 0, 0))
      BY <1>3, <1>6
    <3> QED
      BY <3>1 DEF Result, Ahead
  <2>2. ~There(st, lim, i)
    <3>1. CASE st.stack # <<>> /\ 1 > Room(st)
      <4>1. Room(st) \in Int /\ Room(st) >= 0
        <5>1. /\ Room(st) = st.stack[Len(st.stack)].size - st.stack[Len(st.stack)].pos
              /\ Len(st.stack) \in 1 .. Len(st.stack)
              /\ st.stack[Len(st.stack)] \in [pos : Int, size : Int]
          BY <1>0, <3>1, TopFacts
        <5>2. st.stack[Len(st.stack)].pos <= st.stack[Len(st.stack)].size
          BY <5>1 DEF Reading, Nested
        <5> QED
          BY <5>1, <5>2
      <4> QED
        BY <3>1, <4>1
    <3>2. CASE i + 1 > Len(b)
      <4>1. ~Cursor!GoodHeader(b, i)
        BY <1>0, <1>5, <3>2 DEF Cursor!GoodHeader, Cursor!HasTag
      <4> QED
        BY <4>1 DEF There
    <3> QED
      BY <1>4, <1>6, <3>1, <3>2 DEF Missing
  <2> QED
    BY <1>4, <1>6, <2>1, <2>2 DEF ReadErrors
<1>7. CASE q.err = "nil"
  <2>1. i < Len(b) /\ i + 1 \in 1 .. Len(b)
    <3>1. i + 1 <= Len(b) /\ Len(b) \in Nat
      BY <1>4, <1>5, <1>7
    <3> HIDE DEF b
    <3> QED
      BY <1>0, <3>1
  <2>2. tag = b[i + 1]
    <3>1. /\ 1 \in Nat /\ i + 1 <= Len(st.in)
      BY <1>0, <1>5, <2>1
    <3>2. \A k \in 1 .. 1 : SubSeq(st.in, i + 1, i + 1)[k] = st.in[i + k]
      BY <1>0, <3>1, SubSeqFacts
    <3>3. SubSeq(st.in, i + 1, i + 1)[1] = st.in[i + 1]
      <4>1. 1 \in 1 .. 1
        OBVIOUS
      <4> QED
        BY <3>2, <4>1
    <3> QED
      BY <1>2, <1>4, <1>5, <1>7, <2>1, <3>3
  <2> DEFINE Form(kind, n) == /\ Cursor!Width(b, i) = n /\ n \in Nat /\ n > 0
                              /\ h = [kind |-> kind, from |-> i + 1 + n,
                                      size |-> Cursor!Number(b, i + 1, n)]
             Small(kind, n) == /\ Cursor!Width(b, i) = 0 /\ n \in Nat
                               /\ h = [kind |-> kind, from |-> i + 1, size |-> n]
  <2> HIDE DEF b
  <2>3. /\ tag \in Nat
        /\ tag < Single => /\ Cursor!Width(b, i) = 0
                           /\ h = [kind |-> "Byte", from |-> i, size |-> 1]
        /\ tag >= Single /\ tag < Single + Short => Small("String", tag - Single)
        /\ tag >= Single + Short /\ tag < lists => Form("String", tag - (Single + Short - 1))
        /\ tag >= lists /\ tag < lists + Short => Small("List", tag - lists)
        /\ tag >= lists + Short => Form("List", tag - (lists + Short - 1))
    BY <1>0, <1>5, <2>1, <2>2, HeaderShapes
  <2> USE DEF b
  <2>4. Cursor!Width(b, i) = 0 => Cursor!GoodHeader(b, i)
    BY <1>0, <1>5, <2>1 DEF Cursor!GoodHeader, Cursor!HasTag
  <2>5. q.s.at = i + 1 /\ Advanced(st, q.s, 1) /\ Reading(q.s, lim)
    BY <1>4, <1>7 DEF Advanced
  <2>6. ASSUME NEW kind \in {"String", "List"}, NEW n, Small(kind, n),
               r = Result(q.s, "nil", Ahead(kind, n, 0))
        PROVE  /\ r.s = q.s /\ r.err = "nil" /\ r.v.kind = kind /\ r.v.size = n /\ n \in Nat
               /\ r.v.byte = 0 /\ h.kind = kind /\ h.from = i + 1 /\ h.size = n
               /\ Cursor!GoodHeader(b, i)
    BY <2>4, <2>6 DEF Result, Ahead
  <2>7. ASSUME NEW kind \in {"String", "List"}, NEW n, Form(kind, n),
               r = LongHeader(q.s, kind, n)
        PROVE  /\ r.s \in Stream /\ r.err \in ReadErrors \cup {"nil"}
               /\ r.v.kind = kind /\ r.v.size \in Nat /\ r.v.byte = 0
               /\ r.err # "nil" => ~There(st, lim, i)
               /\ r.err = "nil" =>
                    /\ Advanced(st, r.s, 1 + n) /\ Reading(r.s, lim)
                    /\ Cursor!GoodHeader(b, i) /\ n \in Nat /\ r.s.at = i + 1 + n
                    /\ h.kind = kind /\ h.from = r.s.at /\ h.size = r.v.size
    <3>1. /\ r.s \in Stream /\ r.err \in ReadErrors \cup {"nil"}
          /\ r.v.kind = kind /\ r.v.size \in Nat /\ r.v.byte = 0
          /\ r.err # "nil" => ~There(st, lim, i)
          /\ r.err = "nil" =>
               /\ Advanced(st, r.s, 1 + n) /\ Reading(r.s, lim)
               /\ Cursor!GoodHeader(b, i)
               /\ r.v.size = Cursor!Number(b, i + 1, n)
      BY <2>1, <2>5, <2>7, LongHeaderFacts
    <3>2. r.err = "nil" => r.s.at = i + 1 + n
      BY <1>0, <2>7, <3>1 DEF Advanced
    <3> QED
      BY <2>7, <3>1, <3>2
  <2> HIDE DEF Small, Form, b, h
  <2>8. CASE tag < Single
    <3>1. r = Result(q.s, "nil", Ahead("Byte", 0, tag))
      BY <1>3, <1>7, <2>8
    <3>2. /\ r.s = q.s /\ r.err = "nil" /\ r.v.kind = "Byte" /\ r.v.size = 0 /\ r.v.byte = tag
      BY <3>1 DEF Result, Ahead
    <3>3. Cursor!GoodHeader(b, i) /\ h.kind = "Byte" /\ h.from = i /\ h.size = 1
      BY <2>3, <2>4, <2>8
    <3> QED
      BY <1>4, <2>2, <2>3, <2>5, <3>2, <3>3 DEF b, h
  <2>9. CASE tag >= Single /\ tag < Single + Short
    <3>1. r = Result(q.s, "nil", Ahead("String", tag - Single, 0))
      BY <1>3, <1>7, <2>3, <2>9, Layout
    <3>2. /\ r.s = q.s /\ r.err = "nil" /\ r.v.kind = "String" /\ r.v.size \in Nat
          /\ r.v.byte = 0 /\ h.kind = "String" /\ h.from = i + 1 /\ h.size = r.v.size
          /\ Cursor!GoodHeader(b, i)
      BY <2>3, <2>6, <2>9, <3>1
    <3> QED
      BY <1>4, <2>5, <3>2 DEF b, h
  <2>10. CASE tag >= Single + Short /\ tag < lists
    <3>1. r = LongHeader(q.s, "String", tag - (Single + Short - 1))
      BY <1>3, <1>7, <2>3, <2>10, Layout, SMTT(30)
    <3>2. Form("String", tag - (Single + Short - 1))
      BY <2>3, <2>10
    <3>3. PICK n : n = tag - (Single + Short - 1)
      OBVIOUS
    <3>4. /\ r.s \in Stream /\ r.err \in ReadErrors \cup {"nil"}
          /\ r.v.kind = "String" /\ r.v.size \in Nat /\ r.v.byte = 0
          /\ r.err # "nil" => ~There(st, lim, i)
          /\ r.err = "nil" =>
               /\ Advanced(st, r.s, 1 + n) /\ Reading(r.s, lim)
               /\ Cursor!GoodHeader(b, i) /\ n \in Nat /\ r.s.at = i + 1 + n
               /\ h.kind = "String" /\ h.from = r.s.at /\ h.size = r.v.size
      BY <2>7, <3>1, <3>2, <3>3
    <3>5. n \in Nat => 1 + n \in Nat /\ 1 + n > 0
      OBVIOUS
    <3> QED
      BY <3>4, <3>5 DEF b, h
  <2>11. CASE tag >= lists /\ tag < lists + Short
    <3>1. r = Result(q.s, "nil", Ahead("List", tag - lists, 0))
      BY <1>3, <1>7, <2>3, <2>11, Layout, SMTT(30)
    <3>2. /\ r.s = q.s /\ r.err = "nil" /\ r.v.kind = "List" /\ r.v.size \in Nat
          /\ r.v.byte = 0 /\ h.kind = "List" /\ h.from = i + 1 /\ h.size = r.v.size
          /\ Cursor!GoodHeader(b, i)
      BY <2>3, <2>6, <2>11, <3>1
    <3> QED
      BY <1>4, <2>5, <3>2 DEF b, h
  <2>12. CASE tag >= lists + Short
    <3>1. r = LongHeader(q.s, "List", tag - (lists + Short - 1))
      <4>1. /\ ~(tag < Single) /\ ~(tag < Single + Short) /\ ~(tag < lists)
            /\ ~(tag < lists + Short)
        BY <2>3, <2>12, Layout
      <4> QED
        BY <1>3, <1>7, <4>1, Zenon
    <3>2. Form("List", tag - (lists + Short - 1))
      BY <2>3, <2>12
    <3>3. PICK n : n = tag - (lists + Short - 1)
      OBVIOUS
    <3>4. /\ r.s \in Stream /\ r.err \in ReadErrors \cup {"nil"}
          /\ r.v.kind = "List" /\ r.v.size \in Nat /\ r.v.byte = 0
          /\ r.err # "nil" => ~There(st, lim, i)
          /\ r.err = "nil" =>
               /\ Advanced(st, r.s, 1 + n) /\ Reading(r.s, lim)
               /\ Cursor!GoodHeader(b, i) /\ n \in Nat /\ r.s.at = i + 1 + n
               /\ h.kind = "List" /\ h.from = r.s.at /\ h.size = r.v.size
      BY <2>7, <3>1, <3>2, <3>3
    <3>5. n \in Nat => 1 + n \in Nat /\ 1 + n > 0
      OBVIOUS
    <3> QED
      BY <3>4, <3>5 DEF b, h
  <2> QED
    BY <2>3, <2>8, <2>9, <2>10, <2>11, <2>12, Layout
<1> QED
  BY <1>4, <1>6, <1>7

\* What Kind leaves behind: the header of the value ahead, or the end of a list, or
\* an error because nothing is there.
LEMMA KindFacts ==
  ASSUME NEW lim \in Nat, NEW st, Reading(st, lim), NEW m, st.kind # "none" => Known(st, lim, m),
         NEW k, k = Kind(st), NEW start, start = IF st.kind = "none" THEN st.at ELSE m
  PROVE  /\ k.s \in Stream /\ k.v = 0 /\ k.err \in ReadErrors \cup {"nil", "EOF", "EOL"}
         /\ k.err = "EOL" => k.s = st /\ st.kind = "none"
         /\ k.err = "nil" =>
              /\ Reading(k.s, lim) /\ k.s.kind # "none" /\ Known(k.s, lim, start)
              /\ st.kind # "none" => k.s = st
              /\ st.kind = "none" =>
                   /\ \E n \in Nat : n > 0 /\ Advanced(st, k.s, n)
                   /\ st.stack # <<>> => Room(st) # 0
         /\ k.err \notin {"nil", "EOL"} =>
              st.kind = "none" /\ (st.stack # <<>> => Room(st) # 0) /\ ~There(st, lim, st.at)
<1>0. /\ st \in Stream /\ st.at \in Nat /\ st.in \in Seq(Byte) /\ st.kinderr = "nil"
      /\ st.kind \in {"none", "Byte", "String", "List"}
  BY DEF Reading, Stream
<1>1. CASE st.kind # "none"
  <2>1. k = Result(st, "nil", 0)
    BY <1>0, <1>1 DEF Kind
  <2> QED
    BY <1>0, <1>1, <2>1 DEF Result
<1>2. CASE st.kind = "none" /\ st.stack # <<>> /\ Room(st) = 0
  <2>1. k = Result([st EXCEPT !.kinderr = "nil"], "EOL", 0)
    BY <1>2 DEF Kind
  <2>2. [st EXCEPT !.kinderr = "nil"] = st
    BY <1>0 DEF Stream
  <2> QED
    BY <1>0, <1>2, <2>1, <2>2 DEF Result
<1>3. CASE st.kind = "none" /\ (st.stack # <<>> => Room(st) # 0)
  <2> DEFINE b == Seen(st.in, lim)
             h == Cursor!Header(b, st.at)
  <2>1. PICK r : r = ReadKind(st)
    OBVIOUS
  <2>2. PICK e : e = IF r.err = "nil" THEN TooLarge(r.s, r.v.size) ELSE r.err
    OBVIOUS
  <2>3. k = Result([r.s EXCEPT !.kind = r.v.kind, !.size = r.v.size, !.byteval = r.v.byte,
                               !.kinderr = e], e, 0)
    BY <1>3, <2>1, <2>2 DEF Kind
  <2>4. /\ r.s \in Stream /\ r.err \in ReadErrors \cup {"nil", "EOF"}
        /\ r.v.kind \in {"Byte", "String", "List"} /\ r.v.size \in Nat /\ r.v.byte \in Int
        /\ r.err # "nil" => ~There(st, lim, st.at)
        /\ r.err = "nil" =>
             /\ \E n \in Nat : n > 0 /\ Advanced(st, r.s, n)
             /\ Reading(r.s, lim) /\ Cursor!GoodHeader(b, st.at) /\ h.kind = r.v.kind
             /\ IF r.v.kind = "Byte"
                THEN r.s.at = st.at + 1 /\ r.v.byte = b[st.at + 1] /\ r.v.size = 0
                     /\ h.from = st.at /\ h.size = 1
                ELSE h.from = r.s.at /\ h.size = r.v.size
    BY <1>3, <2>1, ReadKindFacts
  <2>5. e \in ReadErrors \cup {"nil", "EOF"}
    BY <2>2, <2>4 DEF TooLarge, ReadErrors
  <2>6. /\ k.err = e /\ k.v = 0 /\ k.s \in Stream
        /\ k.s.kind = r.v.kind /\ k.s.size = r.v.size /\ k.s.byteval = r.v.byte
        /\ k.s.kinderr = e /\ k.s.in = r.s.in /\ k.s.at = r.s.at /\ k.s.stack = r.s.stack
        /\ k.s.limited = r.s.limited /\ k.s.remaining = r.s.remaining
    <3>1. PICK t : t = [r.s EXCEPT !.kind = r.v.kind, !.size = r.v.size, !.byteval = r.v.byte,
                                   !.kinderr = e]
      OBVIOUS
    <3>2. e \in Errors /\ r.v.size \in Int
      BY <2>4, <2>5 DEF Errors, ReadErrors
    <3>3. /\ t \in Stream /\ t.kind = r.v.kind /\ t.size = r.v.size /\ t.byteval = r.v.byte
          /\ t.kinderr = e /\ t.in = r.s.in /\ t.at = r.s.at /\ t.stack = r.s.stack
          /\ t.limited = r.s.limited /\ t.remaining = r.s.remaining
      BY <2>4, <3>1, <3>2 DEF Stream
    <3>4. k.s = t /\ k.err = e /\ k.v = 0
      BY <2>3, <3>1 DEF Result
    <3> QED
      BY <3>3, <3>4
  <2>7. CASE r.err # "nil"
    <3>1. k.err = r.err /\ ~There(st, lim, st.at)
      BY <2>2, <2>4, <2>6, <2>7
    <3> QED
      BY <1>3, <2>4, <2>6, <2>7, <3>1 DEF ReadErrors
  <2>8. CASE r.err = "nil"
    <3>1. PICK n \in Nat : n > 0 /\ Advanced(st, r.s, n)
      BY <2>4, <2>8
    <3>2. /\ r.s.at = st.at + n /\ r.s.in = st.in /\ r.s.at \in Nat
          /\ st.stack # <<>> <=> r.s.stack # <<>>
          /\ st.stack # <<>> => /\ Room(r.s) \in Int /\ Room(st) \in Int
                                /\ r.s.at + Room(r.s) = st.at + Room(st)
      BY <1>0, <2>4, <3>1, SameRoom, TopFacts DEF Advanced, Stream
    <3>3. r.s.limited = (lim > 0) /\ (r.s.limited => r.s.remaining = lim - r.s.at /\ r.s.at <= lim)
      BY <2>4, <2>8 DEF Reading
    <3>4. InBounds(st, lim, r.s.at + r.v.size) <=> e = "nil"
      <4>1. CASE st.stack # <<>>
        <5>1. e = IF r.v.size > Room(r.s) THEN "ElemTooLarge" ELSE "nil"
          BY <2>2, <2>8, <3>2, <4>1 DEF TooLarge
        <5>2. InBounds(st, lim, r.s.at + r.v.size) <=> r.s.at + r.v.size <= st.at + Room(st)
          BY <4>1 DEF InBounds
        <5>3. r.s.at + r.v.size <= st.at + Room(st) <=> r.v.size <= Room(r.s)
          BY <1>0, <2>4, <3>2, <4>1, SMTT(30)
        <5> QED
          BY <2>4, <3>2, <4>1, <5>1, <5>2, <5>3
      <4>2. CASE st.stack = <<>>
        <5>1. e = IF r.s.limited /\ r.v.size > r.s.remaining THEN "ValueTooLarge" ELSE "nil"
          BY <2>2, <2>8, <3>2, <4>2 DEF TooLarge
        <5>2. InBounds(st, lim, r.s.at + r.v.size) <=> lim = 0 \/ r.s.at + r.v.size <= lim
          BY <4>2 DEF InBounds
        <5>3. CASE lim = 0
          <6>1. (lim > 0) = FALSE
            BY <5>3
          <6>2. r.s.limited = FALSE
            BY <3>3, <6>1, Zenon
          <6> QED
            BY <5>1, <5>2, <5>3, <6>2
        <5>4. CASE lim > 0
          <6>1. e = IF r.v.size > lim - r.s.at THEN "ValueTooLarge" ELSE "nil"
            BY <3>3, <5>1, <5>4
          <6>2. InBounds(st, lim, r.s.at + r.v.size) <=> r.s.at + r.v.size <= lim
            BY <5>2, <5>4
          <6> QED
            BY <2>4, <3>2, <6>1, <6>2
        <5> QED
          BY <5>3, <5>4
      <4> QED
        BY <4>1, <4>2
    <3>5. h.from + h.size = r.s.at + r.v.size
      BY <1>0, <2>4, <2>8, <3>2
    <3>6. CASE e # "nil"
      <4>1. ~There(st, lim, st.at)
        BY <3>4, <3>5, <3>6 DEF There
      <4> QED
        BY <1>3, <2>5, <2>6, <3>6, <4>1 DEF ReadErrors
    <3>7. CASE e = "nil"
      <4>1. Reading(k.s, lim)
        BY <2>4, <2>6, <2>8, <3>7 DEF Reading
      <4>2. Advanced(st, k.s, n)
        BY <2>6, <3>1 DEF Advanced
      <4>3. start = st.at
        BY <1>3
      <4>4. InBounds(k.s, lim, k.s.at + k.s.size)
        BY <2>6, <3>2, <3>4, <3>7 DEF InBounds, Room, Top
      <4>5. Known(k.s, lim, start)
        BY <1>0, <2>4, <2>6, <2>8, <3>1, <3>2, <4>3, <4>4 DEF Known
      <4> QED
        <5>1. k.err = "nil" /\ k.s.kind # "none" /\ \E i \in Nat : i > 0 /\ Advanced(st, k.s, i)
          BY <2>4, <2>6, <3>1, <3>7, <4>2
        <5> QED
          BY <1>3, <2>6, <4>1, <4>5, <5>1 DEF ReadErrors
    <3> QED
      BY <3>6, <3>7
  <2> QED
    BY <2>7, <2>8
<1> QED
  BY <1>0, <1>1, <1>2, <1>3

-----------------------------------------------------------------------------
\* Where the lists around the cursor end, from the bytes counted in them.
IsEnds(E, st) ==
  LET n == Len(st.stack) IN
  /\ E \in Seq(Int) /\ Len(E) = n
  /\ n > 0 => E[n] = st.at + Room(st)
  /\ \A i \in 1 .. n - 1 :
       E[i] = E[i + 1] + st.stack[i].size - st.stack[i].pos - st.stack[i + 1].size

LEMMA StackFacts ==
  ASSUME NEW st \in Stream
  PROVE  /\ Len(st.stack) \in Nat /\ st.at \in Int
         /\ \A i \in 1 .. Len(st.stack) : st.stack[i].pos \in Int /\ st.stack[i].size \in Int
         /\ Len(st.stack) > 0 <=> st.stack # <<>>
         /\ Len(st.stack) > 0 => Room(st) \in Int
<1>1. st.stack \in Seq([pos : Int, size : Int]) /\ st.at \in Int
  BY DEF Stream
<1>2. ASSUME NEW i \in 1 .. Len(st.stack)
      PROVE  st.stack[i].pos \in Int /\ st.stack[i].size \in Int
  <2>1. st.stack[i] \in [pos : Int, size : Int]
    BY <1>1, ElementOfSeq, Zenon
  <2> QED
    BY <2>1
<1>3. Len(st.stack) \in Nat /\ (Len(st.stack) > 0 <=> st.stack # <<>>)
  BY <1>1, EmptySeq
<1> QED
  BY <1>1, <1>2, <1>3, TopFacts

LEMMA EndsIs ==
  ASSUME NEW st \in Stream
  PROVE  IsEnds(Ends(st), st)
<1> DEFINE n == Len(st.stack)
           Gap(k) == st.stack[n - k].size - st.stack[n - k].pos - st.stack[n - k + 1].size
           Is(f) == f = [k \in 0 .. n - 1 |->
                           IF k = 0 THEN st.at + Room(st)
                           ELSE f[k - 1] + st.stack[n - k].size - st.stack[n - k].pos
                                  - st.stack[n - k + 1].size]
           g == CHOOSE f : Is(f)
<1>1. Ends(st) = [i \in 1 .. n |-> g[n - i]]
  BY DEF Ends
<1>2. n \in Nat /\ \A i \in 1 .. n : st.stack[i].pos \in Int /\ st.stack[i].size \in Int
  BY StackFacts
<1> HIDE DEF n
<1>3. CASE n = 0
  <2>1. Ends(st) = <<>>
    BY <1>1, <1>3
  <2> QED
    BY <1>3, <2>1 DEF IsEnds, n
<1>4. CASE n > 0
  <2>1. PICK len \in Nat : len = n - 1
    BY <1>2, <1>4
  <2>2. PICK c \in Int : c = st.at + Room(st)
    BY <1>4, StackFacts DEF n
  <2> DEFINE d == [k \in 1 .. len |-> Gap(k)]
  <2>3. ASSUME NEW k \in 1 .. len
        PROVE  /\ Gap(k) \in Int /\ st.stack[n - k].size \in Int /\ st.stack[n - k].pos \in Int
               /\ st.stack[n - k + 1].size \in Int
    <3>1. n - k \in 1 .. n /\ n - k + 1 \in 1 .. n
      BY <1>2, <2>1
    <3> QED
      BY <1>2, <3>1
  <2>4. PICK h : Sums(h, 1, c, d, len)
    BY SumsExists
  <2>5. /\ \A k \in 0 .. len : h[k] \in Int
        /\ h[0] = c /\ \A k \in 1 .. len : h[k] = 1 * h[k - 1] + d[k]
    <3>1. \A k \in 1 .. len : d[k] \in Int
      BY <2>3
    <3>2. 1 \in Int
      OBVIOUS
    <3> HIDE DEF d
    <3> QED
      BY <2>4, <3>1, <3>2, SumsInt
  <2>6. Is(h)
    <3>1. h = [k \in 0 .. n - 1 |-> h[k]]
      BY <2>1, <2>4 DEF Sums
    <3>2. ASSUME NEW k \in 0 .. n - 1, k # 0
          PROVE  h[k] = h[k - 1] + st.stack[n - k].size - st.stack[n - k].pos
                          - st.stack[n - k + 1].size
      <4>1. k \in 1 .. len /\ k - 1 \in 0 .. len
        BY <1>2, <2>1, <3>2
      <4>2. PICK x \in Int, y \in Int, z \in Int :
              x = st.stack[n - k].size /\ y = st.stack[n - k].pos /\ z = st.stack[n - k + 1].size
        BY <2>3, <4>1
      <4>3. PICK u \in Int : u = h[k - 1]
        BY <2>5, <4>1
      <4>4. h[k] = 1 * u + (x - y - z)
        BY <2>5, <4>1, <4>2, <4>3
      <4> QED
        BY <4>2, <4>3, <4>4
    <3> QED
      BY <2>1, <2>2, <2>5, <3>1, <3>2
  <2>7. Is(g)
    BY <2>6
  <2> HIDE DEF g
  <2>8. /\ g[0] = c
        /\ \A k \in 1 .. len : g[k] = g[k - 1] + st.stack[n - k].size - st.stack[n - k].pos
                                        - st.stack[n - k + 1].size
    BY <2>1, <2>2, <2>7
  <2>9. \A k \in 0 .. len : g[k] \in Int
    <3> DEFINE Good == {k \in Nat : g[k] \in Int}
    <3>1. 0 \in Good
      BY <2>8
    <3>2. ASSUME NEW k \in 1 .. len, k - 1 \in Good PROVE k \in Good
      <4>1. g[k - 1] \in Int
        BY <3>2
      <4>2. PICK x \in Int, y \in Int, z \in Int, u \in Int :
              /\ x = st.stack[n - k].size /\ y = st.stack[n - k].pos
              /\ z = st.stack[n - k + 1].size /\ u = g[k - 1]
        BY <2>3, <4>1
      <4>3. g[k] = u + x - y - z
        BY <2>8, <4>2
      <4> QED
        BY <4>2, <4>3
    <3>3. Good \in SUBSET Nat
      OBVIOUS
    <3> HIDE DEF Good
    <3>4. 0 .. len \subseteq Good
      BY <3>1, <3>2, <3>3, Upwards
    <3> QED
      BY <3>4 DEF Good
  <2>10. \A i \in 1 .. n : n - i \in 0 .. len
    BY <1>2, <2>1
  <2>11. /\ Ends(st) \in Seq(Int) /\ Len(Ends(st)) = n
         /\ \A i \in 1 .. n : Ends(st)[i] = g[n - i]
    <3>1. \A i \in 1 .. n : g[n - i] \in Int
      BY <2>9, <2>10
    <3>2. PICK E : E = [i \in 1 .. n |-> g[n - i]]
      OBVIOUS
    <3>3. E \in [1 .. n -> Int] /\ \A i \in 1 .. n : E[i] = g[n - i]
      BY <3>1, <3>2
    <3>4. E \in Seq(Int) /\ Len(E) = n
      BY <1>2, <3>3
    <3> QED
      BY <1>1, <3>2, <3>3, <3>4
  <2>12. Ends(st)[n] = st.at + Room(st)
    <3>1. n \in 1 .. n /\ n - n = 0
      BY <1>2, <1>4
    <3> QED
      BY <2>2, <2>8, <2>11, <3>1
  <2>13. ASSUME NEW i \in 1 .. n - 1
         PROVE  Ends(st)[i] = Ends(st)[i + 1] + st.stack[i].size - st.stack[i].pos
                                - st.stack[i + 1].size
    <3>1. PICK k \in 1 .. len : k = n - i
      BY <1>2, <2>1
    <3>2. i \in 1 .. n /\ i + 1 \in 1 .. n /\ n - k = i /\ n - k + 1 = i + 1 /\ n - (i + 1) = k - 1
      BY <1>2, <3>1
    <3>3. Ends(st)[i] = g[k] /\ Ends(st)[i + 1] = g[k - 1]
      BY <2>11, <3>1, <3>2
    <3> QED
      BY <2>8, <3>2, <3>3
  <2> QED
    BY <2>11, <2>12, <2>13 DEF IsEnds, n
<1> QED
  BY <1>2, <1>3, <1>4

LEMMA EndsAre ==
  ASSUME NEW st \in Stream, NEW E, IsEnds(E, st)
  PROVE  E = Ends(st)
<1> DEFINE n == Len(st.stack)
           F == Ends(st)
           Good == {k \in Nat : k < n => E[n - k] = F[n - k]}
<1>1. n \in Nat
  BY StackFacts
<1> HIDE DEF F
<1>2. IsEnds(F, st)
  BY EndsIs DEF F
<1>3. /\ E \in Seq(Int) /\ F \in Seq(Int) /\ Len(E) = n /\ Len(F) = n
      /\ n > 0 => E[n] = F[n]
      /\ \A i \in 1 .. n - 1 : E[i + 1] = F[i + 1] => E[i] = F[i]
  <2>1. ASSUME NEW i \in 1 .. n - 1, E[i + 1] = F[i + 1] PROVE E[i] = F[i]
    <3>1. E[i] = E[i + 1] + st.stack[i].size - st.stack[i].pos - st.stack[i + 1].size
      BY DEF IsEnds
    <3>2. F[i] = F[i + 1] + st.stack[i].size - st.stack[i].pos - st.stack[i + 1].size
      BY <1>2 DEF IsEnds
    <3> QED
      BY <2>1, <3>1, <3>2
  <2> QED
    BY <1>2, <2>1 DEF IsEnds
<1> HIDE DEF n
<1>4. 0 \in Good
  BY <1>1, <1>3
<1>5. ASSUME NEW k \in 1 .. n, k - 1 \in Good PROVE k \in Good
  <2> SUFFICES ASSUME k < n PROVE E[n - k] = F[n - k]
    BY <1>1
  <2>1. PICK i \in 1 .. n - 1 : i = n - k /\ i + 1 = n - (k - 1)
    BY <1>1
  <2>2. E[i + 1] = F[i + 1]
    BY <1>1, <1>5, <2>1
  <2> QED
    BY <1>3, <2>1, <2>2
<1>6. 0 .. n \subseteq Good
  <2>1. Good \in SUBSET Nat
    OBVIOUS
  <2> HIDE DEF Good
  <2> QED
    BY <1>1, <1>4, <1>5, <2>1, Upwards
<1>7. ASSUME NEW i \in 1 .. n PROVE E[i] = F[i]
  <2>1. PICK k \in 0 .. n : k = n - i /\ i = n - k
    BY <1>1
  <2>2. k \in Good /\ k < n
    BY <1>1, <1>6, <2>1
  <2> QED
    BY <2>1, <2>2
<1> QED
  BY <1>3, <1>7, SeqEqual DEF F

\* The lists end where they ended, whatever has been read of them.
LEMMA EndsAdvanced ==
  ASSUME NEW st \in Stream, NEW st2 \in Stream, NEW m \in Int, Advanced(st, st2, m)
  PROVE  Ends(st2) = Ends(st)
<1> DEFINE n == Len(st.stack)
           E == Ends(st)
<1>1. /\ n \in Nat /\ st.at \in Int
      /\ \A i \in 1 .. n : st.stack[i].pos \in Int /\ st.stack[i].size \in Int
      /\ n > 0 <=> st.stack # <<>>
      /\ n > 0 => Room(st) = st.stack[n].size - st.stack[n].pos
  BY StackFacts, TopFacts
<1>2. /\ Len(st2.stack) = n /\ st2.at = st.at + m
      /\ \A i \in 1 .. n : st2.stack[i].size = st.stack[i].size
      /\ \A i \in 1 .. n - 1 : st2.stack[i].pos = st.stack[i].pos
      /\ n > 0 => st2.stack[n].pos = st.stack[n].pos + m
  BY <1>1 DEF Advanced, Counts
<1>3. n > 0 => Room(st2) = st2.stack[n].size - st2.stack[n].pos
  BY <1>2, StackFacts, TopFacts
<1>4. IsEnds(E, st)
  BY EndsIs
<1> HIDE DEF E
<1>5. E \in Seq(Int) /\ Len(E) = Len(st2.stack)
  BY <1>2, <1>4 DEF IsEnds
<1>6. Len(st2.stack) > 0 => E[Len(st2.stack)] = st2.at + Room(st2)
  <2> SUFFICES ASSUME n > 0 PROVE E[n] = st2.at + Room(st2)
    BY <1>2
  <2>1. PICK p \in Int, z \in Int, a \in Int :
          p = st.stack[n].pos /\ z = st.stack[n].size /\ a = st.at
    BY <1>1
  <2>2. E[n] = a + (z - p)
    BY <1>1, <1>4, <2>1 DEF IsEnds
  <2>3. n \in 1 .. n
    BY <1>1
  <2>4. Room(st2) = z - (p + m) /\ st2.at = a + m
    BY <1>2, <1>3, <2>1, <2>3
  <2>5. st2.at + Room(st2) = (a + m) + (z - (p + m))
    BY <2>4
  <2>6. (a + m) + (z - (p + m)) = a + (z - p)
    BY <2>1, SMTT(30)
  <2> QED
    BY <2>2, <2>5, <2>6
<1>7. ASSUME NEW i \in 1 .. Len(st2.stack) - 1
      PROVE  E[i] = E[i + 1] + st2.stack[i].size - st2.stack[i].pos - st2.stack[i + 1].size
  <2>1. i \in 1 .. n - 1 /\ i \in 1 .. n /\ i + 1 \in 1 .. n
    BY <1>1, <1>2
  <2>2. /\ st2.stack[i].size = st.stack[i].size /\ st2.stack[i].pos = st.stack[i].pos
        /\ st2.stack[i + 1].size = st.stack[i + 1].size
    BY <1>2, <2>1
  <2>3. E[i] = E[i + 1] + st.stack[i].size - st.stack[i].pos - st.stack[i + 1].size
    BY <1>4, <2>1 DEF IsEnds
  <2> QED
    BY <2>2, <2>3
<1>8. IsEnds(E, st2)
  BY <1>5, <1>6, <1>7 DEF IsEnds
<1> QED
  BY <1>8, EndsAre DEF E

\* A list that is entered ends behind its content.
LEMMA EndsEntered ==
  ASSUME NEW st \in Stream, NEW st2 \in Stream, NEW z \in Int,
         st2.at = st.at, st2.stack = Append(st.stack, [pos |-> 0, size |-> z])
  PROVE  Ends(st2) = Append(Ends(st), st.at + z)
<1> DEFINE n == Len(st.stack)
           k2 == st2.stack
           E == Ends(st)
           F == Append(E, st.at + z)
<1>1. /\ n \in Nat /\ st.at \in Int
      /\ \A i \in 1 .. n : st.stack[i].pos \in Int /\ st.stack[i].size \in Int
      /\ n > 0 <=> st.stack # <<>>
      /\ n > 0 => Room(st) = st.stack[n].size - st.stack[n].pos
  BY StackFacts, TopFacts
<1>2. /\ Len(k2) = n + 1 /\ k2[n + 1].pos = 0 /\ k2[n + 1].size = z
      /\ \A i \in 1 .. n : k2[i] = st.stack[i]
  <2>1. PICK k, e : k = st.stack /\ e = [pos |-> 0, size |-> z]
    OBVIOUS
  <2>2. k \in Seq([pos : Int, size : Int]) /\ e \in [pos : Int, size : Int]
        /\ e.pos = 0 /\ e.size = z
    BY <2>1 DEF Stream
  <2>3. /\ Len(Append(k, e)) = Len(k) + 1 /\ Append(k, e)[Len(k) + 1] = e
        /\ \A i \in 1 .. Len(k) : Append(k, e)[i] = k[i]
    BY <2>2
  <2> QED
    BY <2>1, <2>2, <2>3
<1>3. Room(st2) = k2[n + 1].size - k2[n + 1].pos
  BY <1>1, <1>2, StackFacts, TopFacts
<1>4. IsEnds(E, st)
  BY EndsIs
<1> HIDE DEF E, k2
<1>5. /\ F \in Seq(Int) /\ Len(F) = n + 1 /\ F[n + 1] = st.at + z
      /\ \A i \in 1 .. n : F[i] = E[i] /\ E[i] \in Int
  <2>1. E \in Seq(Int) /\ Len(E) = n
    BY <1>4 DEF IsEnds
  <2>2. PICK x \in Int : x = st.at + z
    BY <1>1
  <2> QED
    BY <1>1, <2>1, <2>2
<1> HIDE DEF F
<1>6. F[n + 1] = st2.at + Room(st2)
  BY <1>1, <1>2, <1>3, <1>5
<1>7. ASSUME NEW i \in 1 .. n
      PROVE  F[i] = F[i + 1] + k2[i].size - k2[i].pos - k2[i + 1].size
  <2>1. k2[i] = st.stack[i] /\ F[i] = E[i]
    BY <1>2, <1>5
  <2>2. CASE i = n
    <3>1. PICK p \in Int, s1 \in Int, a \in Int :
            p = st.stack[n].pos /\ s1 = st.stack[n].size /\ a = st.at
      BY <1>1, <2>2
    <3>2. E[n] = a + (s1 - p)
      BY <1>1, <1>4, <2>2, <3>1 DEF IsEnds
    <3>3. F[i + 1] = a + z /\ k2[i + 1].size = z
      BY <1>2, <1>5, <2>2, <3>1
    <3>4. k2[i].size = s1 /\ k2[i].pos = p /\ F[i] = a + (s1 - p)
      BY <2>1, <2>2, <3>1, <3>2
    <3>5. a + (s1 - p) = (a + z) + s1 - p - z
      BY <3>1
    <3> QED
      BY <3>3, <3>4, <3>5
  <2>3. CASE i # n
    <3>1. i \in 1 .. n - 1 /\ i + 1 \in 1 .. n
      BY <1>1, <2>3
    <3>2. k2[i + 1] = st.stack[i + 1] /\ F[i + 1] = E[i + 1]
      BY <1>2, <1>5, <3>1
    <3>3. E[i] = E[i + 1] + st.stack[i].size - st.stack[i].pos - st.stack[i + 1].size
      BY <1>4, <3>1 DEF IsEnds
    <3> QED
      BY <2>1, <3>2, <3>3
  <2> QED
    BY <2>2, <2>3
<1>8. IsEnds(F, st2)
  <2>1. Len(st2.stack) = n + 1 /\ (n + 1) - 1 = n
    BY <1>1, <1>2 DEF k2
  <2>2. /\ n + 1 > 0 => F[n + 1] = st2.at + Room(st2)
        /\ \A i \in 1 .. n :
             F[i] = F[i + 1] + st2.stack[i].size - st2.stack[i].pos - st2.stack[i + 1].size
    BY <1>6, <1>7 DEF k2
  <2> HIDE DEF n
  <2> QED
    BY <1>5, <2>1, <2>2 DEF IsEnds
<1> QED
  BY <1>8, EndsAre DEF E, F

\* A list that is left was the innermost one, and ended here.
LEMMA EndsLeft ==
  ASSUME NEW st \in Stream, NEW st2 \in Stream, st.stack # <<>>, Room(st) = 0,
         NEW rest, rest = SubSeq(st.stack, 1, Len(st.stack) - 1),
         st2.at = st.at, Counts(rest, st2.stack, Top(st).size)
  PROVE  /\ Ends(st2) = SubSeq(Ends(st), 1, Len(Ends(st)) - 1)
         /\ Ends(st) # <<>> /\ Ends(st)[Len(Ends(st))] = st.at
<1> DEFINE n == Len(st.stack)
           k2 == st2.stack
           E == Ends(st)
           F == SubSeq(E, 1, n - 1)
<1>1. /\ n \in Nat /\ n > 0 /\ st.at \in Int /\ Top(st) = st.stack[n]
      /\ \A i \in 1 .. n : st.stack[i].pos \in Int /\ st.stack[i].size \in Int
  BY StackFacts, TopFacts
<1>2. Len(rest) = n - 1 /\ \A i \in 1 .. n - 1 : rest[i] = st.stack[i]
  <2>1. PICK k : k = st.stack
    OBVIOUS
  <2>2. k \in Seq([pos : Int, size : Int]) /\ Len(k) = n
    BY <2>1 DEF Stream
  <2> HIDE DEF n
  <2>3. PICK len \in Nat : len = n - 1 /\ len <= Len(k)
    BY <1>1, <2>2
  <2>4. Len(SubSeq(k, 1, len)) = len /\ \A i \in 1 .. len : SubSeq(k, 1, len)[i] = k[i]
    BY <2>2, <2>3
  <2>5. rest = SubSeq(k, 1, len)
    BY <2>1, <2>2, <2>3
  <2> QED
    BY <2>1, <2>3, <2>4, <2>5
<1> HIDE DEF n
<1>3. /\ Len(k2) = n - 1
      /\ \A i \in 1 .. n - 1 : k2[i].size = st.stack[i].size
      /\ \A i \in 1 .. n - 2 : k2[i].pos = st.stack[i].pos
      /\ n > 1 => k2[n - 1].pos = st.stack[n - 1].pos + st.stack[n].size
  <2>1. PICK len \in Nat : len = n - 1 /\ len - 1 = n - 2 /\ len = Len(rest)
    BY <1>1, <1>2
  <2>2. len > 0 => rest # <<>> /\ len \in 1 .. len
    <3>1. rest = <<>> => Len(rest) = 0
      OBVIOUS
    <3> QED
      BY <2>1, <3>1
  <2>3. /\ Len(k2) = len
        /\ \A i \in 1 .. len : k2[i].size = rest[i].size
        /\ \A i \in 1 .. len - 1 : k2[i].pos = rest[i].pos
        /\ rest # <<>> => k2[len].pos = rest[len].pos + st.stack[n].size
    BY <1>1, <2>1 DEF Counts
  <2>4. \A i \in 1 .. len : rest[i] = st.stack[i]
    BY <1>2, <2>1
  <2>5. \A i \in 1 .. len - 1 : i \in 1 .. len
    OBVIOUS
  <2>6. n > 1 <=> len > 0
    BY <1>1, <2>1
  <2> QED
    BY <2>1, <2>2, <2>3, <2>4, <2>5, <2>6, ZenonT(60)
<1>4. n > 1 => Room(st2) = k2[n - 1].size - k2[n - 1].pos
  BY <1>1, <1>3, StackFacts, TopFacts DEF k2
<1>5. IsEnds(E, st)
  BY EndsIs
<1> HIDE DEF E, k2
<1>6. /\ E \in Seq(Int) /\ Len(E) = n /\ E[n] = st.at
      /\ F \in Seq(Int) /\ Len(F) = n - 1 /\ \A i \in 1 .. n - 1 : F[i] = E[i]
  BY <1>1, <1>5 DEF IsEnds, F, n
<1> HIDE DEF F
<1>7. n > 1 => F[n - 1] = st2.at + Room(st2)
  <2> HAVE n > 1
  <2>1. n - 1 \in 1 .. n - 1 /\ n - 1 \in 1 .. n /\ n \in 1 .. n /\ n - 1 + 1 = n
    BY <1>1
  <2>2. PICK a \in Int, z \in Int, p \in Int, s1 \in Int :
          a = st.at /\ z = st.stack[n].size /\ p = st.stack[n - 1].pos /\ s1 = st.stack[n - 1].size
    BY <1>1, <2>1
  <2>3. E[n - 1] = a + s1 - p - z
    BY <1>5, <1>6, <2>1, <2>2 DEF IsEnds, n
  <2>4. Room(st2) = s1 - (p + z) /\ F[n - 1] = E[n - 1]
    BY <1>3, <1>4, <1>6, <2>1, <2>2
  <2> QED
    BY <2>2, <2>3, <2>4, SMTT(30)
<1>8. ASSUME NEW i \in 1 .. n - 2
      PROVE  F[i] = F[i + 1] + k2[i].size - k2[i].pos - k2[i + 1].size
  <2>1. i \in 1 .. n - 1 /\ i + 1 \in 1 .. n - 1
    BY <1>1
  <2>2. E[i] = E[i + 1] + st.stack[i].size - st.stack[i].pos - st.stack[i + 1].size
    BY <1>5, <2>1 DEF IsEnds, n
  <2> QED
    BY <1>3, <1>6, <2>1, <2>2
<1>9. IsEnds(F, st2)
  <2>1. Len(k2) - 1 = n - 2 /\ (Len(k2) > 0 <=> n > 1)
    BY <1>1, <1>3
  <2> QED
    BY <1>3, <1>6, <1>7, <1>8, <2>1 DEF IsEnds, k2
<1>10. F = Ends(st2)
  BY <1>9, EndsAre
<1>11. E # <<>>
  BY <1>1, <1>6
<1> QED
  BY <1>6, <1>10, <1>11 DEF E, F

\* A value may end in the innermost list, or within the limit.
LEMMA BoundsAre ==
  ASSUME NEW st \in Stream, NEW lim, NEW e
  PROVE  /\ InBounds(st, lim, e)
              <=> IF Ends(st) # <<>> THEN e <= Ends(st)[Len(Ends(st))] ELSE lim = 0 \/ e <= lim
         /\ Ends(st) # <<>> <=> st.stack # <<>>
         /\ st.stack # <<>> => Ends(st)[Len(Ends(st))] = st.at + Room(st)
<1>1. /\ Ends(st) \in Seq(Int) /\ Len(Ends(st)) = Len(st.stack)
      /\ Len(st.stack) > 0 => Ends(st)[Len(st.stack)] = st.at + Room(st)
  BY EndsIs DEF IsEnds
<1>2. Len(st.stack) \in Nat /\ (Len(st.stack) > 0 <=> st.stack # <<>>)
  BY StackFacts
<1>3. Ends(st) # <<>> <=> st.stack # <<>>
  BY <1>1, <1>2
<1> QED
  BY <1>1, <1>2, <1>3 DEF InBounds

-----------------------------------------------------------------------------
\* The bytes of a number, and the header that is put before a content.
LEMMA DivSmaller ==
  ASSUME NEW m \in Nat, m > 1, NEW k \in Nat, k > 0
  PROVE  k \div m \in Nat /\ k \div m < k
OBVIOUS

LEMMA DivMod ==
  ASSUME NEW m \in Nat, m > 1, NEW q \in Nat, NEW r \in 0 .. m - 1
  PROVE  (m * q + r) \div m = q /\ (m * q + r) % m = r
OBVIOUS

\* The recursive function of Digits, up to n.
UpTo(g, n) ==
  g = [k \in 0 .. n |-> IF k = 0 THEN <<>> ELSE Append(g[k \div Base], k % Base)]

LEMMA UpToExists ==
  ASSUME NEW n \in Nat
  PROVE  \E g : UpTo(g, n)
<1> DEFINE Good == {m \in Nat : \E g : UpTo(g, m)}
           Step(x, k) == Append(x, k % Base)
<1>1. 0 \in Good
  <2> DEFINE g == [i \in 0 .. 0 |-> <<>>]
  <2>1. UpTo(g, 0)
    BY DEF UpTo
  <2> HIDE DEF g
  <2> QED
    BY <2>1
<1>2. ASSUME NEW m \in 1 .. n, m - 1 \in Good PROVE m \in Good
  <2>1. PICK f : UpTo(f, m - 1)
    BY <1>2
  <2> DEFINE g == [i \in 0 .. m |-> IF i < m THEN f[i] ELSE Step(f[m \div Base], m)]
  <2> HIDE DEF Step
  <2>2. \A i \in 0 .. m : g[i] = IF i = 0 THEN <<>> ELSE Step(g[i \div Base], i)
    <3> TAKE i \in 0 .. m
    <3>0. i # 0 => i \div Base \in 0 .. m /\ i \div Base < i /\ i \div Base \in 0 .. i - 1
      <4> HAVE i # 0
      <4>1. i \in Nat /\ i > 0 /\ Base \in Nat /\ Base > 1
        BY Layout
      <4>2. i \div Base \in Nat /\ i \div Base < i
        BY <4>1, DivSmaller
      <4> QED
        BY <4>1, <4>2
    <3>1. CASE i = m
      <4>1. i # 0 /\ ~(i < m)
        BY <3>1
      <4>2. g[i \div Base] = f[m \div Base]
        BY <3>0, <3>1, <4>1
      <4> QED
        BY <3>1, <4>1, <4>2
    <3>2. CASE i < m
      <4>1. i \in 0 .. m - 1
        BY <3>2
      <4>2. f[i] = IF i = 0 THEN <<>> ELSE Step(f[i \div Base], i)
        BY <2>1, <4>1 DEF UpTo, Step
      <4>3. g[i] = f[i] /\ (i # 0 => g[i \div Base] = f[i \div Base])
        BY <3>0, <3>2, <4>1
      <4> QED
        BY <4>2, <4>3
    <3> QED
      BY <3>1, <3>2
  <2>3. UpTo(g, m)
    <3>1. g = [i \in 0 .. m |-> g[i]]
      OBVIOUS
    <3> HIDE DEF g
    <3> QED
      BY <2>2, <3>1 DEF UpTo, Step
  <2> HIDE DEF g
  <2> QED
    BY <2>3
<1>3. 0 .. n \subseteq Good
  <2>1. Good \in SUBSET Nat
    OBVIOUS
  <2> HIDE DEF Good
  <2> QED
    BY <1>1, <1>2, <2>1, Upwards
<1> QED
  BY <1>3

LEMMA UpToAgree ==
  ASSUME NEW m \in Nat, NEW n \in Nat, m <= n, NEW f, NEW g, UpTo(f, m), UpTo(g, n)
  PROVE  \A k \in 0 .. m : f[k] = g[k]
<1> DEFINE Bad == {k \in 0 .. m : f[k] # g[k]}
<1>1. SUFFICES ASSUME Bad # {} PROVE FALSE
  OBVIOUS
<1>2. Bad \in SUBSET Nat
  OBVIOUS
<1> HIDE DEF Bad
<1>3. PICK k \in Bad : \A l \in Bad : k <= l
  BY <1>1, <1>2, LeastNat
<1>4. k \in 0 .. m /\ k \in 0 .. n /\ k \in Nat /\ f[k] # g[k]
  BY <1>3 DEF Bad
<1>5. /\ f[k] = IF k = 0 THEN <<>> ELSE Append(f[k \div Base], k % Base)
      /\ g[k] = IF k = 0 THEN <<>> ELSE Append(g[k \div Base], k % Base)
  BY <1>4 DEF UpTo
<1>6. k > 0
  BY <1>4, <1>5
<1>7. k \div Base \in Nat /\ k \div Base < k
  BY <1>4, <1>6, Layout, DivSmaller
<1>8. k \div Base \in 0 .. m /\ k \div Base \notin Bad
  BY <1>3, <1>4, <1>7
<1>9. f[k \div Base] = g[k \div Base]
  BY <1>8 DEF Bad
<1> QED
  BY <1>4, <1>5, <1>9

LEMMA DigitsAre ==
  \E f : /\ \A n \in Nat : Digits(n) = f[n]
         /\ \A k \in Nat : f[k] = IF k = 0 THEN <<>> ELSE Append(f[k \div Base], k % Base)
<1> DEFINE Is(f) == f = [k \in Nat |-> IF k = 0 THEN <<>> ELSE Append(f[k \div Base], k % Base)]
           part(n) == CHOOSE g : UpTo(g, n)
           h == [k \in Nat |-> part(k)[k]]
           f == CHOOSE f : Is(f)
<1>1. \A n \in Nat : UpTo(part(n), n)
  BY UpToExists
<1> HIDE DEF part
<1>2. ASSUME NEW k \in Nat
      PROVE  h[k] = IF k = 0 THEN <<>> ELSE Append(h[k \div Base], k % Base)
  <2>1. part(k)[k] = IF k = 0 THEN <<>> ELSE Append(part(k)[k \div Base], k % Base)
    <3>1. PICK g : g = part(k) /\ UpTo(g, k)
      BY <1>1
    <3>2. k \in 0 .. k
      OBVIOUS
    <3>3. g[k] = IF k = 0 THEN <<>> ELSE Append(g[k \div Base], k % Base)
      BY <3>1, <3>2 DEF UpTo
    <3> QED
      BY <3>1, <3>3
  <2>2. CASE k = 0
    BY <2>1, <2>2
  <2>3. CASE k # 0
    <3>1. PICK j \in Nat : j = k \div Base /\ j < k
      BY <2>3, Layout, DivSmaller
    <3>2. j <= k /\ j \in 0 .. j
      BY <3>1
    <3>3. part(j)[j] = part(k)[j]
      BY <1>1, <3>2, UpToAgree
    <3>4. h[k] = part(k)[k] /\ h[j] = part(j)[j]
      OBVIOUS
    <3> HIDE DEF h
    <3> QED
      BY <2>1, <2>3, <3>1, <3>3, <3>4
  <2> QED
    BY <2>2, <2>3
<1>3. Is(h)
  <2>1. h = [k \in Nat |-> h[k]]
    OBVIOUS
  <2> HIDE DEF h
  <2> QED
    BY <1>2, <2>1
<1> HIDE DEF h
<1>4. Is(f)
  BY <1>3
<1>5. \A n \in Nat : Digits(n) = f[n]
  BY DEF Digits
<1> HIDE DEF f
<1>6. \A k \in Nat : f[k] = IF k = 0 THEN <<>> ELSE Append(f[k \div Base], k % Base)
  BY <1>4
<1> QED
  BY <1>5, <1>6

\* Bytes that do not start with a zero are the bytes of the number they stand for.
LEMMA DigitsOfValue ==
  ASSUME NEW bytes \in Seq(Byte), Len(bytes) > 0, bytes[1] # 0
  PROVE  Digits(Value(bytes)) = bytes
<1> DEFINE n == Len(bytes)
<1>0. \A k \in 1 .. n : bytes[k] \in 0 .. Base - 1
  BY ElementOfSeq, Zenon DEF Byte
<1>1. n \in Nat /\ n > 0 /\ \A k \in 1 .. n : bytes[k] \in Int /\ bytes[k] >= 0
  BY Layout DEF Byte
<1>2. PICK v : Sums(v, Base, 0, bytes, n) /\ Value(bytes) = v[n]
  BY <1>1, ValueIs
<1>3. PICK f : /\ \A m \in Nat : Digits(m) = f[m]
               /\ \A k \in Nat : f[k] = IF k = 0 THEN <<>> ELSE Append(f[k \div Base], k % Base)
  BY DigitsAre
<1> HIDE DEF n
<1>4. /\ \A k \in 0 .. n : v[k] \in Int
      /\ v[0] = 0 /\ \A k \in 1 .. n : v[k] = Base * v[k - 1] + bytes[k]
  BY <1>1, <1>2, Layout, SumsInt
<1>5. \A k \in 0 .. n : v[k] \in Nat
  <2>1. \A k \in 1 .. n : bytes[k] \in Nat
    BY <1>1
  <2>2. Base \in Nat /\ 0 \in Nat
    BY Layout
  <2> QED
    BY <1>1, <1>2, <2>1, <2>2, SumsNat
<1> DEFINE Good == {k \in Nat : f[v[k]] = SubSeq(bytes, 1, k) /\ (k >= 1 => v[k] > 0)}
<1>6. 0 \in Good
  <2>1. f[0] = <<>>
    BY <1>3
  <2>2. SubSeq(bytes, 1, 0) = <<>>
    OBVIOUS
  <2>3. f[v[0]] = f[0]
    BY <1>4
  <2>4. f[v[0]] = SubSeq(bytes, 1, 0) /\ 0 \in Nat /\ ~(0 >= 1)
    BY <2>1, <2>2, <2>3
  <2> QED
    BY <2>4, Zenon
<1>7. ASSUME NEW k \in 1 .. n, k - 1 \in Good PROVE k \in Good
  <2>1. PICK q \in Nat, r \in 0 .. Base - 1, x \in Nat : q = v[k - 1] /\ r = bytes[k] /\ x = v[k]
    BY <1>0, <1>1, <1>5
  <2>2. x = Base * q + r
    BY <1>4, <2>1
  <2>3. x \div Base = q /\ x % Base = r
    BY <2>2, Layout, DivMod
  <2>4. x > 0
    <3>1. CASE k = 1
      <4>1. q = 0 /\ r # 0
        BY <1>4, <2>1, <3>1
      <4>2. x = r
        BY <2>2, <4>1, Layout
      <4> QED
        BY <2>1, <4>1, <4>2, Layout
    <3>2. CASE k > 1
      <4>1. q > 0
        BY <1>7, <2>1, <3>2
      <4>2. Base * q > 0
        BY <4>1, Layout
      <4> QED
        BY <2>1, <2>2, <4>2, Layout
    <3> QED
      BY <3>1, <3>2
  <2>5. f[x] = Append(f[q], r)
    <3>1. f[x] = Append(f[x \div Base], x % Base)
      <4>1. x \in Nat /\ x # 0
        BY <2>4
      <4> QED
        BY <1>3, <4>1, Zenon
    <3> QED
      BY <2>3, <3>1
  <2>6. f[q] = SubSeq(bytes, 1, k - 1)
    BY <1>7, <2>1
  <2>7. Append(SubSeq(bytes, 1, k - 1), bytes[k]) = SubSeq(bytes, 1, k)
    <3>1. PICK i \in Nat : i = k - 1 /\ i + 1 = k /\ i + 1 <= Len(bytes)
      BY <1>1 DEF n
    <3>2. /\ SubSeq(bytes, 1, i) \in Seq(Byte) /\ Len(SubSeq(bytes, 1, i)) = i
          /\ SubSeq(bytes, 1, i + 1) \in Seq(Byte) /\ Len(SubSeq(bytes, 1, i + 1)) = i + 1
          /\ \A j \in 1 .. i : SubSeq(bytes, 1, i)[j] = bytes[j]
          /\ \A j \in 1 .. i + 1 : SubSeq(bytes, 1, i + 1)[j] = bytes[j]
      BY <3>1
    <3>3. bytes[i + 1] \in Byte
      BY <3>1
    <3>4. PICK a, b : a = SubSeq(bytes, 1, i) /\ b = SubSeq(bytes, 1, i + 1)
      OBVIOUS
    <3>5. PICK c : c = Append(a, bytes[i + 1])
      OBVIOUS
    <3>6. /\ c \in Seq(Byte) /\ Len(c) = i + 1 /\ c[i + 1] = bytes[i + 1]
          /\ \A j \in 1 .. i : c[j] = bytes[j]
      BY <3>2, <3>3, <3>4, <3>5
    <3>7. \A j \in 1 .. Len(c) : c[j] = b[j]
      BY <3>2, <3>4, <3>6
    <3>8. c = b
      BY <3>2, <3>4, <3>6, <3>7, SeqEqual
    <3> QED
      BY <3>1, <3>4, <3>5, <3>8
  <2>8. f[v[k]] = SubSeq(bytes, 1, k)
    BY <2>1, <2>5, <2>6, <2>7
  <2>9. k \in Nat /\ v[k] > 0
    BY <2>1, <2>4
  <2> QED
    BY <2>8, <2>9
<1>8. 0 .. n \subseteq Good
  <2>1. Good \in SUBSET Nat
    OBVIOUS
  <2> HIDE DEF Good
  <2> QED
    BY <1>1, <1>6, <1>7, <2>1, Upwards
<1>9. f[v[n]] = SubSeq(bytes, 1, n) /\ v[n] \in Nat
  BY <1>1, <1>5, <1>8
<1>10. SubSeq(bytes, 1, n) = bytes
  BY DEF n
<1> QED
  BY <1>2, <1>3, <1>9, <1>10

LEMMA SubSeqJoin ==
  ASSUME NEW b \in Seq(Byte), NEW a \in Nat, NEW m \in Nat, NEW e \in Nat,
         a <= m, m <= e, e <= Len(b)
  PROVE  SubSeq(b, a + 1, m) \o SubSeq(b, m + 1, e) = SubSeq(b, a + 1, e)
<1>1. a + 1 \in 1 .. Len(b) + 1 /\ m \in (a + 1) - 1 .. Len(b) /\ e \in m .. Len(b)
  OBVIOUS
<1> QED
  BY <1>1, ConcatAdjacentSubSeq

LEMMA SubSeqByte ==
  ASSUME NEW b \in Seq(Byte), NEW i \in Nat, i < Len(b)
  PROVE  SubSeq(b, i + 1, i + 1) = <<b[i + 1]>>
<1>1. PICK x : x = SubSeq(b, i + 1, i + 1)
  OBVIOUS
<1>2. x \in Seq(Byte) /\ Len(x) = 1 /\ \A k \in 1 .. 1 : x[k] = b[i + k]
  BY <1>1, SubSeqFacts
<1>3. x = <<b[i + 1]>>
  BY <1>2
<1> QED
  BY <1>1, <1>3

\* A new header is the one that has been read.
LEMMA HeaderBytes ==
  ASSUME NEW b \in Seq(Byte), NEW i \in Nat, Cursor!GoodHeader(b, i),
         NEW h, h = Cursor!Header(b, i), h.kind # "Byte"
  PROVE  /\ h.kind \in {"String", "List"} /\ h.size \in Nat
         /\ h.from \in Nat /\ i < h.from /\ h.from <= Len(b)
         /\ Header(h.kind, h.size) = SubSeq(b, i + 1, h.from)
<1> DEFINE tag == b[i + 1]
           lists == Single + Short + Long
           First(kind) == IF kind = "List" THEN lists ELSE Single
           Width == Cursor!Width(b, i)
<1>1. /\ i < Len(b) /\ Len(b) \in Nat /\ i + 1 + Width <= Len(b)
      /\ Width > 0 => b[i + 2] # 0 /\ h.size >= Short
  BY DEF Cursor!GoodHeader, Cursor!HasTag
<1>2. /\ tag \in Nat
      /\ tag < Single => h.kind = "Byte"
      /\ tag >= Single /\ tag < Single + Short =>
           /\ tag - Single \in Nat /\ h = [kind |-> "String", from |-> i + 1, size |-> tag - Single]
      /\ tag >= Single + Short /\ tag < lists =>
           /\ Width = tag - (Single + Short - 1) /\ Width \in Nat /\ Width > 0
           /\ h = [kind |-> "String", from |-> i + 1 + Width,
                   size |-> Cursor!Number(b, i + 1, Width)]
      /\ tag >= lists /\ tag < lists + Short =>
           /\ tag - lists \in Nat /\ h = [kind |-> "List", from |-> i + 1, size |-> tag - lists]
      /\ tag >= lists + Short =>
           /\ Width = tag - (lists + Short - 1) /\ Width \in Nat /\ Width > 0
           /\ h = [kind |-> "List", from |-> i + 1 + Width,
                   size |-> Cursor!Number(b, i + 1, Width)]
  BY <1>1, HeaderShapes
<1> HIDE DEF Width, tag
<1>3. Header(h.kind, h.size) =
        IF h.size < Short THEN <<First(h.kind) + h.size>>
        ELSE <<First(h.kind) + Short - 1 + Len(Digits(h.size))>> \o Digits(h.size)
  BY DEF Header
<1>4. First("List") = lists /\ First("String") = Single /\ lists \in Nat /\ Single \in Nat
  BY Layout
<1>5. i + 1 \in Nat /\ b[i + 1] = tag /\ <<tag>> = SubSeq(b, i + 1, i + 1)
  BY <1>1, SubSeqByte DEF tag
<1> HIDE DEF First, lists
<1>6. ASSUME NEW kind \in {"String", "List"}, NEW z \in Nat, z < Short, tag = First(kind) + z,
             h = [kind |-> kind, from |-> i + 1, size |-> z]
      PROVE  /\ h.kind \in {"String", "List"} /\ h.size \in Nat
             /\ h.from \in Nat /\ i < h.from /\ h.from <= Len(b)
             /\ Header(h.kind, h.size) = SubSeq(b, i + 1, h.from)
  <2>1. h.kind = kind /\ h.from = i + 1 /\ h.size = z
    BY <1>6
  <2>2. Header(kind, z) = <<tag>>
    BY <1>3, <1>6, <2>1
  <2> QED
    BY <1>1, <1>5, <2>1, <2>2
<1>7. ASSUME NEW kind \in {"String", "List"}, NEW n \in Nat, n > 0, n = Width,
             tag = First(kind) + Short - 1 + n,
             h = [kind |-> kind, from |-> i + 1 + n, size |-> Cursor!Number(b, i + 1, n)]
      PROVE  /\ h.kind \in {"String", "List"} /\ h.size \in Nat
             /\ h.from \in Nat /\ i < h.from /\ h.from <= Len(b)
             /\ Header(h.kind, h.size) = SubSeq(b, i + 1, h.from)
  <2>1. PICK z : z = Cursor!Number(b, i + 1, n)
    OBVIOUS
  <2>2. h.kind = kind /\ h.from = i + 1 + n /\ h.size = z
    BY <1>7, <2>1
  <2>3. PICK from \in Nat : from = i + 1 /\ from + 1 = i + 2 /\ from + n = i + 1 + n
    OBVIOUS
  <2>4. from + n <= Len(b) /\ b[from + 1] # 0
    BY <1>1, <1>7, <2>3
  <2>5. PICK bytes : bytes = SubSeq(b, from + 1, from + n)
    OBVIOUS
  <2>6. z = Value(bytes) /\ z \in Nat
    BY <2>1, <2>3, <2>4, <2>5, NumberValue
  <2>7. bytes \in Seq(Byte) /\ Len(bytes) = n /\ bytes[1] = b[from + 1]
    <3>1. \A k \in 1 .. n : bytes[k] = b[from + k]
      BY <2>4, <2>5, SubSeqFacts
    <3>2. 1 \in 1 .. n
      BY <1>7
    <3> QED
      BY <2>4, <2>5, <3>1, <3>2, SubSeqFacts
  <2>8. Digits(z) = bytes
    BY <1>7, <2>4, <2>6, <2>7, DigitsOfValue
  <2>9. ~(z < Short)
    BY <1>1, <1>7, <2>2, <2>6, Layout
  <2>10. Header(kind, z) = <<First(kind) + Short - 1 + n>> \o bytes
    BY <1>3, <2>2, <2>7, <2>8, <2>9
  <2>11. SubSeq(b, i + 1, from) \o SubSeq(b, from + 1, from + n) = SubSeq(b, i + 1, from + n)
    <3>1. PICK e \in Nat : e = from + n /\ i <= from /\ from <= e /\ e <= Len(b)
      BY <2>3, <2>4
    <3>2. SubSeq(b, i + 1, from) \o SubSeq(b, from + 1, e) = SubSeq(b, i + 1, e)
      BY <3>1, SubSeqJoin
    <3> QED
      BY <3>1, <3>2
  <2>12. Header(kind, z) = SubSeq(b, i + 1, from + n)
    BY <1>5, <1>7, <2>3, <2>5, <2>10, <2>11
  <2>13. from + n \in Nat /\ i < from + n
    BY <2>3
  <2> QED
    BY <2>2, <2>3, <2>4, <2>6, <2>12, <2>13
<1>8. CASE tag >= Single /\ tag < Single + Short
  <2>1. PICK z \in Nat : z = tag - Single /\ z < Short /\ tag = Single + z
    BY <1>2, <1>8, Layout
  <2> QED
    BY <1>2, <1>4, <1>6, <1>8, <2>1
<1>9. CASE tag >= lists /\ tag < lists + Short
  <2>1. PICK z \in Nat : z = tag - lists /\ z < Short /\ tag = lists + z
    BY <1>2, <1>4, <1>9, Layout
  <2> QED
    BY <1>2, <1>4, <1>6, <1>9, <2>1
<1>10. CASE tag >= Single + Short /\ tag < lists
  <2>1. PICK n \in Nat : n = Width /\ n > 0 /\ n = tag - (Single + Short - 1)
    BY <1>2, <1>10
  <2>2. tag = Single + Short - 1 + n
    BY <1>2, <2>1, Layout, SMTT(30)
  <2> QED
    BY <1>2, <1>4, <1>7, <1>10, <2>1, <2>2
<1>11. CASE tag >= lists + Short
  <2>1. PICK n \in Nat : n = Width /\ n > 0 /\ n = tag - (lists + Short - 1)
    BY <1>2, <1>11
  <2>2. tag = lists + Short - 1 + n
    BY <1>2, <1>4, <2>1, Layout, SMTT(30)
  <2> QED
    BY <1>2, <1>4, <1>7, <1>11, <2>1, <2>2
<1> QED
  <2>1. ~(tag < Single)
    BY <1>2
  <2> QED
    BY <1>2, <1>4, <1>8, <1>9, <1>10, <1>11, <2>1, Layout, SMTT(30)

-----------------------------------------------------------------------------
\* What RLPCursor sees at a, in what is visible and within the ends of the lists.
EndAt(b, a) == Cursor!Header(b, a).from + Cursor!Header(b, a).size
ContentAt(b, a) == SubSeq(b, Cursor!Header(b, a).from + 1, EndAt(b, a))
FitsAt(b, E, lim, a) ==
  /\ Cursor!GoodHeader(b, a)
  /\ IF E # <<>> THEN EndAt(b, a) <= E[Len(E)] ELSE lim = 0 \/ EndAt(b, a) <= lim
WholeAt(b, E, lim, a) == FitsAt(b, E, lim, a) /\ EndAt(b, a) <= Len(b)
EndsHere(E, a) == E # <<>> /\ a = E[Len(E)]
NotShortestAt(b, a) ==
  Cursor!Header(b, a).kind = "String" /\ Cursor!Header(b, a).size = 1 /\ ContentAt(b, a)[1] < Single
LeadingZeroAt(b, a) ==
  Cursor!Header(b, a).kind = "String" /\ Cursor!Header(b, a).size > 1 /\ ContentAt(b, a)[1] = 0

\* Where the cursor is: before the header of the value ahead, once that is read.
Spot(st, m) == IF st.kind = "none" THEN st.at ELSE m

Good(st, lim, m) ==
  Reading(st, lim) /\ st.in \in Inputs /\ (st.kind # "none" => Known(st, lim, m))

\* The ways of an operation at a, in the lists that end at E: r is what it returns.
Stays(in, E, lim, a, r) ==
  Good(r.s, lim, a) /\ r.s.in = in /\ Ends(r.s) = E /\ Spot(r.s, a) = a
Passes(in, E, lim, a, r) ==
  LET b == Seen(in, lim) IN
  /\ Good(r.s, lim, a) /\ r.s.in = in /\ Ends(r.s) = E /\ Spot(r.s, a) = EndAt(b, a)
  /\ WholeAt(b, E, lim, a)
Takes(in, E, lim, a, r) ==
  LET b == Seen(in, lim) IN
  /\ Passes(in, E, lim, a, r)
  /\ Cursor!Header(b, a).kind # "List" /\ ~NotShortestAt(b, a) /\ r.v = ContentAt(b, a)
TakesRaw(in, E, lim, a, r) ==
  LET b == Seen(in, lim) IN
  Passes(in, E, lim, a, r) /\ r.v = SubSeq(b, a + 1, EndAt(b, a))
Enters(in, E, lim, a, r) ==
  LET b == Seen(in, lim) IN
  /\ Good(r.s, lim, a) /\ r.s.in = in
  /\ FitsAt(b, E, lim, a) /\ Cursor!Header(b, a).kind = "List"
  /\ Ends(r.s) = Append(E, EndAt(b, a)) /\ Spot(r.s, a) = Cursor!Header(b, a).from
Leaves(in, E, lim, a, r) ==
  LET b == Seen(in, lim) IN
  /\ Good(r.s, lim, a) /\ r.s.in = in /\ E # <<>>
  /\ \/ EndsHere(E, a)
     \/ /\ FitsAt(b, E, lim, a) /\ EndAt(b, a) = E[Len(E)]
        /\ Cursor!Header(b, a).kind = "Byte" \/ Cursor!Header(b, a).size = 0
  /\ Spot(r.s, a) = E[Len(E)] /\ Ends(r.s) = SubSeq(E, 1, Len(E) - 1)
Fails(in, E, lim, a) ==
  LET b == Seen(in, lim) IN
  ~EndsHere(E, a) /\ (~WholeAt(b, E, lim, a) \/ NotShortestAt(b, a) \/ LeadingZeroAt(b, a))

LEMMA SeenSubSeq ==
  ASSUME NEW in \in Seq(Byte), NEW lim \in Nat,
         NEW c \in Nat, NEW n \in Nat, c + n <= Len(Seen(in, lim))
  PROVE  /\ SubSeq(Seen(in, lim), c + 1, c + n) = SubSeq(in, c + 1, c + n)
         /\ SubSeq(Seen(in, lim), c + 1, c + n) \in Seq(Byte)
         /\ Len(SubSeq(Seen(in, lim), c + 1, c + n)) = n
         /\ n > 0 => SubSeq(Seen(in, lim), c + 1, c + n)[1] = in[c + 1]
<1> DEFINE b == Seen(in, lim)
<1>0. c + n <= Len(b)
  OBVIOUS
<1> HIDE DEF b
<1>1. b \in Seq(Byte) /\ Len(b) \in Nat /\ \A i \in 1 .. Len(b) : b[i] = in[i]
  BY SeenFacts DEF b
<1>2. PICK e \in 0 .. Len(b) : e = c + n
  BY <1>0, <1>1
<1>3. \A x \in Nat, y \in 0 .. Len(b) : SubSeq(b, x + 1, y) = SubSeq(in, x + 1, y)
  BY SeenFacts DEF b
<1>4. SubSeq(b, c + 1, e) = SubSeq(in, c + 1, e)
  BY <1>3, Zenon
<1>5. PICK d : d = SubSeq(b, c + 1, c + n)
  OBVIOUS
<1>6. d \in Seq(Byte) /\ Len(d) = n /\ \A j \in 1 .. n : d[j] = b[c + j]
  BY <1>0, <1>1, <1>5, SubSeqFacts
<1>7. n > 0 => d[1] = in[c + 1]
  <2> HAVE n > 0
  <2>1. 1 \in 1 .. n /\ c + 1 \in 1 .. Len(b)
    BY <1>0, <1>1
  <2> QED
    BY <1>1, <1>6, <2>1
<1> QED
  BY <1>2, <1>4, <1>5, <1>6, <1>7 DEF b

\* What stands at a is known once its header has been read.
LEMMA KnownFacts ==
  ASSUME NEW lim \in Nat, NEW st, NEW a, Reading(st, lim), Known(st, lim, a), st.kind # "none",
         NEW b, b = Seen(st.in, lim), NEW E, E = Ends(st), NEW h, h = Cursor!Header(b, a)
  PROVE  /\ a \in Nat /\ a < st.at /\ h.kind = st.kind /\ st.size \in Nat
         /\ st.at \in Nat /\ st.at <= Len(b) /\ b \in Seq(Byte) /\ Len(b) \in Nat
         /\ EndAt(b, a) = st.at + st.size
         /\ FitsAt(b, E, lim, a) /\ ~EndsHere(E, a)
         /\ WholeAt(b, E, lim, a) <=> st.at + st.size <= Len(b)
         /\ st.stack # <<>> => st.size <= Room(st)
         /\ st.kind = "Byte" => /\ st.size = 0 /\ WholeAt(b, E, lim, a)
                                /\ ContentAt(b, a) = <<st.byteval>>
                                /\ SubSeq(b, a + 1, EndAt(b, a)) = <<st.byteval>>
         /\ st.kind # "Byte" =>
              /\ st.kind \in {"String", "List"} /\ h.from = st.at /\ h.size = st.size
              /\ Header(st.kind, st.size) = SubSeq(b, a + 1, st.at)
              /\ ContentAt(b, a) = SubSeq(b, st.at + 1, st.at + st.size)
<1>0. /\ st \in Stream /\ st.at \in Nat /\ st.in \in Seq(Byte)
      /\ st.kind \in {"Byte", "String", "List"}
  BY DEF Reading, Stream
<1>1. b \in Seq(Byte) /\ Len(b) \in Nat
  BY <1>0, SeenFacts
<1>2. /\ a \in Nat /\ a < st.at /\ Cursor!GoodHeader(b, a) /\ h.kind = st.kind
      /\ IF st.kind = "Byte"
         THEN st.at = a + 1 /\ st.byteval = b[a + 1] /\ st.size = 0 /\ h.from = a /\ h.size = 1
         ELSE h.from = st.at /\ h.size = st.size /\ st.size \in Nat
      /\ InBounds(st, lim, st.at + st.size)
  BY DEF Known
<1>3. EndAt(b, a) = st.at + st.size /\ st.size \in Nat
  BY <1>0, <1>2 DEF EndAt
<1>4. FitsAt(b, E, lim, a)
  <2>1. InBounds(st, lim, EndAt(b, a))
    BY <1>2, <1>3
  <2> QED
    BY <1>0, <1>2, <2>1, BoundsAre DEF FitsAt
<1>5. st.stack # <<>> => /\ Room(st) \in Int /\ Room(st) >= 0 /\ st.size <= Room(st)
                         /\ E[Len(E)] = st.at + Room(st)
  <2> HAVE st.stack # <<>>
  <2>1. Room(st) \in Int /\ E[Len(E)] = st.at + Room(st)
    BY <1>0, TopFacts, BoundsAre
  <2>2. st.at + st.size <= st.at + Room(st)
    BY <1>2 DEF InBounds
  <2>3. st.size <= Room(st)
    BY <1>0, <1>3, <2>1, <2>2
  <2> QED
    BY <1>3, <2>1, <2>3
<1>6. ~EndsHere(E, a)
  <2> SUFFICES ASSUME E # <<>>, a = E[Len(E)] PROVE FALSE
    BY DEF EndsHere
  <2>1. st.stack # <<>>
    BY <1>0, BoundsAre
  <2> QED
    BY <1>0, <1>2, <1>5, <2>1
<1>7. WholeAt(b, E, lim, a) <=> st.at + st.size <= Len(b)
  BY <1>3, <1>4 DEF WholeAt
<1>8. a < Len(b)
  BY <1>2 DEF Cursor!GoodHeader, Cursor!HasTag
<1>9. CASE st.kind = "Byte"
  <2>1. st.at = a + 1 /\ st.byteval = b[a + 1] /\ st.size = 0 /\ h.from = a
    BY <1>2, <1>9
  <2>2. EndAt(b, a) = a + 1 /\ a + 1 <= Len(b)
    BY <1>1, <1>2, <1>3, <1>8, <2>1
  <2>3. SubSeq(b, a + 1, a + 1) = <<b[a + 1]>>
    BY <1>1, <1>2, <1>8, SubSeqByte
  <2>4. ContentAt(b, a) = SubSeq(b, a + 1, a + 1)
    BY <2>1, <2>2 DEF ContentAt
  <2>5. WholeAt(b, E, lim, a)
    BY <1>4, <2>2 DEF WholeAt
  <2> QED
    BY <1>0, <1>1, <1>2, <1>3, <1>4, <1>5, <1>6, <1>7, <1>9, <2>1, <2>2, <2>3, <2>4, <2>5
<1>10. CASE st.kind # "Byte"
  <2>1. h.from = st.at /\ h.size = st.size /\ h.kind # "Byte" /\ st.kind \in {"String", "List"}
    BY <1>0, <1>2, <1>10
  <2>2. h.from <= Len(b) /\ Header(h.kind, h.size) = SubSeq(b, a + 1, h.from)
    BY <1>1, <1>2, <2>1, HeaderBytes
  <2>3. ContentAt(b, a) = SubSeq(b, st.at + 1, st.at + st.size)
    BY <1>3, <2>1 DEF ContentAt
  <2> QED
    BY <1>0, <1>1, <1>2, <1>3, <1>4, <1>5, <1>6, <1>7, <1>10, <2>1, <2>2, <2>3
<1> QED
  BY <1>9, <1>10

\* What an operation finds that looks what is ahead first.
LEMMA Looked ==
  ASSUME NEW lim \in Nat, NEW st, NEW m, Good(st, lim, m), NEW a, a = Spot(st, m),
         NEW k, k = Kind(st), NEW E, E = Ends(st)
  PROVE  /\ k.s \in Stream /\ k.err \in ReadErrors \cup {"nil", "EOF", "EOL"}
         /\ k.err \in {"nil", "EOL"} => Stays(st.in, E, lim, a, k)
         /\ k.err = "nil" => k.s.kind # "none"
         /\ k.err \notin {"nil", "EOL"} => Fails(st.in, E, lim, a)
<1>0. /\ Reading(st, lim) /\ st \in Stream /\ st.in \in Inputs /\ st.at \in Nat
      /\ st.kind # "none" => Known(st, lim, m)
      /\ a = IF st.kind = "none" THEN st.at ELSE m
  BY DEF Good, Reading, Spot, Stream
<1>1. /\ k.s \in Stream /\ k.v = 0 /\ k.err \in ReadErrors \cup {"nil", "EOF", "EOL"}
      /\ k.err = "EOL" => k.s = st /\ st.kind = "none"
      /\ k.err = "nil" =>
           /\ Reading(k.s, lim) /\ k.s.kind # "none" /\ Known(k.s, lim, a)
           /\ st.kind # "none" => k.s = st
           /\ st.kind = "none" =>
                /\ \E n \in Nat : n > 0 /\ Advanced(st, k.s, n)
                /\ st.stack # <<>> => Room(st) # 0
      /\ k.err \notin {"nil", "EOL"} =>
           st.kind = "none" /\ (st.stack # <<>> => Room(st) # 0) /\ ~There(st, lim, st.at)
  <2>1. Reading(st, lim) /\ (st.kind # "none" => Known(st, lim, m))
    BY <1>0
  <2>2. a = IF st.kind = "none" THEN st.at ELSE m
    BY <1>0
  <2>3. /\ k.s \in Stream /\ k.v = 0 /\ k.err \in ReadErrors \cup {"nil", "EOF", "EOL"}
        /\ k.err = "EOL" => k.s = st /\ st.kind = "none"
    BY <2>1, <2>2, KindFacts
  <2>4. k.err = "nil" =>
           /\ Reading(k.s, lim) /\ k.s.kind # "none" /\ Known(k.s, lim, a)
           /\ st.kind # "none" => k.s = st
    BY <2>1, <2>2, KindFacts
  <2>5. k.err = "nil" /\ st.kind = "none" =>
           /\ \E n \in Nat : n > 0 /\ Advanced(st, k.s, n)
           /\ st.stack # <<>> => Room(st) # 0
    BY <2>1, <2>2, KindFacts
  <2>6. k.err \notin {"nil", "EOL"} =>
           st.kind = "none" /\ (st.stack # <<>> => Room(st) # 0) /\ ~There(st, lim, st.at)
    BY <2>1, <2>2, KindFacts
  <2> QED
    BY <2>3, <2>4, <2>5, <2>6
<1>2. CASE k.err = "EOL"
  <2>1. Stays(st.in, E, lim, a, k)
    BY <1>0, <1>1, <1>2 DEF Stays, Good, Spot
  <2> QED
    BY <1>1, <1>2, <2>1 DEF ReadErrors
<1>3. CASE k.err = "nil"
  <2>1. k.s.in = st.in /\ Ends(k.s) = E
    <3>1. CASE st.kind # "none"
      BY <1>1, <1>3, <3>1
    <3>2. CASE st.kind = "none"
      <4>1. PICK n \in Nat : Advanced(st, k.s, n)
        BY <1>1, <1>3, <3>2
      <4>2. n \in Int
        OBVIOUS
      <4>3. Ends(k.s) = E
        BY <1>0, <1>1, <4>1, <4>2, EndsAdvanced
      <4> QED
        BY <4>1, <4>3 DEF Advanced
    <3> QED
      BY <3>1, <3>2
  <2>2. Stays(st.in, E, lim, a, k)
    BY <1>0, <1>1, <1>3, <2>1 DEF Stays, Good, Spot
  <2> QED
    BY <1>1, <1>3, <2>2
<1>4. CASE k.err \notin {"nil", "EOL"}
  <2>1. a = st.at /\ (st.stack # <<>> => Room(st) # 0) /\ ~There(st, lim, a)
    BY <1>0, <1>1, <1>4
  <2> DEFINE b == Seen(st.in, lim)
  <2>2. ~FitsAt(b, E, lim, a)
    <3>1. There(st, lim, a) <=> Cursor!GoodHeader(b, a) /\ InBounds(st, lim, EndAt(b, a))
      BY DEF There, EndAt
    <3> HIDE DEF b
    <3>2. InBounds(st, lim, EndAt(b, a))
            <=> IF E # <<>> THEN EndAt(b, a) <= E[Len(E)] ELSE lim = 0 \/ EndAt(b, a) <= lim
      BY <1>0, BoundsAre
    <3> QED
      BY <2>1, <3>1, <3>2 DEF FitsAt
  <2>3. ~EndsHere(E, a)
    <3> SUFFICES ASSUME E # <<>>, a = E[Len(E)] PROVE FALSE
      BY DEF EndsHere
    <3>1. st.stack # <<>> /\ E[Len(E)] = st.at + Room(st)
      BY <1>0, BoundsAre
    <3>2. Room(st) \in Int
      BY <1>0, <3>1, TopFacts
    <3>3. Room(st) # 0 /\ st.at = st.at + Room(st)
      BY <2>1, <3>1
    <3> QED
      BY <1>0, <3>2, <3>3
  <2>4. Fails(st.in, E, lim, a)
    BY <2>2, <2>3 DEF Fails, WholeAt
  <2> QED
    BY <1>1, <1>4, <2>4
<1> QED
  BY <1>2, <1>3, <1>4

-----------------------------------------------------------------------------
\* Values are taken.
LEMMA RearmedFacts ==
  ASSUME NEW lim \in Nat, NEW a, NEW t, Good(t, lim, a), NEW t2, t2 = Rearmed(t)
  PROVE  /\ t2 \in Stream /\ Good(t2, lim, a) /\ t2.in = t.in /\ t2.at = t.at /\ t2.kind = "none"
         /\ t2.stack = t.stack /\ Ends(t2) = Ends(t) /\ Spot(t2, a) = t.at
<1>1. t \in Stream /\ Reading(t, lim) /\ t.in \in Inputs
  BY DEF Good, Reading
<1>2. /\ t2 \in Stream /\ t2.in = t.in /\ t2.at = t.at /\ t2.kind = "none" /\ t2.stack = t.stack
      /\ t2.limited = t.limited /\ t2.remaining = t.remaining /\ t2.kinderr = t.kinderr
  BY <1>1 DEF Rearmed, Stream
<1>3. Reading(t2, lim)
  BY <1>1, <1>2 DEF Reading
<1>4. Ends(t2) = Ends(t)
  BY <1>2 DEF Ends, Room, Top
<1> QED
  BY <1>1, <1>2, <1>3, <1>4 DEF Good, Spot

LEMMA TakeByteFacts ==
  ASSUME NEW lim \in Nat, NEW a, NEW t, Good(t, lim, a), t.kind = "Byte",
         NEW r, r = TakeByte(t), NEW E, E = Ends(t)
  PROVE  /\ r.s \in Stream /\ r.err = "nil"
         /\ Takes(t.in, E, lim, a, r) /\ TakesRaw(t.in, E, lim, a, r)
<1>1. PICK t2 : t2 = Rearmed(t)
  OBVIOUS
<1>2. r.s = t2 /\ r.err = "nil" /\ r.v = <<t.byteval>>
  BY <1>1 DEF TakeByte, Result
<1>3. /\ t2 \in Stream /\ Good(t2, lim, a) /\ t2.in = t.in /\ Ends(t2) = E /\ Spot(t2, a) = t.at
  BY <1>1, RearmedFacts
<1>4. PICK b : b = Seen(t.in, lim)
  OBVIOUS
<1>5. /\ Reading(t, lim) /\ Known(t, lim, a) /\ t.kind # "none"
  BY DEF Good
<1>6. /\ WholeAt(b, E, lim, a) /\ ContentAt(b, a) = <<t.byteval>> /\ t.size = 0
      /\ SubSeq(b, a + 1, EndAt(b, a)) = <<t.byteval>>
      /\ Cursor!Header(b, a).kind = "Byte" /\ EndAt(b, a) = t.at + t.size /\ t.at \in Nat
  BY <1>4, <1>5, KnownFacts
<1>7. Passes(t.in, E, lim, a, r)
  BY <1>2, <1>3, <1>4, <1>6 DEF Passes
<1> QED
  BY <1>2, <1>3, <1>4, <1>6, <1>7 DEF Takes, TakesRaw, NotShortestAt

LEMMA ReadContent ==
  ASSUME NEW lim \in Nat, NEW a, NEW t, Good(t, lim, a), t.kind \in {"String", "List"},
         NEW q, q = Read(t, t.size), NEW E, E = Ends(t)
  PROVE  /\ q.s \in Stream /\ q.err \in {"nil", "ElemTooLarge", "ValueTooLarge", "UnexpectedEOF"}
         /\ q.err # "nil" => Fails(t.in, E, lim, a)
         /\ q.err = "nil" => /\ Passes(t.in, E, lim, a, q)
                             /\ q.v = ContentAt(Seen(t.in, lim), a)
<1>1. PICK b : b = Seen(t.in, lim)
  OBVIOUS
<1>2. /\ Reading(t, lim) /\ Known(t, lim, a) /\ t.kind # "none" /\ t \in Stream
      /\ t.in \in Inputs /\ t.in \in Seq(Byte)
  BY DEF Good, Reading, Stream
<1>3. /\ t.size \in Nat /\ t.at \in Nat /\ Len(b) \in Nat
      /\ FitsAt(b, E, lim, a) /\ ~EndsHere(E, a) /\ EndAt(b, a) = t.at + t.size
      /\ WholeAt(b, E, lim, a) <=> t.at + t.size <= Len(b)
      /\ t.stack # <<>> => t.size <= Room(t)
      /\ ContentAt(b, a) = SubSeq(b, t.at + 1, t.at + t.size)
  <2>1. a \in Nat /\ t.size \in Nat /\ t.at \in Nat /\ Len(b) \in Nat
    BY <1>1, <1>2, KnownFacts
  <2>2. /\ FitsAt(b, E, lim, a) /\ ~EndsHere(E, a) /\ EndAt(b, a) = t.at + t.size
        /\ WholeAt(b, E, lim, a) <=> t.at + t.size <= Len(b)
        /\ t.stack # <<>> => t.size <= Room(t)
    BY <1>1, <1>2, KnownFacts
  <2>3. ContentAt(b, a) = SubSeq(b, t.at + 1, t.at + t.size)
    <3>1. t.kind # "Byte"
      OBVIOUS
    <3> QED
      BY <1>1, <1>2, <3>1, KnownFacts
  <2> QED
    BY <2>1, <2>2, <2>3
<1>4. /\ q.s \in Stream
      /\ q.err \in {"nil", "ElemTooLarge", "ValueTooLarge", "UnexpectedEOF"}
      /\ q.err # "nil" => Missing(t, lim, t.size) /\ q.v = 0
      /\ q.err = "nil" =>
           /\ Advanced(t, q.s, t.size) /\ Reading(q.s, lim) /\ q.s.kind = "none"
           /\ ~Missing(t, lim, t.size)
           /\ q.v = SubSeq(t.in, t.at + 1, t.at + t.size)
           /\ t.at + t.size <= Len(Seen(t.in, lim))
  <2>1. Reading(t, lim) /\ t.size \in Nat
    BY <1>2, <1>3
  <2> QED
    BY <2>1, ReadFacts
<1>5. CASE q.err # "nil"
  <2>1. t.stack # <<>> => Room(t) \in Int
    BY <1>2, TopFacts
  <2>2. t.at + t.size > Len(b)
    BY <1>1, <1>3, <1>4, <1>5, <2>1 DEF Missing
  <2>3. ~WholeAt(b, E, lim, a)
    BY <1>3, <2>2
  <2> QED
    BY <1>1, <1>3, <1>4, <1>5, <2>3 DEF Fails
<1>6. CASE q.err = "nil"
  <2>1. t.at + t.size \in 0 .. Len(b)
    BY <1>1, <1>3, <1>4, <1>6
  <2>2. q.v = ContentAt(b, a)
    <3>1. SubSeq(b, t.at + 1, t.at + t.size) = SubSeq(t.in, t.at + 1, t.at + t.size)
      <4>1. PICK c \in Nat, n \in Nat, in \in Seq(Byte) :
              c = t.at /\ n = t.size /\ in = t.in /\ c + n <= Len(b)
        BY <1>2, <1>3, <2>1, SMTT(30)
      <4>2. b = Seen(in, lim) /\ c + n <= Len(Seen(in, lim))
        BY <1>1, <4>1
      <4>3. SubSeq(Seen(in, lim), c + 1, c + n) = SubSeq(in, c + 1, c + n)
        BY <4>2, SeenSubSeq
      <4> QED
        BY <4>1, <4>2, <4>3
    <3> QED
      BY <1>3, <1>4, <1>6, <3>1
  <2>3. Ends(q.s) = E /\ q.s.in = t.in /\ q.s.at = t.at + t.size
    <3>1. t.size \in Int
      BY <1>3
    <3>2. Ends(q.s) = E
      BY <1>2, <1>4, <1>6, <3>1, EndsAdvanced
    <3> QED
      BY <1>4, <1>6, <3>2 DEF Advanced
  <2>4. Good(q.s, lim, a) /\ Spot(q.s, a) = t.at + t.size
    BY <1>2, <1>4, <1>6, <2>3 DEF Good, Spot
  <2>5. WholeAt(b, E, lim, a)
    BY <1>1, <1>3, <1>4, <1>6
  <2> QED
    BY <1>1, <1>3, <1>4, <1>6, <2>2, <2>3, <2>4, <2>5 DEF Passes
<1> QED
  BY <1>4, <1>5, <1>6

\* An operation that was refused has looked, no more.
LEMMA Refused ==
  ASSUME NEW in, NEW E, NEW lim, NEW a, NEW k, Stays(in, E, lim, a, k), NEW err, NEW v,
         NEW r, r = Result(k.s, err, v)
  PROVE  r.s = k.s /\ r.err = err /\ Stays(in, E, lim, a, r)
<1>1. r.s = k.s /\ r.err = err
  BY DEF Result
<1> QED
  BY <1>1 DEF Stays

LEMMA BytesFacts ==
  ASSUME NEW lim \in Nat, NEW st, NEW m, Good(st, lim, m), NEW a, a = Spot(st, m),
         NEW r, r = Bytes(st), NEW E, E = Ends(st)
  PROVE  /\ r.s \in Stream
         /\ r.err \in Refusals => Stays(st.in, E, lim, a, r)
         /\ r.err = "nil" => Takes(st.in, E, lim, a, r)
         /\ r.err \notin Refusals \cup {"nil"} => Fails(st.in, E, lim, a)
<1>1. PICK k : k = Kind(st)
  OBVIOUS
<1>2. PICK q : q = Read(k.s, k.s.size)
  OBVIOUS
<1>3. r = IF k.err # "nil" THEN k
          ELSE IF k.s.kind = "Byte" THEN TakeByte(k.s)
          ELSE IF k.s.kind = "List" THEN Result(k.s, "ExpectedString", 0)
          ELSE IF q.err = "nil" /\ k.s.size = 1 /\ q.v[1] < Single
               THEN Result(q.s, "CanonSize", 0) ELSE q
  BY <1>1, <1>2 DEF Bytes
<1>4. /\ k.s \in Stream /\ k.err \in ReadErrors \cup {"nil", "EOF", "EOL"}
      /\ k.err \in {"nil", "EOL"} => Stays(st.in, E, lim, a, k)
      /\ k.err = "nil" => k.s.kind # "none"
      /\ k.err \notin {"nil", "EOL"} => Fails(st.in, E, lim, a)
  BY <1>1, Looked
<1>5. CASE k.err # "nil"
  BY <1>3, <1>4, <1>5 DEF ReadErrors, Refusals
<1>6. CASE k.err = "nil"
  <2>1. Good(k.s, lim, a) /\ k.s.in = st.in /\ Ends(k.s) = E
    BY <1>4, <1>6 DEF Stays
  <2>2. k.s.kind \in {"Byte", "String", "List"}
    BY <1>4, <1>6 DEF Stream
  <2>3. CASE k.s.kind = "Byte"
    <3>1. r = TakeByte(k.s)
      BY <1>3, <1>6, <2>3
    <3>2. r.s \in Stream /\ r.err = "nil" /\ Takes(st.in, E, lim, a, r)
      BY <2>1, <2>3, <3>1, TakeByteFacts
    <3> QED
      BY <3>2 DEF Refusals
  <2>4. CASE k.s.kind = "List"
    <3>1. r = Result(k.s, "ExpectedString", 0)
      BY <1>3, <1>6, <2>4
    <3>2. r.s = k.s /\ r.err = "ExpectedString" /\ Stays(st.in, E, lim, a, r)
      BY <1>4, <1>6, <3>1, Refused
    <3> QED
      BY <1>4, <3>2 DEF Refusals
  <2>5. CASE k.s.kind = "String"
    <3>1. /\ q.s \in Stream
          /\ q.err \in {"nil", "ElemTooLarge", "ValueTooLarge", "UnexpectedEOF"}
          /\ q.err # "nil" => Fails(st.in, E, lim, a)
          /\ q.err = "nil" => /\ Passes(st.in, E, lim, a, q)
                              /\ q.v = ContentAt(Seen(st.in, lim), a)
      BY <1>2, <2>1, <2>5, ReadContent
    <3>2. /\ Cursor!Header(Seen(st.in, lim), a).kind = "String"
          /\ Cursor!Header(Seen(st.in, lim), a).size = k.s.size
      <4>1. Reading(k.s, lim) /\ Known(k.s, lim, a)
        BY <2>1, <2>5 DEF Good
      <4> QED
        BY <2>1, <2>5, <4>1, KnownFacts
    <3>3. CASE q.err # "nil"
      BY <1>3, <1>6, <2>5, <3>1, <3>3 DEF Refusals
    <3>4. CASE q.err = "nil" /\ k.s.size = 1 /\ q.v[1] < Single
      <4>1. r.s = q.s /\ r.err = "CanonSize"
        BY <1>3, <1>6, <2>5, <3>4 DEF Result
      <4>2. NotShortestAt(Seen(st.in, lim), a)
        BY <3>1, <3>2, <3>4 DEF NotShortestAt
      <4>3. ~EndsHere(E, a)
        <5>1. Reading(k.s, lim) /\ Known(k.s, lim, a)
          BY <2>1, <2>5 DEF Good
        <5> QED
          BY <2>1, <2>5, <5>1, KnownFacts
      <4> QED
        BY <3>1, <4>1, <4>2, <4>3 DEF Refusals, Fails
    <3>5. CASE q.err = "nil" /\ ~(k.s.size = 1 /\ q.v[1] < Single)
      <4>1. r = q
        BY <1>3, <1>6, <2>5, <3>5
      <4>2. ~NotShortestAt(Seen(st.in, lim), a)
        BY <3>1, <3>2, <3>5 DEF NotShortestAt
      <4>3. Takes(st.in, E, lim, a, r)
        BY <3>1, <3>2, <3>5, <4>1, <4>2 DEF Takes
      <4> QED
        BY <3>1, <3>5, <4>1, <4>3 DEF Refusals
    <3> QED
      BY <3>3, <3>4, <3>5
  <2> QED
    BY <2>2, <2>3, <2>4, <2>5
<1> QED
  BY <1>5, <1>6

LEMMA RawContent ==
  ASSUME NEW lim \in Nat, NEW a, NEW t, Good(t, lim, a), t.kind \in {"String", "List"},
         NEW q, q = Read(t, t.size), q.err = "nil", NEW E, E = Ends(t),
         NEW r, r = Result(q.s, "nil", Header(t.kind, t.size) \o q.v)
  PROVE  r.s = q.s /\ r.err = "nil" /\ TakesRaw(t.in, E, lim, a, r)
<1>1. PICK b, v, h : b = Seen(t.in, lim) /\ v = Header(t.kind, t.size) \o q.v
                     /\ h = Cursor!Header(b, a)
  OBVIOUS
<1>2. r.s = q.s /\ r.err = "nil" /\ r.v = v
  BY <1>1 DEF Result
<1>3. Passes(t.in, E, lim, a, q) /\ q.v = ContentAt(b, a)
  BY <1>1, ReadContent
<1>4. Reading(t, lim) /\ Known(t, lim, a) /\ t.kind # "none" /\ t.kind # "Byte"
  BY DEF Good
<1>5. /\ a \in Nat /\ a < t.at /\ t.at \in Nat /\ b \in Seq(Byte) /\ t.size \in Nat
      /\ Len(b) \in Nat /\ EndAt(b, a) = t.at + t.size
  BY <1>1, <1>4, KnownFacts
<1>6. /\ Header(t.kind, t.size) = SubSeq(b, a + 1, t.at)
      /\ ContentAt(b, a) = SubSeq(b, t.at + 1, t.at + t.size)
  BY <1>1, <1>4, KnownFacts
<1>7. EndAt(b, a) <= Len(b)
  BY <1>1, <1>3 DEF Passes, WholeAt
<1>8. PICK c \in Nat, e \in Nat : c = t.at /\ e = t.at + t.size /\ e = EndAt(b, a)
  BY <1>5
<1>9. a \in Nat /\ a <= c /\ c <= e /\ e <= Len(b)
  BY <1>5, <1>7, <1>8
<1>10. b \in Seq(Byte)
  BY <1>5
<1>11. SubSeq(b, a + 1, c) \o SubSeq(b, c + 1, e) = SubSeq(b, a + 1, e)
  BY <1>9, <1>10, SubSeqJoin
<1>12. v = SubSeq(b, a + 1, EndAt(b, a))
  BY <1>1, <1>3, <1>6, <1>8, <1>11
<1>13. Passes(t.in, E, lim, a, r)
  BY <1>2, <1>3 DEF Passes
<1> QED
  BY <1>1, <1>2, <1>12, <1>13 DEF TakesRaw

LEMMA RawFacts ==
  ASSUME NEW lim \in Nat, NEW st, NEW m, Good(st, lim, m), NEW a, a = Spot(st, m),
         NEW r, r = Raw(st), NEW E, E = Ends(st)
  PROVE  /\ r.s \in Stream
         /\ r.err \in Refusals => Stays(st.in, E, lim, a, r)
         /\ r.err = "nil" => TakesRaw(st.in, E, lim, a, r)
         /\ r.err \notin Refusals \cup {"nil"} => Fails(st.in, E, lim, a)
<1>1. PICK k : k = Kind(st)
  OBVIOUS
<1>2. PICK q : q = Read(k.s, k.s.size)
  OBVIOUS
<1>3. r = IF k.err # "nil" THEN k
          ELSE IF k.s.kind = "Byte" THEN TakeByte(k.s)
          ELSE IF q.err # "nil" THEN q
          ELSE Result(q.s, "nil", Header(k.s.kind, k.s.size) \o q.v)
  BY <1>1, <1>2 DEF Raw
<1>4. /\ k.s \in Stream /\ k.err \in ReadErrors \cup {"nil", "EOF", "EOL"}
      /\ k.err \in {"nil", "EOL"} => Stays(st.in, E, lim, a, k)
      /\ k.err = "nil" => k.s.kind # "none"
      /\ k.err \notin {"nil", "EOL"} => Fails(st.in, E, lim, a)
  BY <1>1, Looked
<1>5. CASE k.err # "nil"
  BY <1>3, <1>4, <1>5 DEF ReadErrors, Refusals
<1>6. CASE k.err = "nil"
  <2>1. Good(k.s, lim, a) /\ k.s.in = st.in /\ Ends(k.s) = E
    BY <1>4, <1>6 DEF Stays
  <2>2. k.s.kind \in {"Byte", "String", "List"}
    BY <1>4, <1>6 DEF Stream
  <2>3. CASE k.s.kind = "Byte"
    <3>1. r = TakeByte(k.s)
      BY <1>3, <1>6, <2>3
    <3>2. r.s \in Stream /\ r.err = "nil" /\ TakesRaw(st.in, E, lim, a, r)
      BY <2>1, <2>3, <3>1, TakeByteFacts
    <3> QED
      BY <3>2 DEF Refusals
  <2>4. CASE k.s.kind \in {"String", "List"}
    <3>0. PICK b : b = Seen(st.in, lim)
      OBVIOUS
    <3>1. /\ q.s \in Stream
          /\ q.err \in {"nil", "ElemTooLarge", "ValueTooLarge", "UnexpectedEOF"}
          /\ q.err # "nil" => Fails(st.in, E, lim, a)
          /\ q.err = "nil" => /\ Passes(st.in, E, lim, a, q)
                              /\ q.v = ContentAt(b, a)
      BY <1>2, <2>1, <2>4, <3>0, ReadContent
    <3>2. CASE q.err # "nil"
      BY <1>3, <1>6, <2>4, <3>1, <3>2 DEF Refusals
    <3>3. CASE q.err = "nil"
      <4>1. r = Result(q.s, "nil", Header(k.s.kind, k.s.size) \o q.v)
        BY <1>3, <1>6, <2>4, <3>3
      <4>2. r.s = q.s /\ r.err = "nil" /\ TakesRaw(st.in, E, lim, a, r)
        BY <1>2, <2>1, <2>4, <3>3, <4>1, RawContent
      <4> QED
        BY <3>1, <4>2 DEF Refusals
    <3> QED
      BY <3>2, <3>3
  <2> QED
    BY <2>2, <2>3, <2>4
<1> QED
  BY <1>5, <1>6

\* A number is a string without leading zeros.
LEMMA NumberFacts ==
  ASSUME NEW lim \in Nat, NEW a, NEW t, Good(t, lim, a), t.kind = "String",
         NEW q, q = ReadUint(t, t.size), NEW E, E = Ends(t), NEW b, b = Seen(t.in, lim)
  PROVE  /\ q.s \in Stream
         /\ q.err \in {"nil", "ElemTooLarge", "ValueTooLarge", "UnexpectedEOF", "CanonSize"}
         /\ q.err # "nil" => Fails(t.in, E, lim, a)
         /\ q.err = "nil" =>
              /\ Passes(t.in, E, lim, a, q)
              /\ SubSeq(t.in, t.at + 1, q.s.at) = ContentAt(b, a)
              /\ NotShortestAt(b, a) <=> t.size > 0 /\ q.v < Single
<1>1. /\ Reading(t, lim) /\ Known(t, lim, a) /\ t.kind # "none" /\ t.kind # "Byte" /\ t \in Stream
      /\ t.in \in Inputs /\ t.in \in Seq(Byte)
  BY DEF Good, Reading, Stream
<1>2. /\ t.size \in Nat /\ t.at \in Nat /\ Len(b) \in Nat /\ b \in Seq(Byte)
      /\ FitsAt(b, E, lim, a) /\ ~EndsHere(E, a) /\ EndAt(b, a) = t.at + t.size
      /\ WholeAt(b, E, lim, a) <=> t.at + t.size <= Len(b)
      /\ t.stack # <<>> => t.size <= Room(t)
      /\ ContentAt(b, a) = SubSeq(b, t.at + 1, t.at + t.size)
      /\ Cursor!Header(b, a).kind = "String" /\ Cursor!Header(b, a).size = t.size
  BY <1>1, KnownFacts
<1>3. /\ q.s \in Stream /\ q.v \in Nat
      /\ q.err \in {"nil", "ElemTooLarge", "ValueTooLarge", "UnexpectedEOF", "CanonSize"}
      /\ q.err \in {"ElemTooLarge", "ValueTooLarge", "UnexpectedEOF"} => Missing(t, lim, t.size)
      /\ q.err = "CanonSize" => t.size > 1 /\ t.in[t.at + 1] = 0 /\ ~Missing(t, lim, t.size)
                                /\ t.at + t.size <= Len(b)
      /\ q.err = "nil" =>
           /\ Advanced(t, q.s, t.size) /\ Reading(q.s, lim) /\ q.s.kind = "none"
           /\ t.at + t.size <= Len(b)
           /\ t.size > 1 => t.in[t.at + 1] # 0
           /\ t.size > 0 => q.v = Value(SubSeq(t.in, t.at + 1, t.at + t.size))
  BY <1>1, <1>2, UintFacts, SMTT(30)
<1>4. t.at + t.size <= Len(b) =>
        /\ SubSeq(t.in, t.at + 1, t.at + t.size) = ContentAt(b, a)
        /\ ContentAt(b, a) \in Seq(Byte) /\ Len(ContentAt(b, a)) = t.size
        /\ t.size > 0 => ContentAt(b, a)[1] = t.in[t.at + 1]
  <2> HAVE t.at + t.size <= Len(b)
  <2>1. PICK c \in Nat, n \in Nat : c = t.at /\ n = t.size /\ c + n <= Len(b)
    BY <1>2
  <2>2. /\ SubSeq(b, c + 1, c + n) = SubSeq(t.in, c + 1, c + n)
        /\ SubSeq(b, c + 1, c + n) \in Seq(Byte) /\ Len(SubSeq(b, c + 1, c + n)) = n
        /\ n > 0 => SubSeq(b, c + 1, c + n)[1] = t.in[c + 1]
    <3>1. PICK in \in Seq(Byte) : in = t.in
      BY <1>1
    <3>2. b = Seen(in, lim) /\ c + n <= Len(Seen(in, lim))
      BY <2>1, <3>1
    <3>3. /\ SubSeq(Seen(in, lim), c + 1, c + n) = SubSeq(in, c + 1, c + n)
          /\ SubSeq(Seen(in, lim), c + 1, c + n) \in Seq(Byte)
          /\ Len(SubSeq(Seen(in, lim), c + 1, c + n)) = n
          /\ n > 0 => SubSeq(Seen(in, lim), c + 1, c + n)[1] = in[c + 1]
      BY <3>2, SeenSubSeq
    <3> QED
      BY <3>1, <3>2, <3>3
  <2>3. ContentAt(b, a) = SubSeq(b, c + 1, c + n)
    BY <1>2, <2>1
  <2> QED
    BY <2>1, <2>2, <2>3
<1>5. CASE q.err \in {"ElemTooLarge", "ValueTooLarge", "UnexpectedEOF"}
  <2>1. t.stack # <<>> => Room(t) \in Int
    BY <1>1, TopFacts
  <2>2. t.at + t.size > Len(b)
    BY <1>2, <1>3, <1>5, <2>1 DEF Missing
  <2>3. ~WholeAt(b, E, lim, a)
    BY <1>2, <2>2
  <2> QED
    BY <1>2, <1>3, <1>5, <2>3 DEF Fails
<1>6. CASE q.err = "CanonSize"
  <2>1. LeadingZeroAt(b, a)
    <3>1. t.size > 1 /\ t.size > 0 /\ t.in[t.at + 1] = 0 /\ t.at + t.size <= Len(b)
      BY <1>2, <1>3, <1>6
    <3>2. ContentAt(b, a)[1] = 0
      BY <1>4, <3>1
    <3> QED
      BY <1>2, <3>1, <3>2 DEF LeadingZeroAt
  <2> QED
    BY <1>2, <1>3, <1>6, <2>1 DEF Fails
<1>7. CASE q.err = "nil"
  <2>1. Ends(q.s) = E /\ q.s.in = t.in /\ q.s.at = t.at + t.size
    <3>1. t.size \in Int
      BY <1>2
    <3>2. Ends(q.s) = E
      BY <1>1, <1>3, <1>7, <3>1, EndsAdvanced
    <3> QED
      BY <1>3, <1>7, <3>2 DEF Advanced
  <2>2. Good(q.s, lim, a) /\ Spot(q.s, a) = t.at + t.size
    BY <1>1, <1>3, <1>7, <2>1 DEF Good, Spot
  <2>3. Passes(t.in, E, lim, a, q)
    BY <1>2, <1>3, <1>7, <2>1, <2>2 DEF Passes
  <2>4. t.size > 0 => q.v = Value(ContentAt(b, a))
    BY <1>3, <1>4, <1>7
  <2>5. CASE t.size = 0
    <3>1. ~NotShortestAt(b, a)
      BY <1>2, <2>5 DEF NotShortestAt
    <3> QED
      BY <1>3, <1>4, <1>7, <2>1, <2>3, <2>5, <3>1
  <2>6. CASE t.size = 1
    <3>1. q.v = ContentAt(b, a)[1]
      BY <1>3, <1>4, <1>7, <2>4, <2>6, ValueFacts
    <3>2. NotShortestAt(b, a) <=> q.v < Single
      BY <1>2, <2>6, <3>1 DEF NotShortestAt
    <3> QED
      BY <1>3, <1>4, <1>7, <2>1, <2>3, <2>6, <3>2
  <2>7. CASE t.size > 1
    <3>1. q.v >= Base
      BY <1>3, <1>4, <1>7, <2>4, <2>7, ValueFacts
    <3>2. ~(q.v < Single) /\ t.size # 1
      BY <1>2, <1>3, <2>7, <3>1, Layout
    <3>3. ~NotShortestAt(b, a)
      BY <1>2, <3>2 DEF NotShortestAt
    <3> QED
      BY <1>3, <1>4, <1>7, <2>1, <2>3, <3>2, <3>3
  <2>8. t.size = 0 \/ t.size = 1 \/ t.size > 1
    BY <1>2
  <2> QED
    BY <2>5, <2>6, <2>7, <2>8
<1> QED
  BY <1>3, <1>5, <1>6, <1>7

LEMMA UintOpFacts ==
  ASSUME NEW lim \in Nat, NEW st, NEW m, Good(st, lim, m), NEW a, a = Spot(st, m), NEW max,
         NEW r, r = Uint(st, max), NEW E, E = Ends(st)
  PROVE  /\ r.s \in Stream
         /\ r.err \in Refusals => Stays(st.in, E, lim, a, r)
         /\ r.err = "nil" => Takes(st.in, E, lim, a, r)
         /\ r.err \notin Refusals \cup {"nil"} => Fails(st.in, E, lim, a)
<1>1. PICK k : k = Kind(st)
  OBVIOUS
<1>2. PICK q : q = ReadUint(k.s, k.s.size)
  OBVIOUS
<1>3. PICK v : v = SubSeq(st.in, k.s.at + 1, q.s.at)
  OBVIOUS
<1>4. r = IF k.err # "nil" THEN k
          ELSE IF k.s.kind = "Byte"
               THEN IF k.s.byteval = 0 THEN Result(k.s, "CanonByte", 0) ELSE TakeByte(k.s)
          ELSE IF k.s.kind = "List" THEN Result(k.s, "ExpectedString", 0)
          ELSE IF k.s.size > max THEN Result(k.s, "UintOverflow", 0)
          ELSE IF q.err # "nil"
               THEN Result(q.s, IF q.err = "CanonSize" THEN "CanonInt" ELSE q.err, 0)
          ELSE IF k.s.size > 0 /\ q.v < Single THEN Result(q.s, "CanonSize", 0)
          ELSE Result(q.s, "nil", v)
  BY <1>1, <1>2, <1>3 DEF Uint
<1>5. /\ k.s \in Stream /\ k.err \in ReadErrors \cup {"nil", "EOF", "EOL"}
      /\ k.err \in {"nil", "EOL"} => Stays(st.in, E, lim, a, k)
      /\ k.err = "nil" => k.s.kind # "none"
      /\ k.err \notin {"nil", "EOL"} => Fails(st.in, E, lim, a)
  BY <1>1, Looked
<1>6. CASE k.err # "nil"
  BY <1>4, <1>5, <1>6 DEF ReadErrors, Refusals
<1>7. CASE k.err = "nil"
  <2>1. Good(k.s, lim, a) /\ k.s.in = st.in /\ Ends(k.s) = E
    BY <1>5, <1>7 DEF Stays
  <2>2. k.s.kind \in {"Byte", "String", "List"}
    BY <1>5, <1>7 DEF Stream
  <2>3. ASSUME NEW err \in Refusals, r = Result(k.s, err, 0)
        PROVE  /\ r.s \in Stream
               /\ r.err \in Refusals => Stays(st.in, E, lim, a, r)
               /\ r.err = "nil" => Takes(st.in, E, lim, a, r)
               /\ r.err \notin Refusals \cup {"nil"} => Fails(st.in, E, lim, a)
    <3>1. r.s = k.s /\ r.err = err /\ Stays(st.in, E, lim, a, r)
      BY <1>5, <1>7, <2>3, Refused
    <3> QED
      BY <1>5, <3>1 DEF Refusals
  <2>4. CASE k.s.kind = "Byte"
    <3>1. CASE k.s.byteval = 0
      <4>1. r = Result(k.s, "CanonByte", 0) /\ "CanonByte" \in Refusals
        BY <1>4, <1>7, <2>4, <3>1 DEF Refusals
      <4> QED
        BY <2>3, <4>1
    <3>2. CASE k.s.byteval # 0
      <4>1. r = TakeByte(k.s)
        BY <1>4, <1>7, <2>4, <3>2
      <4>2. r.s \in Stream /\ r.err = "nil" /\ Takes(st.in, E, lim, a, r)
        BY <2>1, <2>4, <4>1, TakeByteFacts
      <4> QED
        BY <4>2 DEF Refusals
    <3> QED
      BY <3>1, <3>2
  <2>5. CASE k.s.kind = "List"
    <3>1. r = Result(k.s, "ExpectedString", 0) /\ "ExpectedString" \in Refusals
      BY <1>4, <1>7, <2>5 DEF Refusals
    <3> QED
      BY <2>3, <3>1
  <2>6. CASE k.s.kind = "String" /\ k.s.size > max
    <3>1. r = Result(k.s, "UintOverflow", 0) /\ "UintOverflow" \in Refusals
      BY <1>4, <1>7, <2>6 DEF Refusals
    <3> QED
      BY <2>3, <3>1
  <2>7. CASE k.s.kind = "String" /\ ~(k.s.size > max)
    <3>0. PICK b : b = Seen(st.in, lim)
      OBVIOUS
    <3>1. /\ q.s \in Stream
          /\ q.err \in {"nil", "ElemTooLarge", "ValueTooLarge", "UnexpectedEOF", "CanonSize"}
          /\ q.err # "nil" => Fails(st.in, E, lim, a)
          /\ q.err = "nil" =>
               /\ Passes(st.in, E, lim, a, q)
               /\ v = ContentAt(b, a)
               /\ NotShortestAt(b, a) <=> k.s.size > 0 /\ q.v < Single
      BY <1>2, <1>3, <2>1, <2>7, <3>0, NumberFacts
    <3>2. Cursor!Header(b, a).kind = "String" /\ ~EndsHere(E, a)
      <4>1. Reading(k.s, lim) /\ Known(k.s, lim, a) /\ k.s.kind # "none"
        BY <2>1, <2>7 DEF Good
      <4> QED
        BY <2>1, <2>7, <3>0, <4>1, KnownFacts
    <3>3. CASE q.err # "nil"
      <4>1. r.s = q.s /\ r.err = IF q.err = "CanonSize" THEN "CanonInt" ELSE q.err
        BY <1>4, <1>7, <2>7, <3>3 DEF Result
      <4> QED
        BY <3>1, <3>3, <4>1 DEF Refusals
    <3>4. CASE q.err = "nil" /\ k.s.size > 0 /\ q.v < Single
      <4>1. r.s = q.s /\ r.err = "CanonSize"
        BY <1>4, <1>7, <2>7, <3>4 DEF Result
      <4>2. Fails(st.in, E, lim, a)
        BY <3>0, <3>1, <3>2, <3>4 DEF Fails
      <4> QED
        BY <3>1, <4>1, <4>2 DEF Refusals
    <3>5. CASE q.err = "nil" /\ ~(k.s.size > 0 /\ q.v < Single)
      <4>1. r = Result(q.s, "nil", v)
        BY <1>4, <1>7, <2>7, <3>5
      <4>2. r.s = q.s /\ r.err = "nil" /\ r.v = v
        BY <4>1 DEF Result
      <4>3. Takes(st.in, E, lim, a, r)
        BY <3>0, <3>1, <3>2, <3>5, <4>2 DEF Takes, Passes
      <4> QED
        BY <3>1, <4>2, <4>3 DEF Refusals
    <3> QED
      BY <3>3, <3>4, <3>5
  <2> QED
    BY <2>2, <2>4, <2>5, <2>6, <2>7
<1> QED
  BY <1>6, <1>7

-----------------------------------------------------------------------------
\* Lists are entered and left.
LEMMA NestedEntered ==
  ASSUME NEW k \in Seq([pos : Int, size : Int]), Nested(k), NEW z \in Nat,
         k # <<>> => k[Len(k)].pos + z <= k[Len(k)].size,
         NEW k2, k2 = Append(k, [pos |-> 0, size |-> z])
  PROVE  k2 \in Seq([pos : Int, size : Int]) /\ Nested(k2)
<1>1. PICK n \in Nat, e \in [pos : Int, size : Int] :
        n = Len(k) /\ e = [pos |-> 0, size |-> z] /\ e.pos = 0 /\ e.size = z
  OBVIOUS
<1>2. /\ k2 \in Seq([pos : Int, size : Int]) /\ Len(k2) = n + 1 /\ k2[n + 1] = e
      /\ \A i \in 1 .. n : k2[i] = k[i]
  BY <1>1
<1>3. /\ \A i \in 1 .. n : k[i].pos >= 0 /\ k[i].pos <= k[i].size
      /\ \A i \in 1 .. n - 1 : k[i].pos + k[i + 1].size <= k[i].size
      /\ n > 0 => k[n].pos + z <= k[n].size
  <2>1. n > 0 => k # <<>>
    BY <1>1
  <2> QED
    BY <1>1, <2>1 DEF Nested
<1>4. \A i \in 1 .. n + 1 : k2[i].pos >= 0 /\ k2[i].pos <= k2[i].size
  <2> TAKE i \in 1 .. n + 1
  <2>1. CASE i = n + 1
    BY <1>1, <1>2, <2>1
  <2>2. CASE i \in 1 .. n
    BY <1>2, <1>3, <2>2
  <2>3. i = n + 1 \/ i \in 1 .. n
    OBVIOUS
  <2> QED
    BY <2>1, <2>2, <2>3
<1>5. \A i \in 1 .. n : k2[i].pos + k2[i + 1].size <= k2[i].size
  <2> TAKE i \in 1 .. n
  <2>1. CASE i = n
    <3>1. k2[i] = k[n] /\ k2[i + 1].size = z /\ n > 0
      BY <1>1, <1>2, <2>1
    <3>2. k[n].pos + z <= k[n].size
      BY <1>3, <3>1
    <3> QED
      BY <3>1, <3>2
  <2>2. CASE i \in 1 .. n - 1
    <3>1. i + 1 \in 1 .. n
      BY <2>2
    <3>2. k2[i] = k[i] /\ k2[i + 1] = k[i + 1]
      BY <1>2, <3>1
    <3> QED
      BY <1>3, <2>2, <3>2
  <2>3. i = n \/ i \in 1 .. n - 1
    OBVIOUS
  <2> QED
    BY <2>1, <2>2, <2>3
<1>6. Len(k2) - 1 = n
  BY <1>2
<1> QED
  BY <1>2, <1>4, <1>5, <1>6 DEF Nested

LEMMA NestedLeft ==
  ASSUME NEW k \in Seq([pos : Int, size : Int]), Nested(k), k # <<>>,
         NEW rest, rest = SubSeq(k, 1, Len(k) - 1),
         NEW k2 \in Seq([pos : Int, size : Int]), Counts(rest, k2, k[Len(k)].size)
  PROVE  Nested(k2)
<1>1. PICK n \in Nat : n + 1 = Len(k) /\ n = Len(k) - 1
  <2>1. Len(k) \in Nat /\ Len(k) # 0
    BY EmptySeq
  <2>2. Len(k) - 1 \in Nat /\ (Len(k) - 1) + 1 = Len(k)
    BY <2>1
  <2> QED
    BY <2>2
<1>2. \A i \in 1 .. n + 1 : k[i].pos \in Int /\ k[i].size \in Int
  <2> TAKE i \in 1 .. n + 1
  <2>1. k[i] \in [pos : Int, size : Int]
    BY <1>1, ElementOfSeq, Zenon
  <2> QED
    BY <2>1
<1>3. Len(rest) = n /\ \A i \in 1 .. n : rest[i] = k[i]
  BY <1>1
<1>4. /\ Len(k2) = n
      /\ \A i \in 1 .. n : k2[i].size = k[i].size
      /\ \A i \in 1 .. n - 1 : k2[i].pos = k[i].pos
      /\ n > 0 => k2[n].pos = k[n].pos + k[n + 1].size
  <2>1. n > 0 => rest # <<>> /\ n \in 1 .. n
    <3>1. rest = <<>> => Len(rest) = 0
      OBVIOUS
    <3> QED
      BY <1>3, <3>1
  <2>2. \A i \in 1 .. n - 1 : i \in 1 .. n
    OBVIOUS
  <2> QED
    BY <1>1, <1>3, <2>1, <2>2 DEF Counts
<1>5. /\ \A i \in 1 .. n + 1 : k[i].pos >= 0 /\ k[i].pos <= k[i].size
      /\ \A i \in 1 .. n : k[i].pos + k[i + 1].size <= k[i].size
  BY <1>1 DEF Nested
<1>6. \A i \in 1 .. n : k2[i].pos >= 0 /\ k2[i].pos <= k2[i].size
  <2> TAKE i \in 1 .. n
  <2>1. i \in 1 .. n + 1 /\ i + 1 \in 1 .. n + 1
    OBVIOUS
  <2>2. CASE i = n
    <3>1. PICK p \in Int, z \in Int, z2 \in Int, p2 \in Int :
            p = k[n].pos /\ z = k[n].size /\ z2 = k[n + 1].size /\ p2 = k[n + 1].pos
      BY <1>2, <2>1, <2>2
    <3>2. p >= 0 /\ p2 >= 0 /\ p2 <= z2 /\ p + z2 <= z
      BY <1>5, <2>1, <2>2, <3>1
    <3>3. k2[i].pos = p + z2 /\ k2[i].size = z
      BY <1>4, <2>2, <3>1
    <3>4. p + z2 >= 0 /\ p + z2 <= z
      BY <3>2
    <3> QED
      BY <3>3, <3>4
  <2>3. CASE i \in 1 .. n - 1
    BY <1>2, <1>4, <1>5, <2>1, <2>3
  <2> QED
    BY <2>2, <2>3
<1>7. \A i \in 1 .. n - 1 : k2[i].pos + k2[i + 1].size <= k2[i].size
  <2> TAKE i \in 1 .. n - 1
  <2>1. i \in 1 .. n /\ i + 1 \in 1 .. n
    OBVIOUS
  <2> QED
    BY <1>4, <1>5, <2>1
<1> QED
  BY <1>4, <1>6, <1>7 DEF Nested

Entered(t) ==
  [Rearmed(t) EXCEPT !.size = 0, !.stack = Append(@, [pos |-> 0, size |-> t.size])]

LEMMA EnterFacts ==
  ASSUME NEW lim \in Nat, NEW a, NEW t, Good(t, lim, a), t.kind = "List", NEW E, E = Ends(t),
         NEW v, NEW r, r = Result(Entered(t), "nil", v)
  PROVE  r.s \in Stream /\ r.err = "nil" /\ Enters(t.in, E, lim, a, r)
<1>1. PICK t2, t3, b : t2 = Rearmed(t) /\ t3 = Entered(t) /\ b = Seen(t.in, lim)
  OBVIOUS
<1>2. /\ t2 \in Stream /\ Good(t2, lim, a) /\ t2.in = t.in /\ t2.at = t.at /\ t2.kind = "none"
      /\ t2.stack = t.stack
  BY <1>1, RearmedFacts
<1>3. Reading(t, lim) /\ Known(t, lim, a) /\ t.kind # "none" /\ t.kind # "Byte"
      /\ t \in Stream /\ t.stack \in Seq([pos : Int, size : Int]) /\ Nested(t.stack)
  BY DEF Good, Reading, Stream
<1>4. /\ t.size \in Nat /\ t.at \in Nat /\ FitsAt(b, E, lim, a) /\ EndAt(b, a) = t.at + t.size
      /\ Cursor!Header(b, a).kind = "List" /\ Cursor!Header(b, a).from = t.at
      /\ t.stack # <<>> => t.size <= Room(t)
  BY <1>1, <1>3, KnownFacts
<1>5. PICK k2 : k2 = Append(t.stack, [pos |-> 0, size |-> t.size])
  OBVIOUS
<1>6. k2 \in Seq([pos : Int, size : Int]) /\ Nested(k2)
  <2>1. t.stack # <<>> => t.stack[Len(t.stack)].pos + t.size <= t.stack[Len(t.stack)].size
    <3> HAVE t.stack # <<>>
    <3>1. PICK e \in [pos : Int, size : Int] : e = t.stack[Len(t.stack)]
      BY <1>3, TopFacts
    <3>2. Room(t) = e.size - e.pos
      BY <1>3, <3>1, TopFacts
    <3>3. e.size \in Int /\ e.pos \in Int /\ t.size <= e.size - e.pos
      BY <1>4, <3>1, <3>2
    <3>4. e.pos + t.size <= e.size
      BY <1>4, <3>3
    <3> QED
      BY <3>1, <3>4
  <2> QED
    BY <1>3, <1>4, <1>5, <2>1, NestedEntered
<1>7. t3 = [t2 EXCEPT !.size = 0, !.stack = k2]
  BY <1>1, <1>2, <1>5 DEF Entered
<1>8. /\ t3 \in Stream /\ t3.in = t.in /\ t3.at = t.at /\ t3.kind = "none" /\ t3.stack = k2
      /\ t3.limited = t2.limited /\ t3.remaining = t2.remaining /\ t3.kinderr = t2.kinderr
  <2>1. PICK u : u = [t2 EXCEPT !.size = 0]
    OBVIOUS
  <2>2. t2 \in Stream /\ k2 \in Seq([pos : Int, size : Int]) /\ 0 \in Int
    BY <1>2, <1>6
  <2>3. /\ u \in Stream /\ u.in = t2.in /\ u.at = t2.at /\ u.kind = t2.kind
        /\ u.limited = t2.limited /\ u.remaining = t2.remaining /\ u.kinderr = t2.kinderr
    BY <2>1, <2>2 DEF Stream
  <2>4. t3 = [u EXCEPT !.stack = k2]
    BY <1>7, <2>1
  <2>5. /\ t3 \in Stream /\ t3.in = u.in /\ t3.at = u.at /\ t3.kind = u.kind /\ t3.stack = k2
        /\ t3.limited = u.limited /\ t3.remaining = u.remaining /\ t3.kinderr = u.kinderr
    BY <2>2, <2>3, <2>4 DEF Stream
  <2> QED
    BY <1>2, <2>3, <2>5
<1>9. Good(t3, lim, a)
  BY <1>2, <1>6, <1>8 DEF Good, Reading
<1>10. Ends(t3) = Append(E, t.at + t.size)
  <2>1. t.size \in Int
    BY <1>4
  <2> QED
    BY <1>3, <1>5, <1>8, <2>1, EndsEntered
<1>11. r.s = t3 /\ r.err = "nil" /\ Spot(t3, a) = t.at
  BY <1>1, <1>8 DEF Result, Spot
<1> QED
  BY <1>1, <1>4, <1>8, <1>9, <1>10, <1>11 DEF Enters

LEMMA ListFacts ==
  ASSUME NEW lim \in Nat, NEW st, NEW m, Good(st, lim, m), NEW a, a = Spot(st, m),
         NEW r, r = List(st), NEW E, E = Ends(st)
  PROVE  /\ r.s \in Stream
         /\ r.err \in Refusals => Stays(st.in, E, lim, a, r)
         /\ r.err = "nil" => Enters(st.in, E, lim, a, r)
         /\ r.err \notin Refusals \cup {"nil"} => Fails(st.in, E, lim, a)
<1>1. PICK k : k = Kind(st)
  OBVIOUS
<1>2. r = IF k.err # "nil" THEN k
          ELSE IF k.s.kind # "List" THEN Result(k.s, "ExpectedList", 0)
          ELSE Result(Entered(k.s), "nil", k.s.size)
  BY <1>1 DEF List, Entered
<1>3. /\ k.s \in Stream /\ k.err \in ReadErrors \cup {"nil", "EOF", "EOL"}
      /\ k.err \in {"nil", "EOL"} => Stays(st.in, E, lim, a, k)
      /\ k.err = "nil" => k.s.kind # "none"
      /\ k.err \notin {"nil", "EOL"} => Fails(st.in, E, lim, a)
  BY <1>1, Looked
<1>4. CASE k.err # "nil"
  BY <1>2, <1>3, <1>4 DEF ReadErrors, Refusals
<1>5. CASE k.err = "nil"
  <2>1. Good(k.s, lim, a) /\ k.s.in = st.in /\ Ends(k.s) = E
    BY <1>3, <1>5 DEF Stays
  <2>2. CASE k.s.kind # "List"
    <3>1. r = Result(k.s, "ExpectedList", 0)
      BY <1>2, <1>5, <2>2
    <3>2. r.s = k.s /\ r.err = "ExpectedList" /\ Stays(st.in, E, lim, a, r)
      BY <1>3, <1>5, <3>1, Refused
    <3> QED
      BY <1>3, <3>2 DEF Refusals
  <2>3. CASE k.s.kind = "List"
    <3>1. r = Result(Entered(k.s), "nil", k.s.size)
      BY <1>2, <1>5, <2>3
    <3>2. r.s \in Stream /\ r.err = "nil" /\ Enters(st.in, E, lim, a, r)
      BY <2>1, <2>3, <3>1, EnterFacts
    <3> QED
      BY <3>2 DEF Refusals
  <2> QED
    BY <2>2, <2>3
<1> QED
  BY <1>4, <1>5

LEMMA FrontIsSeq ==
  ASSUME NEW S, NEW k \in Seq(S), Len(k) - 1 \in Nat
  PROVE  SubSeq(k, 1, Len(k) - 1) \in Seq(S)
OBVIOUS

\* What is popped is counted around it.
LEMMA PoppedFacts ==
  ASSUME NEW lim \in Nat, NEW st, Reading(st, lim), st.stack # <<>>, Room(st) = 0,
         NEW t, t = [Rearmed(Popped(st)) EXCEPT !.size = 0]
  PROVE  /\ t \in Stream /\ Reading(t, lim) /\ t.kind = "none" /\ t.in = st.in /\ t.at = st.at
         /\ Ends(t) = SubSeq(Ends(st), 1, Len(Ends(st)) - 1)
         /\ Ends(st) # <<>> /\ Ends(st)[Len(Ends(st))] = st.at
<1>1. st \in Stream /\ st.stack \in Seq([pos : Int, size : Int]) /\ Nested(st.stack)
  BY DEF Reading, Stream
<1>2. PICK k2 : k2 = SubSeq(st.stack, 1, Len(st.stack) - 1)
  OBVIOUS
<1>3. PICK rest : rest = [st EXCEPT !.stack = k2]
  OBVIOUS
<1>4. /\ Len(st.stack) \in 1 .. Len(st.stack) /\ Len(st.stack) \in Nat
      /\ Top(st) = st.stack[Len(st.stack)]
  BY <1>1, TopFacts
<1>5. k2 \in Seq([pos : Int, size : Int])
  <2>1. PICK k : k = st.stack
    OBVIOUS
  <2>2. k \in Seq([pos : Int, size : Int]) /\ Len(k) - 1 \in Nat /\ Len(k) - 1 <= Len(k)
    BY <1>1, <1>4, <2>1
  <2>3. SubSeq(k, 1, Len(k) - 1) \in Seq([pos : Int, size : Int])
    BY <2>2, FrontIsSeq
  <2> QED
    BY <1>2, <2>1, <2>3
<1>6. /\ rest \in Stream /\ rest.stack = k2 /\ rest.in = st.in /\ rest.at = st.at
      /\ rest.limited = st.limited /\ rest.remaining = st.remaining
      /\ rest.kinderr = st.kinderr
  BY <1>1, <1>3, <1>5 DEF Stream
<1>7. Top(st).size \in Nat
  <2>1. PICK e : e = st.stack[Len(st.stack)]
    OBVIOUS
  <2>2. e.pos >= 0 /\ e.pos <= e.size
    BY <1>1, <1>4, <2>1 DEF Nested
  <2>3. e.pos \in Int /\ e.size \in Int
    BY <1>1, <1>4, <2>1, StackFacts
  <2> QED
    BY <1>4, <2>1, <2>2, <2>3
<1>8. PICK n \in Nat : n = Top(st).size
  BY <1>7
<1>9. PICK c : c = Counted(rest, n)
  OBVIOUS
<1>10. Popped(st) = c
  BY <1>2, <1>3, <1>8, <1>9 DEF Popped
<1>11. c \in Stream /\ c = [rest EXCEPT !.stack = c.stack] /\ Counts(k2, c.stack, n)
  BY <1>6, <1>9, CountedFacts
<1>12. /\ c.in = st.in /\ c.at = st.at /\ c.limited = st.limited /\ c.remaining = st.remaining
       /\ c.kinderr = st.kinderr
  BY <1>6, <1>11 DEF Stream
<1>13. t = [c EXCEPT !.kind = "none", !.size = 0]
  BY <1>10, <1>11 DEF Rearmed, Stream
<1>14. /\ t \in Stream /\ t.kind = "none" /\ t.in = st.in /\ t.at = st.at /\ t.stack = c.stack
       /\ t.limited = st.limited /\ t.remaining = st.remaining /\ t.kinderr = st.kinderr
  <2>1. PICK u : u = [c EXCEPT !.kind = "none"]
    OBVIOUS
  <2>2. /\ u \in Stream /\ u.in = c.in /\ u.at = c.at /\ u.kind = "none" /\ u.stack = c.stack
        /\ u.limited = c.limited /\ u.remaining = c.remaining /\ u.kinderr = c.kinderr
    BY <1>11, <2>1 DEF Stream
  <2>3. t = [u EXCEPT !.size = 0]
    BY <1>13, <2>1
  <2>4. /\ t \in Stream /\ t.in = u.in /\ t.at = u.at /\ t.kind = u.kind /\ t.stack = u.stack
        /\ t.limited = u.limited /\ t.remaining = u.remaining /\ t.kinderr = u.kinderr
    <3>1. 0 \in Int
      OBVIOUS
    <3> QED
      BY <2>2, <2>3, <3>1 DEF Stream
  <2> QED
    BY <1>12, <2>2, <2>4
<1>15. Counts(k2, t.stack, Top(st).size) /\ t.stack \in Seq([pos : Int, size : Int])
  BY <1>8, <1>11, <1>14 DEF Stream
<1>16. Nested(t.stack)
  BY <1>1, <1>2, <1>4, <1>15, NestedLeft
<1>17. Reading(t, lim)
  BY <1>14, <1>16 DEF Reading
<1>18. /\ Ends(t) = SubSeq(Ends(st), 1, Len(Ends(st)) - 1)
       /\ Ends(st) # <<>> /\ Ends(st)[Len(Ends(st))] = st.at
  BY <1>1, <1>2, <1>14, <1>15, EndsLeft
<1> QED
  BY <1>14, <1>17, <1>18

LEMMA ListEndFacts ==
  ASSUME NEW lim \in Nat, NEW st, NEW m, Good(st, lim, m), NEW a, a = Spot(st, m),
         NEW r, r = ListEnd(st), NEW E, E = Ends(st)
  PROVE  /\ r.s \in Stream /\ r.err \in Refusals \cup {"nil"}
         /\ r.err \in Refusals => Stays(st.in, E, lim, a, r)
         /\ r.err = "nil" => Leaves(st.in, E, lim, a, r)
<1>0. Reading(st, lim) /\ st \in Stream /\ st.in \in Inputs
  BY DEF Good, Reading
<1>1. PICK t : t = [Rearmed(Popped(st)) EXCEPT !.size = 0]
  OBVIOUS
<1>2. r = IF st.stack = <<>> THEN Result(st, "NotInList", 0)
          ELSE IF Room(st) # 0 THEN Result(st, "NotAtEOL", 0) ELSE Result(t, "nil", 0)
  BY <1>1 DEF ListEnd
<1>3. Good(st, lim, a) /\ Spot(st, a) = a
  BY DEF Good, Spot
<1>4. CASE st.stack = <<>> \/ Room(st) # 0
  <2>1. r.s = st /\ r.err \in Refusals
    BY <1>2, <1>4 DEF Result, Refusals
  <2>2. r.err # "nil"
    BY <2>1 DEF Refusals
  <2> QED
    BY <1>0, <1>3, <2>1, <2>2 DEF Stays
<1>5. CASE st.stack # <<>> /\ Room(st) = 0
  <2>1. r.s = t /\ r.err = "nil"
    BY <1>2, <1>5 DEF Result
  <2>2. /\ t \in Stream /\ Reading(t, lim) /\ t.kind = "none" /\ t.in = st.in /\ t.at = st.at
        /\ Ends(t) = SubSeq(E, 1, Len(E) - 1) /\ E # <<>> /\ E[Len(E)] = st.at
    BY <1>0, <1>1, <1>5, PoppedFacts
  <2>3. Good(t, lim, a) /\ Spot(t, a) = st.at
    BY <1>0, <2>2 DEF Good, Spot
  <2>4. PICK b : b = Seen(st.in, lim)
    OBVIOUS
  <2>5. CASE st.kind = "none"
    <3>1. EndsHere(E, a)
      BY <2>2, <2>5 DEF EndsHere, Spot
    <3> QED
      BY <2>1, <2>2, <2>3, <3>1 DEF Leaves, Refusals
  <2>6. CASE st.kind # "none"
    <3>1. Known(st, lim, a)
      BY <1>3, <2>6 DEF Good
    <3>2. /\ st.size \in Nat /\ st.at \in Nat /\ FitsAt(b, E, lim, a)
          /\ EndAt(b, a) = st.at + st.size
          /\ st.size <= Room(st) /\ Cursor!Header(b, a).kind = st.kind
          /\ st.kind # "Byte" => Cursor!Header(b, a).size = st.size
      BY <1>0, <1>5, <2>4, <2>6, <3>1, KnownFacts
    <3>3. st.size = 0 /\ EndAt(b, a) = st.at
      BY <1>5, <3>2
    <3> QED
      BY <2>1, <2>2, <2>3, <2>4, <3>2, <3>3 DEF Leaves, Refusals
  <2> QED
    BY <2>5, <2>6
<1> QED
  BY <1>4, <1>5

-----------------------------------------------------------------------------
\* Whatever is read, and whether it is there or not, the input is the same.
SameIn(st, st2) == "in" \in DOMAIN st2 /\ st2.in = st.in

LEMMA ResultIs ==
  ASSUME NEW stream, NEW err, NEW v
  PROVE  Result(stream, err, v).s = stream
BY DEF Result

LEMMA ReadKeepsIn ==
  ASSUME NEW st, "in" \in DOMAIN st, NEW n
  PROVE  SameIn(st, Read(st, n).s) /\ SameIn(st, Rearmed(st))
<1>1. PICK s1, s2, w, r : /\ s1 = Rearmed(st) /\ s2 = Counted(s1, n) /\ w = WillRead(st, n)
                          /\ r = Read(st, n)
  OBVIOUS
<1>2. SameIn(st, s1)
  BY <1>1 DEF SameIn, Rearmed
<1>3. SameIn(st, s2)
  BY <1>1, <1>2 DEF SameIn, Counted
<1>4. SameIn(st, [s2 EXCEPT !.remaining = @ - n])
  BY <1>3 DEF SameIn
<1>5. SameIn(st, w.s)
  <2>1. \/ w = Result(s1, "ElemTooLarge", 0) \/ w = Result(s2, "ValueTooLarge", 0)
        \/ w = Result([s2 EXCEPT !.remaining = @ - n], "nil", 0) \/ w = Result(s2, "nil", 0)
    BY <1>1 DEF WillRead
  <2> QED
    BY <1>2, <1>3, <1>4, <2>1 DEF Result
<1>6. ASSUME NEW x PROVE SameIn(st, [w.s EXCEPT !.at = x])
  BY <1>5 DEF SameIn
<1>7. \/ r = w \/ r = Result([w.s EXCEPT !.at = Len(st.in)], "UnexpectedEOF", 0)
      \/ r = Result([w.s EXCEPT !.at = st.at + n], "nil", SubSeq(st.in, st.at + 1, st.at + n))
  BY <1>1 DEF Read
<1>8. SameIn(st, r.s)
  <2>1. CASE r = w
    BY <1>5, <2>1
  <2>2. ASSUME NEW x, NEW err, NEW v, r = Result([w.s EXCEPT !.at = x], err, v)
        PROVE  SameIn(st, r.s)
    <3>1. PICK y : y = [w.s EXCEPT !.at = x]
      OBVIOUS
    <3>2. SameIn(st, y) /\ r = Result(y, err, v)
      BY <1>6, <2>2, <3>1
    <3> QED
      BY <3>2, ResultIs
  <2> QED
    BY <1>7, <2>1, <2>2
<1> QED
  BY <1>1, <1>2, <1>8

LEMMA UintKeepsIn ==
  ASSUME NEW st, "in" \in DOMAIN st, NEW n
  PROVE  SameIn(st, ReadUint(st, n).s)
<1>1. PICK r, q : r = Read(st, n) /\ q = ReadUint(st, n)
  OBVIOUS
<1>2. SameIn(st, r.s) /\ SameIn(st, Rearmed(st))
  BY <1>1, ReadKeepsIn
<1>3. \/ q = Result(Rearmed(st), "nil", 0) \/ q = Result(r.s, r.err, 0)
      \/ q = Result(r.s, "CanonSize", 0) \/ q = Result(r.s, "nil", Value(r.v))
  BY <1>1 DEF ReadUint
<1> QED
  BY <1>1, <1>2, <1>3 DEF Result

LEMMA KindKeepsIn ==
  ASSUME NEW st, "in" \in DOMAIN st
  PROVE  SameIn(st, Kind(st).s)
<1>1. PICK r, q, k : r = Read(st, 1) /\ q = ReadKind(st) /\ k = Kind(st)
  OBVIOUS
<1>2. SameIn(st, r.s)
  BY <1>1, ReadKeepsIn
<1>3. ASSUME NEW kind, NEW n PROVE SameIn(st, LongHeader(r.s, kind, n).s)
  <2>1. LongHeader(r.s, kind, n).s = ReadUint(r.s, n).s
    BY DEF LongHeader, Result
  <2>2. SameIn(r.s, ReadUint(r.s, n).s)
    BY <1>2, UintKeepsIn DEF SameIn
  <2> QED
    BY <1>2, <2>1, <2>2 DEF SameIn
<1>4. (\E err, v : q = Result(r.s, err, v)) \/ (\E kind, n : q = LongHeader(r.s, kind, n))
  BY <1>1 DEF ReadKind
<1>5. SameIn(st, q.s)
  BY <1>2, <1>3, <1>4 DEF Result
<1>6. \/ \E err : k = Result(st, err, 0)
      \/ k = Result([st EXCEPT !.kinderr = "nil"], "EOL", 0)
      \/ \E err : k = Result([q.s EXCEPT !.kind = q.v.kind, !.size = q.v.size,
                                         !.byteval = q.v.byte, !.kinderr = err], err, 0)
  BY <1>1 DEF Kind
<1>7. SameIn(st, st) /\ SameIn(st, [st EXCEPT !.kinderr = "nil"])
  BY DEF SameIn
<1>8. ASSUME NEW err
      PROVE  SameIn(st, [q.s EXCEPT !.kind = q.v.kind, !.size = q.v.size,
                                    !.byteval = q.v.byte, !.kinderr = err])
  BY <1>5 DEF SameIn
<1>9. SameIn(st, k.s)
  <2>1. ASSUME NEW y, NEW err, SameIn(st, y), k = Result(y, err, 0)
        PROVE  SameIn(st, k.s)
    BY <2>1, ResultIs
  <2>2. CASE \E err : k = Result(st, err, 0)
    BY <1>7, <2>1, <2>2
  <2>3. CASE k = Result([st EXCEPT !.kinderr = "nil"], "EOL", 0)
    BY <1>7, <2>1, <2>3
  <2>4. CASE \E err : k = Result([q.s EXCEPT !.kind = q.v.kind, !.size = q.v.size,
                                              !.byteval = q.v.byte, !.kinderr = err], err, 0)
    BY <1>8, <2>1, <2>4
  <2> QED
    BY <1>6, <2>2, <2>3, <2>4
<1> QED
  BY <1>1, <1>9

LEMMA OperationsKeepIn ==
  ASSUME NEW st \in Stream, NEW max
  PROVE  /\ Kind(st).s.in = st.in /\ Bytes(st).s.in = st.in /\ Raw(st).s.in = st.in
         /\ Uint(st, max).s.in = st.in /\ List(st).s.in = st.in
<1>1. PICK k : k = Kind(st)
  OBVIOUS
<1>2. SameIn(st, k.s)
  <2>1. "in" \in DOMAIN st
    BY DEF Stream
  <2> QED
    BY <1>1, <2>1, KindKeepsIn
<1>3. PICK q, u : q = Read(k.s, k.s.size) /\ u = ReadUint(k.s, k.s.size)
  OBVIOUS
<1>4. SameIn(st, q.s) /\ SameIn(st, Rearmed(k.s)) /\ SameIn(st, u.s)
  <2>1. SameIn(k.s, q.s) /\ SameIn(k.s, Rearmed(k.s)) /\ SameIn(k.s, u.s)
    BY <1>2, <1>3, ReadKeepsIn, UintKeepsIn DEF SameIn
  <2> QED
    BY <1>2, <2>1 DEF SameIn
<1>5. TakeByte(k.s).s = Rearmed(k.s)
  BY DEF TakeByte, Result
<1>6. Bytes(st).s \in {k.s, q.s, Rearmed(k.s)}
  BY <1>1, <1>3, <1>5 DEF Bytes, Result
<1>7. Raw(st).s \in {k.s, q.s, Rearmed(k.s)}
  BY <1>1, <1>3, <1>5 DEF Raw, Result
<1>8. Uint(st, max).s \in {k.s, u.s, Rearmed(k.s)}
  BY <1>1, <1>3, <1>5 DEF Uint, Result
<1>9. List(st).s \in {k.s, Entered(k.s)}
  BY <1>1 DEF List, Result, Entered
<1>10. SameIn(st, Entered(k.s))
  BY <1>4 DEF SameIn, Entered
<1> QED
  BY <1>1, <1>2, <1>4, <1>6, <1>7, <1>8, <1>9, <1>10 DEF SameIn

-----------------------------------------------------------------------------
\* The cursor.
IInv ==
  /\ s \in Stream /\ limit \in Limits /\ failed \in BOOLEAN
  /\ ~failed => Good(s, limit, mark)

LEMMA CursorSees ==
  ASSUME failed = FALSE, NEW a, a = Spot(s, mark), NEW E, E = Ends(s),
         NEW b, b = Seen(s.in, limit)
  PROVE  /\ Cursor!Visible = b /\ Cursor!Value = Cursor!Header(b, a)
         /\ Cursor!End = EndAt(b, a) /\ Cursor!Content = ContentAt(b, a)
         /\ Cursor!Fits <=> FitsAt(b, E, limit, a)
         /\ Cursor!Whole <=> WholeAt(b, E, limit, a)
         /\ Cursor!NotShortest <=> NotShortestAt(b, a)
         /\ Cursor!AtEnd <=> EndsHere(E, a)
<1>1. (IF failed THEN 0 ELSE IF s.kind = "none" THEN s.at ELSE mark) = a
  BY DEF Spot
<1>2. (IF failed THEN <<>> ELSE Ends(s)) = E
  OBVIOUS
<1>3. Cursor!Visible = b
  BY DEF Cursor!Visible, Seen
<1>4. Cursor!Value = Cursor!Header(b, a)
  BY <1>1, <1>3 DEF Cursor!Value
<1>5. Cursor!End = EndAt(b, a)
  BY <1>4 DEF Cursor!End, EndAt
<1>6. Cursor!Content = ContentAt(b, a)
  BY <1>3, <1>4, <1>5 DEF Cursor!Content, ContentAt
<1>7. Cursor!Fits <=> FitsAt(b, E, limit, a)
  BY <1>1, <1>2, <1>3, <1>5 DEF Cursor!Fits, FitsAt, Cursor!Within
<1>8. Cursor!Whole <=> WholeAt(b, E, limit, a)
  BY <1>3, <1>5, <1>7 DEF Cursor!Whole, WholeAt
<1>9. Cursor!NotShortest <=> NotShortestAt(b, a)
  BY <1>4, <1>6 DEF Cursor!NotShortest, NotShortestAt
<1>10. Cursor!AtEnd <=> EndsHere(E, a)
  BY <1>1, <1>2 DEF Cursor!AtEnd, EndsHere
<1> QED
  BY <1>3, <1>4, <1>5, <1>6, <1>7, <1>8, <1>9, <1>10

LEMMA CursorMoves ==
  ASSUME IInv, NEW r, Operation(r), r.s \in Stream, NEW a, a = Spot(s, mark)
  PROVE  /\ failed = FALSE /\ Good(s, limit, mark)
         /\ s' = r.s /\ mark' = a /\ limit' = limit
         /\ failed' = (r.err \notin Refusals \cup {"nil"})
         /\ (r.err \in Refusals \cup {"nil"} => Good(r.s, limit, a)) => IInv'
<1>1. failed = FALSE /\ Good(s, limit, mark) /\ limit \in Limits
  BY DEF IInv, Operation
<1>2. /\ s' = r.s /\ mark' = a /\ limit' = limit
      /\ failed' = (r.err \notin Refusals \cup {"nil"})
  BY DEF Operation, Spot
<1>3. failed' \in BOOLEAN
  BY <1>2
<1>4. ~failed' => r.err \in Refusals \cup {"nil"}
  BY <1>2
<1>5. ASSUME r.err \in Refusals \cup {"nil"} => Good(r.s, limit, a) PROVE IInv'
  <2>1. ~failed' => Good(s', limit', mark')
    BY <1>2, <1>4, <1>5
  <2> QED
    BY <1>1, <1>2, <1>3, <2>1 DEF IInv
<1> QED
  BY <1>1, <1>2, <1>5

\* Each way of an operation is a step of the cursor, or none.
LEMMA StaysMaps ==
  ASSUME IInv, NEW r, Operation(r), r.s \in Stream, r.err \in Refusals \cup {"nil"},
         Stays(s.in, Ends(s), limit, Spot(s, mark), r), got' = got
  PROVE  IInv' /\ UNCHANGED Cursor!vars
<1>1. PICK a : a = Spot(s, mark)
  OBVIOUS
<1>2. Good(r.s, limit, a) /\ r.s.in = s.in /\ Ends(r.s) = Ends(s) /\ Spot(r.s, a) = a
  BY <1>1 DEF Stays
<1>3. /\ failed = FALSE /\ s' = r.s /\ mark' = a /\ limit' = limit
      /\ failed' = (r.err \notin Refusals \cup {"nil"}) /\ IInv'
  BY <1>1, <1>2, CursorMoves
<1>4. failed' = FALSE
  BY <1>3
<1>5. s'.in = s.in /\ Ends(s') = Ends(s)
  BY <1>2, <1>3
<1>6. (IF s.kind = "none" THEN s.at ELSE mark) = a
  BY <1>1 DEF Spot
<1>7. (IF s'.kind = "none" THEN s'.at ELSE mark') = a
  BY <1>2, <1>3 DEF Spot
<1> QED
  BY <1>3, <1>4, <1>5, <1>6, <1>7 DEF Cursor!vars

LEMMA PassesMaps ==
  ASSUME IInv, NEW r, Operation(r), r.s \in Stream, r.err = "nil",
         Passes(s.in, Ends(s), limit, Spot(s, mark), r),
         NEW a, a = Spot(s, mark), NEW b, b = Seen(s.in, limit)
  PROVE  /\ IInv' /\ failed = FALSE /\ failed' = FALSE /\ limit' = limit /\ s'.in = s.in
         /\ Cursor!Open /\ Cursor!Whole
         /\ (IF failed' THEN 0 ELSE IF s'.kind = "none" THEN s'.at ELSE mark') = EndAt(b, a)
         /\ (IF failed' THEN <<>> ELSE Ends(s')) = (IF failed THEN <<>> ELSE Ends(s))
<1>2. /\ Good(r.s, limit, a) /\ r.s.in = s.in /\ Ends(r.s) = Ends(s)
      /\ Spot(r.s, a) = EndAt(b, a) /\ WholeAt(b, Ends(s), limit, a)
  BY DEF Passes
<1>3. /\ failed = FALSE /\ s' = r.s /\ mark' = a /\ limit' = limit
      /\ failed' = (r.err \notin Refusals \cup {"nil"}) /\ IInv'
  BY <1>2, CursorMoves
<1>4. failed' = FALSE
  BY <1>3
<1>5. s'.in = s.in /\ Ends(s') = Ends(s)
  BY <1>2, <1>3
<1>6. (IF s'.kind = "none" THEN s'.at ELSE mark') = EndAt(b, a)
  BY <1>2, <1>3 DEF Spot
<1>7. Cursor!Open
  BY <1>3, <1>4, <1>5 DEF Cursor!Open
<1>8. Cursor!Whole
  BY <1>2, <1>3, CursorSees
<1> QED
  BY <1>3, <1>4, <1>5, <1>6, <1>7, <1>8

LEMMA TakesMaps ==
  ASSUME IInv, NEW r, Operation(r), r.s \in Stream, r.err = "nil",
         Takes(s.in, Ends(s), limit, Spot(s, mark), r), got' = r.v
  PROVE  IInv' /\ Cursor!Take
<1>1. PICK a, b : a = Spot(s, mark) /\ b = Seen(s.in, limit)
  OBVIOUS
<1>2. /\ Passes(s.in, Ends(s), limit, Spot(s, mark), r)
      /\ Cursor!Header(b, a).kind # "List" /\ ~NotShortestAt(b, a) /\ r.v = ContentAt(b, a)
  BY <1>1 DEF Takes
<1>3. /\ IInv' /\ failed = FALSE /\ failed' = FALSE /\ Cursor!Open /\ Cursor!Whole
      /\ (IF failed' THEN 0 ELSE IF s'.kind = "none" THEN s'.at ELSE mark') = EndAt(b, a)
      /\ (IF failed' THEN <<>> ELSE Ends(s')) = (IF failed THEN <<>> ELSE Ends(s))
  BY <1>1, <1>2, PassesMaps
<1>4. /\ Cursor!Value = Cursor!Header(b, a) /\ Cursor!End = EndAt(b, a)
      /\ Cursor!Content = ContentAt(b, a) /\ (Cursor!NotShortest <=> NotShortestAt(b, a))
  BY <1>1, <1>3, CursorSees
<1>5. Cursor!Value.kind # "List" /\ ~Cursor!NotShortest /\ got' = Cursor!Content
  BY <1>2, <1>4
<1> QED
  BY <1>3, <1>4, <1>5 DEF Cursor!Take

LEMMA TakesRawMaps ==
  ASSUME IInv, NEW r, Operation(r), r.s \in Stream, r.err = "nil",
         TakesRaw(s.in, Ends(s), limit, Spot(s, mark), r), got' = r.v
  PROVE  IInv' /\ Cursor!TakeRaw
<1>1. PICK a, b : a = Spot(s, mark) /\ b = Seen(s.in, limit)
  OBVIOUS
<1>2. /\ Passes(s.in, Ends(s), limit, Spot(s, mark), r)
      /\ r.v = SubSeq(b, a + 1, EndAt(b, a))
  BY <1>1 DEF TakesRaw
<1>3. /\ IInv' /\ failed = FALSE /\ failed' = FALSE /\ Cursor!Open /\ Cursor!Whole
      /\ (IF failed' THEN 0 ELSE IF s'.kind = "none" THEN s'.at ELSE mark') = EndAt(b, a)
      /\ (IF failed' THEN <<>> ELSE Ends(s')) = (IF failed THEN <<>> ELSE Ends(s))
  BY <1>1, <1>2, PassesMaps
<1>4. Cursor!Visible = b /\ Cursor!End = EndAt(b, a)
  BY <1>1, <1>3, CursorSees
<1>5. (IF failed THEN 0 ELSE IF s.kind = "none" THEN s.at ELSE mark) = a
  BY <1>1, <1>3 DEF Spot
<1> QED
  BY <1>2, <1>3, <1>4, <1>5 DEF Cursor!TakeRaw

LEMMA EntersMaps ==
  ASSUME IInv, NEW r, Operation(r), r.s \in Stream, r.err = "nil",
         Enters(s.in, Ends(s), limit, Spot(s, mark), r), got' = got
  PROVE  IInv' /\ Cursor!Enter
<1>1. PICK a, b : a = Spot(s, mark) /\ b = Seen(s.in, limit)
  OBVIOUS
<1>2. /\ Good(r.s, limit, a) /\ r.s.in = s.in
      /\ FitsAt(b, Ends(s), limit, a) /\ Cursor!Header(b, a).kind = "List"
      /\ Ends(r.s) = Append(Ends(s), EndAt(b, a)) /\ Spot(r.s, a) = Cursor!Header(b, a).from
  BY <1>1 DEF Enters
<1>3. /\ failed = FALSE /\ s' = r.s /\ mark' = a /\ limit' = limit
      /\ failed' = (r.err \notin Refusals \cup {"nil"}) /\ IInv'
  BY <1>1, <1>2, CursorMoves
<1>4. failed' = FALSE
  BY <1>3
<1>5. s'.in = s.in /\ Ends(s') = Append(Ends(s), EndAt(b, a))
  BY <1>2, <1>3
<1>6. (IF s'.kind = "none" THEN s'.at ELSE mark') = Cursor!Header(b, a).from
  BY <1>2, <1>3 DEF Spot
<1>7. Cursor!Open
  BY <1>3, <1>4, <1>5 DEF Cursor!Open
<1>8. /\ Cursor!Value = Cursor!Header(b, a) /\ Cursor!End = EndAt(b, a)
      /\ (Cursor!Fits <=> FitsAt(b, Ends(s), limit, a))
  BY <1>1, <1>3, CursorSees
<1> QED
  BY <1>2, <1>3, <1>4, <1>5, <1>6, <1>7, <1>8 DEF Cursor!Enter

LEMMA LeavesMaps ==
  ASSUME IInv, NEW r, Operation(r), r.s \in Stream, r.err = "nil", r.s.in = s.in,
         Leaves(s.in, Ends(s), limit, Spot(s, mark), r), got' = got
  PROVE  IInv' /\ Cursor!Leave
<1>1. PICK a, b, E : a = Spot(s, mark) /\ b = Seen(s.in, limit) /\ E = Ends(s)
  OBVIOUS
<1>2. /\ Good(r.s, limit, a) /\ r.s.in = s.in /\ E # <<>>
      /\ \/ EndsHere(E, a)
         \/ /\ FitsAt(b, E, limit, a) /\ EndAt(b, a) = E[Len(E)]
            /\ Cursor!Header(b, a).kind = "Byte" \/ Cursor!Header(b, a).size = 0
      /\ Spot(r.s, a) = E[Len(E)] /\ Ends(r.s) = SubSeq(E, 1, Len(E) - 1)
  BY <1>1 DEF Leaves
<1>3. /\ failed = FALSE /\ s' = r.s /\ mark' = a /\ limit' = limit
      /\ failed' = (r.err \notin Refusals \cup {"nil"}) /\ IInv'
  BY <1>1, <1>2, CursorMoves
<1>4. failed' = FALSE
  BY <1>3
<1>5. s'.in = s.in /\ Ends(s') = SubSeq(E, 1, Len(E) - 1)
  BY <1>2, <1>3
<1>6. (IF s'.kind = "none" THEN s'.at ELSE mark') = E[Len(E)]
  BY <1>2, <1>3 DEF Spot
<1>7. Cursor!Open
  BY <1>3, <1>4, <1>5 DEF Cursor!Open
<1>8. /\ Cursor!Value = Cursor!Header(b, a) /\ Cursor!End = EndAt(b, a)
      /\ (Cursor!Fits <=> FitsAt(b, E, limit, a)) /\ (Cursor!AtEnd <=> EndsHere(E, a))
  BY <1>1, <1>3, CursorSees
<1>9. (IF failed THEN <<>> ELSE Ends(s)) = E
  BY <1>1, <1>3
<1>10. Cursor!AtEnd \/ Cursor!AtTrifle
  BY <1>2, <1>8, <1>9 DEF Cursor!AtTrifle
<1> QED
  BY <1>3, <1>4, <1>5, <1>6, <1>7, <1>9, <1>10 DEF Cursor!Leave

LEMMA FailsMaps ==
  ASSUME IInv, NEW r, Operation(r), r.s \in Stream, r.err \notin Refusals \cup {"nil"},
         r.s.in = s.in, Fails(s.in, Ends(s), limit, Spot(s, mark)), got' = got
  PROVE  IInv' /\ Cursor!Fail
<1>1. PICK a, b, E : a = Spot(s, mark) /\ b = Seen(s.in, limit) /\ E = Ends(s)
  OBVIOUS
<1>2. /\ ~EndsHere(E, a)
      /\ ~WholeAt(b, E, limit, a) \/ NotShortestAt(b, a) \/ LeadingZeroAt(b, a)
  BY <1>1 DEF Fails
<1>3. /\ failed = FALSE /\ s' = r.s /\ mark' = a /\ limit' = limit
      /\ failed' = (r.err \notin Refusals \cup {"nil"}) /\ IInv'
  BY <1>1, CursorMoves
<1>4. failed' = TRUE
  BY <1>3
<1>5. s'.in = s.in
  BY <1>3
<1>6. /\ Cursor!Value = Cursor!Header(b, a) /\ Cursor!Content = ContentAt(b, a)
      /\ (Cursor!Whole <=> WholeAt(b, E, limit, a)) /\ (Cursor!AtEnd <=> EndsHere(E, a))
      /\ (Cursor!NotShortest <=> NotShortestAt(b, a))
  BY <1>1, <1>3, CursorSees
<1>7. LeadingZeroAt(b, a)
        <=> Cursor!Value.kind = "String" /\ Cursor!Value.size > 1 /\ Cursor!Content[1] = 0
  BY <1>6 DEF LeadingZeroAt
<1> QED
  BY <1>2, <1>3, <1>4, <1>5, <1>6, <1>7 DEF Cursor!Fail

-----------------------------------------------------------------------------
\* A stream that is new, or used again, is before the first value.
LEMMA FreshFacts ==
  ASSUME NEW st \in Stream, NEW in \in Inputs, NEW lim \in Limits, NEW m,
         NEW t, t = Fresh(st, in, lim)
  PROVE  /\ t \in Stream /\ Good(t, lim, m) /\ t.in = in /\ t.at = 0 /\ t.kind = "none"
         /\ Ends(t) = <<>>
<1>0. lim \in Nat /\ in \in Seq(Byte) /\ Len(in) \in Nat
  BY LayoutAssumption DEF Byte
<1>1. PICK rem : rem = IF lim > 0 THEN lim ELSE st.remaining
  OBVIOUS
<1>2. rem \in Int /\ (lim > 0) \in BOOLEAN /\ "nil" \in Errors /\ 0 \in Int /\ 0 \in Nat
  BY <1>0, <1>1 DEF Stream, Errors
<1>3. t = [in |-> in, at |-> 0, limited |-> (lim > 0), remaining |-> rem, stack |-> <<>>,
           kind |-> "none", size |-> 0, byteval |-> 0, kinderr |-> "nil"]
  BY <1>1 DEF Fresh, Stream
<1>4. <<>> \in Seq([pos : Int, size : Int])
  OBVIOUS
<1>5. t \in Stream
  BY <1>0, <1>2, <1>3, <1>4 DEF Stream
<1>6. /\ t.in = in /\ t.at = 0 /\ t.limited = (lim > 0) /\ t.remaining = rem /\ t.stack = <<>>
      /\ t.kind = "none" /\ t.kinderr = "nil"
  BY <1>3
<1>7. Nested(t.stack)
  BY <1>6 DEF Nested
<1>8. t.limited => t.remaining = lim - t.at /\ t.at <= lim
  <2>1. CASE lim > 0
    <3>1. rem = lim /\ lim = lim - 0 /\ 0 <= lim
      BY <1>0, <1>1, <2>1
    <3> QED
      BY <1>6, <3>1
  <2>2. CASE ~(lim > 0)
    BY <1>6, <2>2
  <2> QED
    BY <2>1, <2>2
<1>9. Reading(t, lim)
  BY <1>0, <1>5, <1>6, <1>7, <1>8 DEF Reading
<1>10. Ends(t) = <<>>
  <2>1. Ends(t) \in Seq(Int) /\ Len(Ends(t)) = 0
    BY <1>5, <1>6, EndsIs DEF IsEnds
  <2> QED
    BY <2>1, EmptySeq
<1> QED
  BY <1>5, <1>6, <1>9, <1>10 DEF Good

LEMMA NewIsStream ==
  New \in Stream
<1>1. "nil" \in Errors /\ 0 \in Int /\ 0 \in Nat /\ FALSE \in BOOLEAN
  BY DEF Errors
<1>2. <<>> \in Seq(Byte) /\ <<>> \in Seq([pos : Int, size : Int])
  OBVIOUS
<1> QED
  BY <1>1, <1>2 DEF New, Stream

LEMMA InitMaps ==
  ASSUME Init
  PROVE  IInv /\ Cursor!Init
<1>1. PICK in \in Inputs, lim \in Limits :
        /\ s = Fresh(New, in, lim) /\ limit = lim
        /\ got = <<>> /\ mark = 0 /\ failed = FALSE
  BY DEF Init
<1>2. /\ s \in Stream /\ Good(s, lim, mark) /\ s.in = in /\ s.at = 0 /\ s.kind = "none"
      /\ Ends(s) = <<>>
  BY <1>1, FreshFacts, NewIsStream
<1>3. IInv
  BY <1>1, <1>2 DEF IInv
<1> QED
  BY <1>1, <1>2, <1>3 DEF Cursor!Init

LEMMA ResetMaps ==
  ASSUME IInv, Reset
  PROVE  IInv' /\ Cursor!Reset
<1>1. PICK in \in Again, lim \in Limits :
        /\ s' = Fresh(s, in, lim) /\ limit' = lim
        /\ got' = <<>> /\ mark' = 0 /\ failed' = FALSE
  BY DEF Reset
<1>2. in \in Inputs /\ s \in Stream
  BY LayoutAssumption DEF IInv
<1>3. /\ s' \in Stream /\ Good(s', lim, 0) /\ s'.in = in /\ s'.at = 0 /\ s'.kind = "none"
      /\ Ends(s') = <<>>
  BY <1>1, <1>2, FreshFacts
<1>4. IInv'
  BY <1>1, <1>3 DEF IInv
<1> QED
  BY <1>1, <1>3, <1>4 DEF Cursor!Reset

-----------------------------------------------------------------------------
\* The operations.
LEMMA OpFacts ==
  ASSUME IInv, ~failed
  PROVE  limit \in Nat /\ s \in Stream /\ Good(s, limit, mark)
BY LayoutAssumption DEF IInv

LEMMA KindMaps ==
  ASSUME IInv, CallKind
  PROVE  IInv' /\ [Cursor!Next]_(Cursor!vars)
<1>1. PICK r : r = Kind(s)
  OBVIOUS
<1>2. Operation(r) /\ ~failed /\ got' = got
  BY <1>1 DEF CallKind, Operation
<1>3. limit \in Nat /\ s \in Stream /\ Good(s, limit, mark)
  BY <1>2, OpFacts
<1>4. /\ r.s \in Stream /\ r.err \in ReadErrors \cup {"nil", "EOF", "EOL"}
      /\ r.err \in {"nil", "EOL"} => Stays(s.in, Ends(s), limit, Spot(s, mark), r)
      /\ r.err \notin {"nil", "EOL"} => Fails(s.in, Ends(s), limit, Spot(s, mark))
  BY <1>1, <1>3, Looked
<1>5. r.s.in = s.in
  BY <1>1, <1>3, OperationsKeepIn
<1>6. CASE r.err \in {"nil", "EOL"}
  <2>1. r.err \in Refusals \cup {"nil"}
    BY <1>6 DEF Refusals
  <2> QED
    BY <1>2, <1>4, <1>6, <2>1, StaysMaps
<1>7. CASE r.err \notin {"nil", "EOL"}
  <2>1. r.err \notin Refusals \cup {"nil"}
    BY <1>4, <1>7 DEF Refusals, ReadErrors
  <2>2. IInv' /\ Cursor!Fail
    BY <1>2, <1>4, <1>5, <1>7, <2>1, FailsMaps
  <2> QED
    BY <2>2 DEF Cursor!Next
<1> QED
  BY <1>6, <1>7

LEMMA BytesMaps ==
  ASSUME IInv, CallBytes
  PROVE  IInv' /\ [Cursor!Next]_(Cursor!vars)
<1>1. PICK r : r = Bytes(s)
  OBVIOUS
<1>2. Operation(r) /\ ~failed /\ got' = IF r.err = "nil" THEN r.v ELSE got
  BY <1>1 DEF CallBytes, Operation, Returns
<1>3. limit \in Nat /\ s \in Stream /\ Good(s, limit, mark)
  BY <1>2, OpFacts
<1>4. /\ r.s \in Stream
      /\ r.err \in Refusals => Stays(s.in, Ends(s), limit, Spot(s, mark), r)
      /\ r.err = "nil" => Takes(s.in, Ends(s), limit, Spot(s, mark), r)
      /\ r.err \notin Refusals \cup {"nil"} => Fails(s.in, Ends(s), limit, Spot(s, mark))
  BY <1>1, <1>3, BytesFacts
<1>5. r.s.in = s.in
  BY <1>1, <1>3, OperationsKeepIn
<1>6. "nil" \notin Refusals
  BY DEF Refusals
<1>7. CASE r.err \in Refusals
  BY <1>2, <1>4, <1>6, <1>7, StaysMaps
<1>8. CASE r.err = "nil"
  <2>1. IInv' /\ Cursor!Take
    BY <1>2, <1>4, <1>8, TakesMaps
  <2> QED
    BY <2>1 DEF Cursor!Next
<1>9. CASE r.err \notin Refusals \cup {"nil"}
  <2>1. IInv' /\ Cursor!Fail
    BY <1>2, <1>4, <1>5, <1>9, FailsMaps
  <2> QED
    BY <2>1 DEF Cursor!Next
<1> QED
  BY <1>7, <1>8, <1>9

LEMMA RawMaps ==
  ASSUME IInv, CallRaw
  PROVE  IInv' /\ [Cursor!Next]_(Cursor!vars)
<1>1. PICK r : r = Raw(s)
  OBVIOUS
<1>2. Operation(r) /\ ~failed /\ got' = IF r.err = "nil" THEN r.v ELSE got
  BY <1>1 DEF CallRaw, Operation, Returns
<1>3. limit \in Nat /\ s \in Stream /\ Good(s, limit, mark)
  BY <1>2, OpFacts
<1>4. /\ r.s \in Stream
      /\ r.err \in Refusals => Stays(s.in, Ends(s), limit, Spot(s, mark), r)
      /\ r.err = "nil" => TakesRaw(s.in, Ends(s), limit, Spot(s, mark), r)
      /\ r.err \notin Refusals \cup {"nil"} => Fails(s.in, Ends(s), limit, Spot(s, mark))
  BY <1>1, <1>3, RawFacts
<1>5. r.s.in = s.in
  BY <1>1, <1>3, OperationsKeepIn
<1>6. "nil" \notin Refusals
  BY DEF Refusals
<1>7. CASE r.err \in Refusals
  BY <1>2, <1>4, <1>6, <1>7, StaysMaps
<1>8. CASE r.err = "nil"
  <2>1. IInv' /\ Cursor!TakeRaw
    BY <1>2, <1>4, <1>8, TakesRawMaps
  <2> QED
    BY <2>1 DEF Cursor!Next
<1>9. CASE r.err \notin Refusals \cup {"nil"}
  <2>1. IInv' /\ Cursor!Fail
    BY <1>2, <1>4, <1>5, <1>9, FailsMaps
  <2> QED
    BY <2>1 DEF Cursor!Next
<1> QED
  BY <1>7, <1>8, <1>9

LEMMA UintMaps ==
  ASSUME IInv, CallUint
  PROVE  IInv' /\ [Cursor!Next]_(Cursor!vars)
<1>0. PICK max \in MaxUint : Operation(Uint(s, max)) /\ Returns(Uint(s, max))
  BY DEF CallUint
<1>1. PICK r : r = Uint(s, max)
  OBVIOUS
<1>2. Operation(r) /\ ~failed /\ got' = IF r.err = "nil" THEN r.v ELSE got
  BY <1>0, <1>1 DEF Operation, Returns
<1>3. limit \in Nat /\ s \in Stream /\ Good(s, limit, mark)
  BY <1>2, OpFacts
<1>4. /\ r.s \in Stream
      /\ r.err \in Refusals => Stays(s.in, Ends(s), limit, Spot(s, mark), r)
      /\ r.err = "nil" => Takes(s.in, Ends(s), limit, Spot(s, mark), r)
      /\ r.err \notin Refusals \cup {"nil"} => Fails(s.in, Ends(s), limit, Spot(s, mark))
  BY <1>1, <1>3, UintOpFacts
<1>5. r.s.in = s.in
  BY <1>1, <1>3, OperationsKeepIn
<1>6. "nil" \notin Refusals
  BY DEF Refusals
<1>7. CASE r.err \in Refusals
  BY <1>2, <1>4, <1>6, <1>7, StaysMaps
<1>8. CASE r.err = "nil"
  <2>1. IInv' /\ Cursor!Take
    BY <1>2, <1>4, <1>8, TakesMaps
  <2> QED
    BY <2>1 DEF Cursor!Next
<1>9. CASE r.err \notin Refusals \cup {"nil"}
  <2>1. IInv' /\ Cursor!Fail
    BY <1>2, <1>4, <1>5, <1>9, FailsMaps
  <2> QED
    BY <2>1 DEF Cursor!Next
<1> QED
  BY <1>7, <1>8, <1>9

LEMMA ListMaps ==
  ASSUME IInv, CallList
  PROVE  IInv' /\ [Cursor!Next]_(Cursor!vars)
<1>1. PICK r : r = List(s)
  OBVIOUS
<1>2. Operation(r) /\ ~failed /\ got' = got
  BY <1>1 DEF CallList, Operation
<1>3. limit \in Nat /\ s \in Stream /\ Good(s, limit, mark)
  BY <1>2, OpFacts
<1>4. /\ r.s \in Stream
      /\ r.err \in Refusals => Stays(s.in, Ends(s), limit, Spot(s, mark), r)
      /\ r.err = "nil" => Enters(s.in, Ends(s), limit, Spot(s, mark), r)
      /\ r.err \notin Refusals \cup {"nil"} => Fails(s.in, Ends(s), limit, Spot(s, mark))
  BY <1>1, <1>3, ListFacts
<1>5. r.s.in = s.in
  BY <1>1, <1>3, OperationsKeepIn
<1>7. CASE r.err \in Refusals
  BY <1>2, <1>4, <1>7, StaysMaps
<1>8. CASE r.err = "nil"
  <2>1. IInv' /\ Cursor!Enter
    BY <1>2, <1>4, <1>8, EntersMaps
  <2> QED
    BY <2>1 DEF Cursor!Next
<1>9. CASE r.err \notin Refusals \cup {"nil"}
  <2>1. IInv' /\ Cursor!Fail
    BY <1>2, <1>4, <1>5, <1>9, FailsMaps
  <2> QED
    BY <2>1 DEF Cursor!Next
<1> QED
  BY <1>7, <1>8, <1>9

LEMMA ListEndMaps ==
  ASSUME IInv, CallListEnd
  PROVE  IInv' /\ [Cursor!Next]_(Cursor!vars)
<1>1. PICK r : r = ListEnd(s)
  OBVIOUS
<1>2. Operation(r) /\ ~failed /\ got' = got
  BY <1>1 DEF CallListEnd, Operation
<1>3. limit \in Nat /\ s \in Stream /\ Good(s, limit, mark)
  BY <1>2, OpFacts
<1>4. /\ r.s \in Stream /\ r.err \in Refusals \cup {"nil"}
      /\ r.err \in Refusals => Stays(s.in, Ends(s), limit, Spot(s, mark), r)
      /\ r.err = "nil" => Leaves(s.in, Ends(s), limit, Spot(s, mark), r)
  BY <1>1, <1>3, ListEndFacts
<1>7. CASE r.err \in Refusals
  BY <1>2, <1>4, <1>7, StaysMaps
<1>8. CASE r.err = "nil"
  <2>1. r.s.in = s.in
    BY <1>4, <1>8 DEF Leaves
  <2>2. IInv' /\ Cursor!Leave
    BY <1>2, <1>4, <1>8, <2>1, LeavesMaps
  <2> QED
    BY <2>2 DEF Cursor!Next
<1> QED
  BY <1>4, <1>7, <1>8

LEMMA StepMaps ==
  ASSUME IInv, [Next]_vars
  PROVE  IInv' /\ [Cursor!Next]_(Cursor!vars)
<1>1. CASE CallKind
  BY <1>1, KindMaps
<1>2. CASE CallBytes
  BY <1>2, BytesMaps
<1>3. CASE CallRaw
  BY <1>3, RawMaps
<1>4. CASE CallUint
  BY <1>4, UintMaps
<1>5. CASE CallList
  BY <1>5, ListMaps
<1>6. CASE CallListEnd
  BY <1>6, ListEndMaps
<1>7. CASE Reset
  <2>1. IInv' /\ Cursor!Reset
    BY <1>7, ResetMaps
  <2> QED
    BY <2>1 DEF Cursor!Next
<1>8. CASE UNCHANGED vars
  <2>1. s' = s /\ limit' = limit /\ got' = got /\ mark' = mark /\ failed' = failed
    BY <1>8 DEF vars
  <2>2. IInv'
    BY <2>1 DEF IInv
  <2>3. UNCHANGED Cursor!vars
    BY <2>1 DEF Cursor!vars
  <2> QED
    BY <2>2, <2>3
<1> QED
  BY <1>1, <1>2, <1>3, <1>4, <1>5, <1>6, <1>7, <1>8 DEF Next

\* What is counted of the lists and of the limit is what the reader has taken, and
\* the header that Kind keeps is the one that stands at mark (decode.go:556-1052).
THEOREM CountsAreKept == Spec => []IInv
<1>1. Init => IInv
  BY InitMaps
<1>2. IInv /\ [Next]_vars => IInv'
  BY StepMaps
<1> QED
  BY <1>1, <1>2, PTL DEF Spec

\* A Stream, with the counts of its lists and the header it has looked at, is a cursor
\* over its input: Kind, Bytes, Raw, uint, List and ListEnd take, enter, leave or fail
\* where RLPCursor allows it, and nowhere else (doc.go, decode.go:526-1052).
THEOREM StreamIsCursor == Spec => RefinesCursor
<1>1. Init => Cursor!Init
  BY InitMaps
<1>2. IInv /\ [Next]_vars => [Cursor!Next]_(Cursor!vars)
  BY StepMaps
<1> QED
  BY <1>1, <1>2, CountsAreKept, PTL DEF Spec, RefinesCursor, Cursor!Spec
==============================================================================
