------------------------------- MODULE FieldVal -------------------------------
(***************************************************************************)
(* crypto/ecdsa/ecdsa_field.go: numbers modulo the prime                   *)
(* 2^Bits - C1 * 2^Base - C0, in Words limbs of Base bits, the last of     *)
(* TopBits, kept in machine words of WordBits so that sums and multiples   *)
(* need no carries (there: 10 limbs of 26 and 22 bits in words of 32, with *)
(* C1 = 64 and C0 = 977).  A value is a sequence of limbs, the least       *)
(* significant first; its magnitude says how far its limbs may exceed      *)
(* those of a normal value.                                                *)
(***************************************************************************)
EXTENDS Integers, Sequences, SequencesExt

CONSTANTS Words, Base, TopBits, WordBits, C0, C1,
          MaxMagnitude, \* of the operands of a product (there: 8)
          Edges       \* limbs, in units of the largest normal one, that values are built from

Limbs == 1 .. Words
Low == 2 ^ Base
Top == 2 ^ TopBits
Word == 2 ^ WordBits
Bits == Base * (Words - 1) + TopBits
Prime == 2 ^ Bits - C1 * Low - C0
LowPrime == Low * Low - C1 * Low - C0
\* The limbs above the prime's bits weigh 2^(Base * Words), this often 2^Bits.
Above == 2 ^ (Base - TopBits)

SizeOf(i) == IF i = Words THEN Top ELSE Low
Mask(i) == SizeOf(i) - 1
PrimeWord(i) == CASE i = 1 -> Low - C0 [] i = 2 -> Low - 1 - C1 [] OTHER -> Mask(i)
Sum(ns) == FoldLeft(+, 0, ns)
Value(f) == Sum([i \in Limbs |-> f[i] * 2 ^ (Base * (i - 1))])

SetBytes(v) == [i \in Limbs |-> (v \div 2 ^ (Base * (i - 1))) % SizeOf(i)]
PutBytes(f) == Value([i \in Limbs |-> f[i] % SizeOf(i)])
SetInt(n) == [i \in Limbs |-> IF i = 1 THEN n ELSE 0]
IsZero(f) == \A i \in Limbs : f[i] = 0
Equals(f, g) == \A i \in Limbs : f[i] = g[i]
IsOdd(f) == f[1] % 2 = 1

\* Terms with their carries passed on: one limb for each term, and what is left over.
Carried(terms, size(_), word) ==
  FoldLeft(LAMBDA c, i :
             LET m == (c.over + terms[i]) % word
             IN [limbs |-> Append(c.limbs, m % size(i)), over |-> m \div size(i)],
           [limbs |-> <<>>, over |-> 0], [i \in 1 .. Len(terms) |-> i])

\* What stands above 2^Bits, put back as so many times C1 * 2^Base + C0.
Folded(limbs, over) ==
  [i \in Limbs |-> limbs[i] + (CASE i = 1 -> over * C0 [] i = 2 -> over * C1 [] OTHER -> 0)]

AtLeastPrime(t) == /\ t[1] + t[2] * Low >= LowPrime
                   /\ \A i \in Limbs \ {1, 2} : t[i] = Mask(i)

\* A carry out of the second pass is masked away.
Normalize(f) ==
  LET Compressed(a) == Carried(Folded(a.limbs, a.over), SizeOf, Word).limbs
      Reduced(t) == IF AtLeastPrime(t) THEN SetBytes(t[1] + t[2] * Low - LowPrime) ELSE t
  IN Reduced(Compressed(Carried(f, SizeOf, Word)))

NegateVal(f, magnitude) == [i \in Limbs |-> ((magnitude + 1) * PrimeWord(i) - f[i]) % Word]
AddInt(f, n) == [f EXCEPT ![1] = (@ + n) % Word]
Add2(f, g) == [i \in Limbs |-> (f[i] + g[i]) % Word]
MulInt(f, n) == [i \in Limbs |-> (f[i] * n) % Word]

\* The product's limbs above 2^Bits come back as multiples of C1 * 2^Base + C0; what
\* is above after that comes back once more, without carries beyond the third limb.
Reduce(terms) ==
  LET LowSize(i) == Low
      Product(c) == Append(c.limbs, c.over)
      Again(t) ==
        [i \in Limbs |-> t[i] + Above * (t[Words + i] * C0 + (IF i = 1 THEN 0 ELSE t[Words + i - 1] * C1)
                                         + (IF i = Words THEN t[2 * Words] * C1 * Low ELSE 0))]
      AboveOnce(r) == Folded(r.limbs, r.over)
      Stored(d) == [i \in Limbs |-> CASE i = 1 -> d[1] % Low
                                      [] i = 2 -> (d[1] \div Low + d[2]) % Low
                                      [] i = 3 -> (d[1] \div Low + d[2]) \div Low + d[3]
                                      [] OTHER -> d[i]]
  IN Stored(AboveOnce(Carried(Again(Product(Carried(terms, LowSize, Word * Word))), SizeOf, Word * Word)))

Pairs(k) == {i \in Limbs : k + 1 - i \in Limbs}
Mul2(f, g) ==
  Reduce([k \in 1 .. 2 * Words - 1 |-> Sum([i \in Limbs |-> IF i \in Pairs(k) THEN f[i] * g[k + 1 - i] ELSE 0])])

\* Each product of two different limbs is taken once and doubled.
SquareVal(f) ==
  Reduce([k \in 1 .. 2 * Words - 1 |->
            Sum([i \in Limbs |-> IF i \in Pairs(k)
                                 THEN CASE 2 * i < k + 1 -> 2 * f[i] * f[k + 1 - i]
                                        [] 2 * i = k + 1 -> f[i] * f[i]
                                        [] OTHER -> 0
                                 ELSE 0])])

\* The exponent that Inverse raises to, modulo m: from 2^6 - 1, ten squarings and a
\* product, again and again.
Factors == [i \in 1 .. 25 |-> CASE i = 22 -> 1019 [] i = 25 -> 45 [] OTHER -> 1023]
InverseExponent(m) == FoldLeft(LAMBDA e, b : (e * 1024 + b) % m, 63, Factors)
-------------------------------------------------------------------------------
Values == [Limbs -> {0} \cup {m * Mask(Words) : m \in Edges} \cup {m * Mask(1) : m \in Edges}]
Within(f, magnitude) == \A i \in Limbs : f[i] <= magnitude * Mask(i)
Corners(magnitude) == {[i \in Limbs |-> IF i \in K THEN magnitude * Mask(i) ELSE 0] : K \in SUBSET Limbs}

Normal(f) == \E v \in {Value(f)} : v < Prime /\ SetBytes(v) = f
\* The product as a number, without a number larger than Prime * 2^WordBits.
Times(f, g) == FoldRight(LAMBDA limb, n : (n * Low + (Value(f) % Prime) * limb) % Prime, g, 0)
CarriesOut(f) ==
  \E a \in {Carried(f, SizeOf, Word)} : Value(Folded(a.limbs, a.over)) >= 2 ^ Bits

\* NormalizeExact: Normalize gives the one normal form of the number, except that a
\* pass that carries out of 2^Bits loses just that carry (ecdsa_field.go:203-331).
NormalizeExact ==
  \A f \in Values :
    \E n \in {Normalize(f)} :
      /\ Normal(n) /\ PutBytes(n) = Value(n)
      /\ Value(n) = (Value(f) - (IF CarriesOut(f) THEN 2 ^ Bits ELSE 0)) % Prime

\* ProductExact: operands of the magnitudes that the comments allow are multiplied and
\* squared without an overflow, and negated without a borrow; the result of a product
\* may be negated as one of magnitude 1 (ecdsa_field.go:376-415, 485-870).
ProductExact ==
  \A f \in {g \in Values : Within(g, MaxMagnitude)} :
    /\ SquareVal(f) = Mul2(f, f)
    /\ Value(NegateVal(f, MaxMagnitude)) % Prime = (-Value(f)) % Prime
    /\ \A g \in Corners(MaxMagnitude) :
         \E h \in {Mul2(f, g)} :
           /\ Value(h) % Prime = Times(f, g)
           /\ Value(NegateVal(h, 1)) % Prime = (-Value(h)) % Prime

\* InverseExact: the chain of squarings and products of Inverse raises to the exponent
\* 2^256 - 2^32 - 979, whatever it is reduced by (ecdsa_field.go:872-960).
InverseExact ==
  \A m \in {8191, 65521, 1000003} :
    InverseExponent(m) = (FoldLeft(LAMBDA n, i : (n * 2) % m, 1, [i \in 1 .. 256 |-> i])
                          - FoldLeft(LAMBDA n, i : (n * 2) % m, 1, [i \in 1 .. 32 |-> i]) - 979) % m
==============================================================================
