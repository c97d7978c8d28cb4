-------------------------------- MODULE Decimal --------------------------------
(***************************************************************************)
(* Fixed-point decimals (src/util/decimal/decimal.go): value * 10 ^ exp.   *)
(* The same number has many representations; operations bring their        *)
(* operands to a common exponent.  acc is a decimal some program works on. *)
(***************************************************************************)
EXTENDS Integers, Sequences, SequencesExt, Bitwise

CONSTANTS
  Operands,            \* decimals it is combined with, and starts from
  Places,              \* places it is rounded to
  DivisionPrecision,   \* digits of a quotient
  MaxValue, MaxDigits, MaxExp   \* bounds of acc: its value, digits behind the point, zeros before it

ASSUME DecimalAssumption ==
  /\ {DivisionPrecision, MaxValue, MaxDigits, MaxExp} \subseteq Nat
  /\ Places \subseteq Int

VARIABLE acc

New(value, exp) == [value |-> value, exp |-> exp]

Pow10[n \in Nat] == IF n = 0 THEN 1 ELSE 10 * Pow10[n - 1]
AbsI(n) == IF n < 0 THEN -n ELSE n
SignI(n) == IF n < 0 THEN -1 ELSE IF n = 0 THEN 0 ELSE 1
Lower(x, y) == IF x >= y THEN y ELSE x

\* big.Int: Quo and Rem truncate; Div is the floor for positive divisors.
Quo(a, b) == SignI(a) * SignI(b) * (AbsI(a) \div AbsI(b))
Rem(a, b) == a - b * Quo(a, b)

-----------------------------------------------------------------------------

\* rescale truncates.
Rescale(d, exp) ==
  New(IF exp > d.exp THEN Quo(d.value, Pow10[exp - d.exp])
      ELSE d.value * Pow10[d.exp - exp], exp)

\* Both values at the lower exponent.
Aligned(d, d2) ==
  LET base == Lower(d.exp, d2.exp) IN [x |-> Rescale(d, base).value, y |-> Rescale(d2, base).value]

Add(d, d2) == LET a == Aligned(d, d2) IN New(a.x + a.y, Lower(d.exp, d2.exp))
Sub(d, d2) == LET a == Aligned(d, d2) IN New(a.x - a.y, Lower(d.exp, d2.exp))
Mul(d, d2) == New(d.value * d2.value, d.exp + d2.exp)
Neg(d) == New(-d.value, d.exp)
Abs(d) == New(AbsI(d.value), d.exp)
Shift(d, n) == New(d.value, d.exp + n)

Cmp(d, d2) == LET a == Aligned(d, d2) IN SignI(a.x - a.y)
Equal(d, d2) == Cmp(d, d2) = 0
GreaterThan(d, d2) == Cmp(d, d2) = 1
GreaterThanOrEqual(d, d2) == Cmp(d, d2) \in {0, 1}
LessThan(d, d2) == Cmp(d, d2) = -1
LessThanOrEqual(d, d2) == Cmp(d, d2) \in {-1, 0}
Sign(d) == SignI(d.value)

\* QuoRem.  The remainder has the exponent of whichever operand was not scaled.
QuoRem(d, d2, precision) ==
  LET e == d.exp - d2.exp + precision
      aa == IF e < 0 THEN d.value ELSE d.value * Pow10[e]
      bb == IF e < 0 THEN d2.value * Pow10[-e] ELSE d2.value
  IN [q |-> New(Quo(aa, bb), -precision),
      r |-> New(Rem(aa, bb), IF e < 0 THEN d.exp ELSE d2.exp - precision)]

\* Variant: the sign of the quotient decides, which is 0 for small ones.
Away_OfQuotient(d, d2, qr) == IF qr.q.value < 0 THEN -1 ELSE 1

\* Which way is away from 0.
Away(d, d2, qr) == IF SignI(d.value) * SignI(d2.value) < 0 THEN -1 ELSE 1

\* DivRound: twice the remainder is compared with the divisor.
DivRound(d, d2, precision) ==
  LET qr == QuoRem(d, d2, precision)
      twice == New(2 * AbsI(qr.r.value), qr.r.exp + precision)
  IN IF Cmp(twice, Abs(d2)) < 0 THEN qr.q
     ELSE Add(qr.q, New(Away(d, d2, qr), -precision))

Div(d, d2) == DivRound(d, d2, DivisionPrecision)

Truncate(d, precision) ==
  IF precision >= 0 /\ -precision > d.exp THEN Rescale(d, -precision) ELSE d

Mod(d, d2) == Sub(d, Mul(d2, Truncate(Div(d, d2), 0)))

IntPart(d) == Rescale(d, 0).value
\* As a fraction.
Rat(d) == IF d.exp <= 0 THEN <<d.value, Pow10[-d.exp]>> ELSE <<d.value * Pow10[d.exp], 1>>

\* By squaring; the exponent is halved as a decimal, and its integer part decides.
RECURSIVE Pow(_, _)
Pow(d, d2) ==
  LET temp == Pow(d, Div(d2, New(2, 0)))
  IN IF IntPart(d2) = 0 THEN New(1, 0)
     ELSE IF IntPart(d2) % 2 = 0 THEN Mul(temp, temp)
     ELSE IF IntPart(d2) > 0 THEN Mul(Mul(temp, temp), d)
     ELSE Div(Mul(temp, temp), d)

\* Of several decimals, the first one of equals.
MinOf(ds) == FoldLeft(LAMBDA ans, d : IF Cmp(d, ans) < 0 THEN d ELSE ans, Head(ds), Tail(ds))
MaxOf(ds) == FoldLeft(LAMBDA ans, d : IF Cmp(d, ans) > 0 THEN d ELSE ans, Head(ds), Tail(ds))
SumOf(ds) == FoldLeft(Add, Head(ds), Tail(ds))
Avg(ds) == Div(SumOf(ds), New(Len(ds), 0))

\* The last digit goes, the rest is brought towards zero.
DropDigit(v) == LET q == v \div 10 IN IF q < 0 /\ v % 10 # 0 THEN q + 1 ELSE q

\* Round: one digit more, five added, the digit dropped.
Round(d, places) ==
  LET r == Rescale(d, -places - 1) IN
  New(DropDigit(IF r.value < 0 THEN r.value - 5 ELSE r.value + 5), r.exp + 1)

\* RoundBank: a tie goes back to the even neighbour.
RoundBank(d, places) ==
  LET round == Round(d, places)
      tie == Equal(Abs(Sub(d, round)), New(5, -places - 1))
  IN IF tie /\ round.value % 2 # 0
     THEN New(round.value - (IF round.value < 0 THEN -1 ELSE 1), round.exp)
     ELSE round

\* RoundCash: to parts of a unit.
Parts(interval) ==
  CASE interval = 5 -> 20 [] interval \in {10, 15} -> 10 [] interval = 25 -> 4
    [] interval = 50 -> 2 [] interval = 100 -> 1

\* For the interval 15 a last digit 0 or 5 is first made less by 10 ^ -exp, which
\* in Go is an exclusive or: 8 for two places, but 11 for one and 9 for three.
Lowered(d) ==
  IF d.exp < 0 /\ Mod(New(d.value, 0), New(5, 0)).value = 0
  THEN Sub(d, New(10 ^^ (-d.exp), d.exp)) ELSE d

RoundCash(d, interval) ==
  LET parts == New(Parts(interval), 0)
      d2 == IF interval = 15 THEN Lowered(d) ELSE d
  IN Truncate(Div(Round(Mul(d2, parts), 0), parts), 2)

Floor(d) == IF d.exp >= 0 THEN d ELSE New(d.value \div Pow10[-d.exp], 0)
Ceil(d) ==
  IF d.exp >= 0 THEN d
  ELSE LET q == d.value \div Pow10[-d.exp] IN
       New(IF d.value % Pow10[-d.exp] # 0 THEN q + 1 ELSE q, 0)

-----------------------------------------------------------------------------
\* Text: a sign, the digits before the point and those behind it.

DigitsOf[n \in Nat] == IF n < 10 THEN <<n>> ELSE Append(DigitsOf[n \div 10], n % 10)
Number(digits) ==
  LET f[k \in 0 .. Len(digits)] == IF k = 0 THEN 0 ELSE 10 * f[k - 1] + digits[k]
  IN f[Len(digits)]
Zeros(n) == [i \in 1 .. n |-> 0]

TrimRight(digits) ==
  LET kept == {i \in DOMAIN digits : digits[i] # 0} IN
  SubSeq(digits, 1, IF kept = {} THEN 0 ELSE CHOOSE i \in kept : \A j \in kept : j <= i)

\* string.
Text(d, trimTrailingZeros) ==
  LET str == DigitsOf[AbsI(d.value)]
      long == Len(str) > -d.exp
      point == Len(str) + d.exp
      frac == IF long THEN SubSeq(str, point + 1, Len(str)) ELSE Zeros(-point) \o str
  IN IF d.exp >= 0 THEN [neg |-> d.value < 0, int |-> DigitsOf[AbsI(Rescale(d, 0).value)], frac |-> <<>>]
     ELSE [neg  |-> d.value < 0,
           int  |-> IF long THEN SubSeq(str, 1, point) ELSE <<0>>,
           frac |-> IF trimTrailingZeros THEN TrimRight(frac) ELSE frac]
String(d) == Text(d, TRUE)
StringFixed(d, places) == Text(Round(d, places), FALSE)
StringFixedBank(d, places) == Text(RoundBank(d, places), FALSE)
StringFixedCash(d, interval) == Text(RoundCash(d, interval), FALSE)
StringScaled(d, exp) == String(Rescale(d, exp))

\* NewFromString: the fraction without its last zeros belongs to the value.
NewFromString(text) ==
  LET frac == TrimRight(text.frac)
      n == Number(text.int \o frac)
  IN New(IF text.neg THEN -n ELSE n, -Len(frac))

-----------------------------------------------------------------------------
\* A program goes on with the result of an operation, within the bounds.

Becomes(d) ==
  /\ AbsI(d.value) <= MaxValue /\ d.exp \in (-MaxDigits) .. MaxExp
  /\ acc' = d

Adds     == \E x \in Operands : Becomes(Add(acc, x))
Subs     == \E x \in Operands : Becomes(Sub(acc, x))
Muls     == \E x \in Operands : Becomes(Mul(acc, x))
Divs     == \E x \in Operands : x.value # 0 /\ Becomes(Div(acc, x))
Shifts   == \E n \in {-1, 1} : Becomes(Shift(acc, n))
Rounds   == \E p \in Places : Becomes(Round(acc, p)) \/ Becomes(RoundBank(acc, p))
Negates  == Becomes(Neg(acc)) \/ Becomes(Abs(acc))
Rereads  == Becomes(NewFromString(String(acc)))

Init == acc \in Operands

Next == Adds \/ Subs \/ Muls \/ Divs \/ Shifts \/ Rounds \/ Negates \/ Rereads

Spec == Init /\ [][Next]_acc

-----------------------------------------------------------------------------
\* x times 10 ^ Scale, for what has at most Scale digits behind the point.
Scale == MaxDigits + 2
Exact(d) == d.value * Pow10[d.exp + Scale]
Unit(places) == Pow10[Scale - places]

Nearest(d, r, unit) == 2 * AbsI(Exact(d) - Exact(r)) <= unit
Tie(d, r, unit) == 2 * AbsI(Exact(d) - Exact(r)) = unit
Multiple(r, unit) == Exact(r) % unit = 0

\* SameNumber: sums, differences and comparisons depend on the numbers and not on
\* how they are represented, and equal numbers print alike and are read back
\* (decimal.go:392-415, 561-579, 704).
SameNumber ==
  /\ \A x \in Operands :
       /\ Exact(Add(acc, x)) = Exact(acc) + Exact(x)
       /\ Exact(Sub(acc, x)) = Exact(acc) - Exact(x)
       /\ Cmp(acc, x) = SignI(Exact(acc) - Exact(x))
       /\ Equal(acc, x) => String(acc) = String(x)
       /\ GreaterThan(acc, x) = LessThan(x, acc) /\ GreaterThanOrEqual(acc, x) = LessThanOrEqual(x, acc)
       /\ GreaterThan(acc, x) = ~LessThanOrEqual(acc, x) /\ GreaterThan(acc, x) = (Sign(Sub(acc, x)) = 1)
  /\ Exact(NewFromString(String(acc))) = Exact(acc)
  /\ Rat(acc)[1] * (Pow10[Scale] \div Rat(acc)[2]) = Exact(acc)
  /\ \A x, y \in Operands : LET ds == <<x, acc, y>> IN
       /\ Exact(SumOf(ds)) = Exact(x) + Exact(acc) + Exact(y)
       /\ \A i \in 1 .. 3 : Exact(MinOf(ds)) <= Exact(ds[i]) /\ Exact(MaxOf(ds)) >= Exact(ds[i])
       /\ Exact(MinOf(ds)) + Exact(MaxOf(ds)) \in {Exact(x) + Exact(y), Exact(x) + Exact(acc), Exact(y) + Exact(acc)}
       /\ 6 * AbsI(Exact(Avg(ds)) - Exact(SumOf(ds)) \div 3) <= 3 * Unit(DivisionPrecision) + 6
  /\ Equal(Pow(acc, New(0, 0)), New(1, 0)) /\ Equal(Pow(acc, New(2, 0)), Mul(acc, acc))
  /\ Equal(Pow(acc, New(3, 0)), Mul(Mul(acc, acc), acc))

\* Division: QuoRem keeps d = d2 * q + r with a remainder smaller than the divisor
\* and of the sign of d, and DivRound gives the nearest quotient, the one away
\* from 0 of two (decimal.go:464-469, 509-513).
Division ==
  \A x \in Operands, p \in Places : x.value # 0 =>
    LET qr == QuoRem(acc, x, p)
        q == DivRound(acc, x, p)
        \* of acc = q * x, both sides with enough digits
        left == New(2 * AbsI(Sub(acc, Mul(q, x)).value), Sub(acc, Mul(q, x)).exp)
        right == Shift(Abs(x), -p)
    IN /\ Equal(acc, Add(Mul(qr.q, x), qr.r))
       /\ Cmp(Abs(qr.r), right) < 0
       /\ qr.r.value # 0 => SignI(qr.r.value) = SignI(acc.value)
       /\ q.exp = -p /\ Cmp(left, right) <= 0
       /\ Cmp(left, right) = 0 => Cmp(Abs(Mul(q, x)), Abs(acc)) > 0

\* RoundNearest: rounding gives the nearest multiple, of two the one away from 0,
\* or the even one; floor and ceiling are the integers around the number
\* (decimal.go:750-758, 780-794, 860-895).
RoundNearest ==
  /\ \A p \in Places : LET r == Round(acc, p)
                           b == RoundBank(acc, p)
                           u == Unit(p) IN
       /\ Multiple(r, u) /\ Nearest(acc, r, u)
       /\ Tie(acc, r, u) => AbsI(Exact(r)) > AbsI(Exact(acc))
       /\ Multiple(b, u) /\ Nearest(acc, b, u)
       /\ Tie(acc, b, u) => (Exact(b) \div u) % 2 = 0
       \* the texts have as many digits behind the point as were asked for
       /\ \A d \in {r, b} : LET text == IF d = r THEN StringFixed(acc, p) ELSE StringFixedBank(acc, p)
                          IN Len(text.frac) = (IF p > 0 THEN p ELSE 0) /\ Exact(NewFromString(text)) = Exact(d)
  /\ IntPart(acc) = Quo(Exact(acc), Unit(0))
  /\ Exact(Floor(acc)) <= Exact(acc) /\ Exact(acc) < Exact(Floor(acc)) + Unit(0)
  /\ Exact(Ceil(acc)) >= Exact(acc) /\ Exact(acc) > Exact(Ceil(acc)) - Unit(0)

\* CashNearest: rounding to coins gives the nearest amount they can pay; the
\* interval 15 rounds to tenths, five down, an amount that was read with two places
\* behind the point (decimal.go:812-822).
CashNearest ==
  /\ \A i \in {5, 10, 25, 50, 100} :
       LET r == RoundCash(acc, i)
           coin == (Unit(0) \div 100) * i
       IN Multiple(r, coin) /\ Nearest(acc, r, coin)
  /\ acc.exp = -2 /\ acc = NewFromString(String(acc)) =>
       LET r == RoundCash(acc, 15) IN
       /\ Multiple(r, Unit(1)) /\ Nearest(acc, r, Unit(1))
       /\ Tie(acc, r, Unit(1)) => Exact(r) < Exact(acc)
==============================================================================
