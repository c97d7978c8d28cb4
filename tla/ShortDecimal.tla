----------------------------- MODULE ShortDecimal -----------------------------
(***************************************************************************)
(* Decimals from floats: the shortest digits that are read back as the     *)
(* float (src/util/decimal/decimal-go.go, rounding.go, and NewFromFloat of *)
(* decimal.go).  d is the digits in use, the value 0.d * 10 ^ dp.          *)
(* A format of floats has few bits here; Room digits are kept (800 in the  *)
(* code) and a pass shifts by at most MaxShift bits (60).                  *)
(***************************************************************************)
EXTENDS Integers, Sequences, SequencesExt

CONSTANTS Room, MaxShift,
          Formats,          \* [mantbits, expbits, bias], floatInfo
          Values, Shifts,   \* what is shifted, and by how much
          Exponents         \* of decimals that are asked for

Ten[n \in Nat] == IF n = 0 THEN 1 ELSE 10 * Ten[n - 1]
Abs(n) == IF n < 0 THEN -n ELSE n
Capped(s) == SubSeq(s, 1, IF Len(s) > Room THEN Room ELSE Len(s))

\* A digit that is not there is a zero.
At(a, i) == IF i <= Len(a.d) THEN a.d[i] ELSE 0

trim(a) ==
  LET kept == {i \in DOMAIN a.d : a.d[i] # 0}
      last == IF kept = {} THEN 0 ELSE CHOOSE i \in kept : \A j \in kept : j <= i
  IN [a EXCEPT !.d = SubSeq(@, 1, last), !.dp = IF kept = {} THEN 0 ELSE @]

DigitsOf[v \in Nat] == IF v = 0 THEN <<>> ELSE Append(DigitsOf[v \div 10], v % 10)
Assign(v) == trim([d |-> DigitsOf[v], dp |-> Len(DigitsOf[v]), trunc |-> FALSE])

\* Leading zeros are skipped until k bits are covered; what does not fit is dropped, and
\* remembered unless it is zero.
rightShift(a, k) ==
  LET n[r \in Nat] == IF r = 0 THEN 0 ELSE 10 * n[r - 1] + At(a, r)
      r0 == CHOOSE r \in 1 .. Len(a.d) + k : n[r] \div 2 ^ k # 0 /\ n[r - 1] \div 2 ^ k = 0
      Put[r \in Nat, m \in Nat] ==
        IF r > Len(a.d) /\ m = 0 THEN <<>>
        ELSE <<m \div 2 ^ k>> \o Put[r + 1, 10 * (m % 2 ^ k) + At(a, r)]
      out == Put[r0 + 1, n[r0]]
  IN IF a.d = <<>> THEN a
     ELSE trim([d |-> Capped(out), dp |-> a.dp - (r0 - 1),
                trunc |-> a.trunc \/ \E i \in Room + 1 .. Len(out) : out[i] # 0])

\* How many digits a shift adds, and the digits below which it is one fewer.
leftcheats == <<
  <<0, <<>>>>, <<1, <<5>>>>, <<1, <<2, 5>>>>, <<1, <<1, 2, 5>>>>, <<2, <<6, 2, 5>>>>, <<2, <<3, 1, 2, 5>>>>,
  <<2, <<1, 5, 6, 2, 5>>>>, <<3, <<7, 8, 1, 2, 5>>>>, <<3, <<3, 9, 0, 6, 2, 5>>>>, <<3, <<1, 9, 5, 3, 1, 2, 5>>>>,
  <<4, <<9, 7, 6, 5, 6, 2, 5>>>>, <<4, <<4, 8, 8, 2, 8, 1, 2, 5>>>>, <<4, <<2, 4, 4, 1, 4, 0, 6, 2, 5>>>>,
  <<4, <<1, 2, 2, 0, 7, 0, 3, 1, 2, 5>>>>, <<5, <<6, 1, 0, 3, 5, 1, 5, 6, 2, 5>>>>, <<5, <<3, 0, 5, 1, 7, 5, 7, 8, 1, 2, 5>>>>,
  <<5, <<1, 5, 2, 5, 8, 7, 8, 9, 0, 6, 2, 5>>>>, <<6, <<7, 6, 2, 9, 3, 9, 4, 5, 3, 1, 2, 5>>>>,
  <<6, <<3, 8, 1, 4, 6, 9, 7, 2, 6, 5, 6, 2, 5>>>>, <<6, <<1, 9, 0, 7, 3, 4, 8, 6, 3, 2, 8, 1, 2, 5>>>>,
  <<7, <<9, 5, 3, 6, 7, 4, 3, 1, 6, 4, 0, 6, 2, 5>>>>, <<7, <<4, 7, 6, 8, 3, 7, 1, 5, 8, 2, 0, 3, 1, 2, 5>>>>,
  <<7, <<2, 3, 8, 4, 1, 8, 5, 7, 9, 1, 0, 1, 5, 6, 2, 5>>>>, <<7, <<1, 1, 9, 2, 0, 9, 2, 8, 9, 5, 5, 0, 7, 8, 1, 2, 5>>>>,
  <<8, <<5, 9, 6, 0, 4, 6, 4, 4, 7, 7, 5, 3, 9, 0, 6, 2, 5>>>>, <<8, <<2, 9, 8, 0, 2, 3, 2, 2, 3, 8, 7, 6, 9, 5, 3, 1, 2, 5>>>>,
  <<8, <<1, 4, 9, 0, 1, 1, 6, 1, 1, 9, 3, 8, 4, 7, 6, 5, 6, 2, 5>>>>,
  <<9, <<7, 4, 5, 0, 5, 8, 0, 5, 9, 6, 9, 2, 3, 8, 2, 8, 1, 2, 5>>>>,
  <<9, <<3, 7, 2, 5, 2, 9, 0, 2, 9, 8, 4, 6, 1, 9, 1, 4, 0, 6, 2, 5>>>>,
  <<9, <<1, 8, 6, 2, 6, 4, 5, 1, 4, 9, 2, 3, 0, 9, 5, 7, 0, 3, 1, 2, 5>>>>,
  <<10, <<9, 3, 1, 3, 2, 2, 5, 7, 4, 6, 1, 5, 4, 7, 8, 5, 1, 5, 6, 2, 5>>>>,
  <<10, <<4, 6, 5, 6, 6, 1, 2, 8, 7, 3, 0, 7, 7, 3, 9, 2, 5, 7, 8, 1, 2, 5>>>>,
  <<10, <<2, 3, 2, 8, 3, 0, 6, 4, 3, 6, 5, 3, 8, 6, 9, 6, 2, 8, 9, 0, 6, 2, 5>>>>,
  <<10, <<1, 1, 6, 4, 1, 5, 3, 2, 1, 8, 2, 6, 9, 3, 4, 8, 1, 4, 4, 5, 3, 1, 2, 5>>>>,
  <<11, <<5, 8, 2, 0, 7, 6, 6, 0, 9, 1, 3, 4, 6, 7, 4, 0, 7, 2, 2, 6, 5, 6, 2, 5>>>>,
  <<11, <<2, 9, 1, 0, 3, 8, 3, 0, 4, 5, 6, 7, 3, 3, 7, 0, 3, 6, 1, 3, 2, 8, 1, 2, 5>>>>,
  <<11, <<1, 4, 5, 5, 1, 9, 1, 5, 2, 2, 8, 3, 6, 6, 8, 5, 1, 8, 0, 6, 6, 4, 0, 6, 2, 5>>>>,
  <<12, <<7, 2, 7, 5, 9, 5, 7, 6, 1, 4, 1, 8, 3, 4, 2, 5, 9, 0, 3, 3, 2, 0, 3, 1, 2, 5>>>>,
  <<12, <<3, 6, 3, 7, 9, 7, 8, 8, 0, 7, 0, 9, 1, 7, 1, 2, 9, 5, 1, 6, 6, 0, 1, 5, 6, 2, 5>>>>,
  <<12, <<1, 8, 1, 8, 9, 8, 9, 4, 0, 3, 5, 4, 5, 8, 5, 6, 4, 7, 5, 8, 3, 0, 0, 7, 8, 1, 2, 5>>>>,
  <<13, <<9, 0, 9, 4, 9, 4, 7, 0, 1, 7, 7, 2, 9, 2, 8, 2, 3, 7, 9, 1, 5, 0, 3, 9, 0, 6, 2, 5>>>>,
  <<13, <<4, 5, 4, 7, 4, 7, 3, 5, 0, 8, 8, 6, 4, 6, 4, 1, 1, 8, 9, 5, 7, 5, 1, 9, 5, 3, 1, 2, 5>>>>,
  <<13, <<2, 2, 7, 3, 7, 3, 6, 7, 5, 4, 4, 3, 2, 3, 2, 0, 5, 9, 4, 7, 8, 7, 5, 9, 7, 6, 5, 6, 2, 5>>>>,
  <<13, <<1, 1, 3, 6, 8, 6, 8, 3, 7, 7, 2, 1, 6, 1, 6, 0, 2, 9, 7, 3, 9, 3, 7, 9, 8, 8, 2, 8, 1, 2, 5>>>>,
  <<14, <<5, 6, 8, 4, 3, 4, 1, 8, 8, 6, 0, 8, 0, 8, 0, 1, 4, 8, 6, 9, 6, 8, 9, 9, 4, 1, 4, 0, 6, 2, 5>>>>,
  <<14, <<2, 8, 4, 2, 1, 7, 0, 9, 4, 3, 0, 4, 0, 4, 0, 0, 7, 4, 3, 4, 8, 4, 4, 9, 7, 0, 7, 0, 3, 1, 2, 5>>>>,
  <<14, <<1, 4, 2, 1, 0, 8, 5, 4, 7, 1, 5, 2, 0, 2, 0, 0, 3, 7, 1, 7, 4, 2, 2, 4, 8, 5, 3, 5, 1, 5, 6, 2, 5>>>>,
  <<15, <<7, 1, 0, 5, 4, 2, 7, 3, 5, 7, 6, 0, 1, 0, 0, 1, 8, 5, 8, 7, 1, 1, 2, 4, 2, 6, 7, 5, 7, 8, 1, 2, 5>>>>,
  <<15, <<3, 5, 5, 2, 7, 1, 3, 6, 7, 8, 8, 0, 0, 5, 0, 0, 9, 2, 9, 3, 5, 5, 6, 2, 1, 3, 3, 7, 8, 9, 0, 6, 2, 5>>>>,
  <<15, <<1, 7, 7, 6, 3, 5, 6, 8, 3, 9, 4, 0, 0, 2, 5, 0, 4, 6, 4, 6, 7, 7, 8, 1, 0, 6, 6, 8, 9, 4, 5, 3, 1, 2, 5>>>>,
  <<16, <<8, 8, 8, 1, 7, 8, 4, 1, 9, 7, 0, 0, 1, 2, 5, 2, 3, 2, 3, 3, 8, 9, 0, 5, 3, 3, 4, 4, 7, 2, 6, 5, 6, 2, 5>>>>,
  <<16, <<4, 4, 4, 0, 8, 9, 2, 0, 9, 8, 5, 0, 0, 6, 2, 6, 1, 6, 1, 6, 9, 4, 5, 2, 6, 6, 7, 2, 3, 6, 3, 2, 8, 1, 2, 5>>>>,
  <<16, <<2, 2, 2, 0, 4, 4, 6, 0, 4, 9, 2, 5, 0, 3, 1, 3, 0, 8, 0, 8, 4, 7, 2, 6, 3, 3, 3, 6, 1, 8, 1, 6, 4, 0, 6, 2, 5>>>>,
  <<16, <<1, 1, 1, 0, 2, 2, 3, 0, 2, 4, 6, 2, 5, 1, 5, 6, 5, 4, 0, 4, 2, 3, 6, 3, 1, 6, 6, 8, 0, 9, 0, 8, 2, 0, 3, 1, 2, 5>>>>,
  <<17, <<5, 5, 5, 1, 1, 1, 5, 1, 2, 3, 1, 2, 5, 7, 8, 2, 7, 0, 2, 1, 1, 8, 1, 5, 8, 3, 4, 0, 4, 5, 4, 1, 0, 1, 5, 6, 2, 5>>>>,
  <<17, <<2, 7, 7, 5, 5, 5, 7, 5, 6, 1, 5, 6, 2, 8, 9, 1, 3, 5, 1, 0, 5, 9, 0, 7, 9, 1, 7, 0, 2, 2, 7, 0, 5, 0, 7, 8, 1, 2, 5>>>>,
  <<17, <<1, 3, 8, 7, 7, 7, 8, 7, 8, 0, 7, 8, 1, 4, 4, 5, 6, 7, 5, 5, 2, 9, 5, 3, 9, 5, 8, 5, 1, 1, 3, 5, 2, 5, 3, 9, 0, 6, 2, 5>>>>,
  <<18, <<6, 9, 3, 8, 8, 9, 3, 9, 0, 3, 9, 0, 7, 2, 2, 8, 3, 7, 7, 6, 4, 7, 6, 9, 7, 9, 2, 5, 5, 6, 7, 6, 2, 6, 9, 5, 3, 1, 2, 5>>>>,
  <<18, <<3, 4, 6, 9, 4, 4, 6, 9, 5, 1, 9, 5, 3, 6, 1, 4, 1, 8, 8, 8, 2, 3, 8, 4, 8, 9, 6, 2, 7, 8, 3, 8, 1, 3, 4, 7, 6, 5, 6, 2, 5>>>>,
  <<18, <<1, 7, 3, 4, 7, 2, 3, 4, 7, 5, 9, 7, 6, 8, 0, 7, 0, 9, 4, 4, 1, 1, 9, 2, 4, 4, 8, 1, 3, 9, 1, 9, 0, 6, 7, 3, 8, 2, 8, 1, 2, 5>>>>,
  <<19, <<8, 6, 7, 3, 6, 1, 7, 3, 7, 9, 8, 8, 4, 0, 3, 5, 4, 7, 2, 0, 5, 9, 6, 2, 2, 4, 0, 6, 9, 5, 9, 5, 3, 3, 6, 9, 1, 4, 0, 6, 2, 5>>>>>>

prefixIsLessThan(b, s) ==
  \E i \in 1 .. Len(s) : /\ \A j \in 1 .. i - 1 : j <= Len(b) /\ b[j] = s[j]
                         /\ i > Len(b) \/ b[i] < s[i]

\* The digits of a times 2 ^ k, from the last one; what is beyond Room is dropped.
leftShift(a, k) ==
  LET cheat == leftcheats[k + 1]
      delta == IF prefixIsLessThan(a.d, cheat[2]) THEN cheat[1] - 1 ELSE cheat[1]
      Put[r \in Nat, n \in Nat] ==
        IF r = 0 /\ n = 0 THEN <<>>
        ELSE LET m == n + (IF r = 0 THEN 0 ELSE a.d[r] * 2 ^ k)
             IN Append(Put[IF r = 0 THEN 0 ELSE r - 1, m \div 10], m % 10)
      out == Put[Len(a.d), 0]
      \* Places that were counted and not written keep the digits they had.
      all == SubSeq(a.d, 1, Len(a.d) + delta - Len(out)) \o out
  IN trim([d |-> Capped(all), dp |-> a.dp + delta,
           trunc |-> a.trunc \/ \E i \in Room + 1 .. Len(all) : all[i] # 0])

\* In passes of MaxShift bits, and the rest.
Shift(a, k) ==
  LET Pass(b, n) == IF k > 0 THEN leftShift(b, n) ELSE rightShift(b, n)
      whole == (Abs(k) - 1) \div MaxShift
      Done[i \in 0 .. whole] == IF i = 0 THEN a ELSE Pass(Done[i - 1], MaxShift)
  IN IF a.d = <<>> \/ k = 0 THEN a ELSE Pass(Done[whole], Abs(k) - whole * MaxShift)

\* Of a tie the even one, unless digits were dropped.
shouldRoundUp(a, nd) ==
  /\ nd \in 0 .. Len(a.d) - 1
  /\ IF a.d[nd + 1] = 5 /\ nd + 1 = Len(a.d)
     THEN a.trunc \/ (nd > 0 /\ a.d[nd] % 2 # 0) ELSE a.d[nd + 1] >= 5

Inside(a, nd) == nd >= 0 /\ nd < Len(a.d)
RoundDown(a, nd) == IF Inside(a, nd) THEN trim([a EXCEPT !.d = SubSeq(@, 1, nd)]) ELSE a
\* The last digit that is no nine grows; of nines alone a one is left.
RoundUp(a, nd) ==
  LET small == {i \in 1 .. nd : a.d[i] < 9}
      i == CHOOSE i \in small : \A j \in small : j <= i
  IN IF ~Inside(a, nd) THEN a
     ELSE IF small = {} THEN [a EXCEPT !.d = <<1>>, !.dp = @ + 1]
     ELSE [a EXCEPT !.d = Append(SubSeq(@, 1, i - 1), @[i] + 1)]
Round(a, nd) == IF shouldRoundUp(a, nd) THEN RoundUp(a, nd) ELSE RoundDown(a, nd)

AllOnes == -1    \* of a uint64
RoundedInteger(a) ==
  LET n[i \in Nat] == IF i = 0 THEN 0 ELSE 10 * n[i - 1] + At(a, i)
      places == IF a.dp > 0 THEN a.dp ELSE 0
  IN IF a.dp > 20 THEN AllOnes ELSE n[places] + (IF shouldRoundUp(a, a.dp) THEN 1 ELSE 0)

\* String: the digits before the point and those behind it.
Zeros(n) == [i \in 1 .. n |-> 0]
String(a) ==
  LET nd == Len(a.d)
  IN IF nd = 0 THEN [int |-> <<0>>, frac |-> <<>>]
     ELSE IF a.dp <= 0 THEN [int |-> <<0>>, frac |-> Zeros(-a.dp) \o a.d]
     ELSE IF a.dp < nd THEN [int |-> SubSeq(a.d, 1, a.dp), frac |-> SubSeq(a.d, a.dp + 1, nd)]
     ELSE [int |-> a.d \o Zeros(a.dp - nd), frac |-> <<>>]

-----------------------------------------------------------------------------
\* The floats between whose halves to the neighbours every decimal is read as this one.
Least(flt) == flt.bias + 1
Upper(mant, exp, flt) == Shift(Assign(2 * mant + 1), exp - flt.mantbits - 1)
Lower(mant, exp, flt) ==
  IF mant > 2 ^ flt.mantbits \/ exp = Least(flt)
  THEN Shift(Assign(2 * (mant - 1) + 1), exp - flt.mantbits - 1)
  ELSE Shift(Assign(2 * (2 * mant - 1) + 1), exp - 1 - flt.mantbits - 1)

\* 10 ^ (dp - nd) is more than the distance of the neighbours.
AlreadyShortest(d, exp, flt) ==
  exp > Least(flt) /\ 332 * (d.dp - Len(d.d)) >= 100 * (exp - flt.mantbits)

\* The first digit that tells the number from a neighbour below, or above, is the last.
Told(d, lower, upper, inclusive) ==
  LET okdown == {i \in DOMAIN d.d : At(lower, i) # d.d[i] \/ (inclusive /\ i = Len(lower.d))}
      okup == {i \in DOMAIN d.d : /\ d.d[i] # At(upper, i)
                                  /\ inclusive \/ d.d[i] + 1 < At(upper, i) \/ i < Len(upper.d)}
      i == CHOOSE i \in okdown \cup okup : \A j \in okdown \cup okup : i <= j
  IN IF okdown \cup okup = {} THEN d
     ELSE IF i \in okdown \cap okup THEN Round(d, i)
     ELSE IF i \in okdown THEN RoundDown(d, i) ELSE RoundUp(d, i)
roundShortest(d, mant, exp, flt) ==
  IF mant = 0 THEN [d EXCEPT !.d = <<>>]
  ELSE IF AlreadyShortest(d, exp, flt) THEN d
  ELSE Told(d, Lower(mant, exp, flt), Upper(mant, exp, flt), mant % 2 = 0)

\* The parts of a float; there is an implicit top bit but for the least exponent.
Field(bits, flt) == (bits \div 2 ^ flt.mantbits) % 2 ^ flt.expbits
Fraction(bits, flt) == bits % 2 ^ flt.mantbits
Mant(bits, flt) == Fraction(bits, flt) + (IF Field(bits, flt) = 0 THEN 0 ELSE 2 ^ flt.mantbits)
Exp(bits, flt) == flt.bias + (IF Field(bits, flt) = 0 THEN 1 ELSE Field(bits, flt))
Sign(bits, flt) == bits \div 2 ^ (flt.expbits + flt.mantbits) # 0
Infinite(bits, flt) == Field(bits, flt) = 2 ^ flt.expbits - 1    \* or not a number

New(value, exp) == [value |-> value, exp |-> exp]
\* With 19 digits or more, which no float64 needs, the sign is lost.
Signed(d, negative) ==
  LET tmp == FoldLeft(LAMBDA n, c : 10 * n + c, 0, d.d)
  IN New(IF negative /\ Len(d.d) < 19 THEN -tmp ELSE tmp, d.dp - Len(d.d))
newFromFloat(bits, flt) ==
  Signed(roundShortest(Shift(Assign(Mant(bits, flt)), Exp(bits, flt) - flt.mantbits),
                       Mant(bits, flt), Exp(bits, flt), flt), Sign(bits, flt))
NewFromFloat(bits, flt) ==
  IF Mant(bits, flt) = 0 THEN New(0, 0) ELSE newFromFloat(bits, flt)

\* To a multiple of 10 ^ exp: 10 ^ M * 2 ^ N is 5 ^ M * 2 ^ (M + N), M = -exp.
NewFromFloatWithExponent(bits, flt, exp) ==
  LET twos == CHOOSE t \in 0 .. flt.mantbits : /\ Mant(bits, flt) % 2 ^ t = 0
                                               /\ (Mant(bits, flt) \div 2 ^ t) % 2 = 1
      exp2 == Exp(bits, flt) - flt.mantbits + twos
      e == IF exp < 0 /\ exp < exp2 THEN IF exp2 < 0 THEN exp2 ELSE 0 ELSE exp
      up == exp2 - e
      temp == (IF e > 0 THEN 5 ^ e ELSE 1) * (IF up < 0 THEN 2 ^ (-up) ELSE 1)
      dMant == (Mant(bits, flt) \div 2 ^ twos) * (IF e < 0 THEN 5 ^ (-e) ELSE 1)
                 * (IF up > 0 THEN 2 ^ up ELSE 1)
      n == IF e > 0 \/ up < 0 THEN (dMant + temp \div 2) \div temp ELSE dMant
  IN IF Mant(bits, flt) = 0 THEN New(0, 0) ELSE New(IF Sign(bits, flt) THEN -n ELSE n, e)

-----------------------------------------------------------------------------
\* The number with these digits times 10 ^ exp, in units of 10 ^ -places.
Number(digits) == FoldLeft(LAMBDA n, c : 10 * n + c, 0, digits)
Exact(digits, exp, places) == Number(digits) * Ten[exp + places]

\* CheatsExact: the table says of every shift how many digits it adds, and from
\* which digits on, those of 5 ^ k: 10 ^ Len(5 ^ k) / 2 ^ k (decimal-go.go:177-252).
TimesFive(s) == LET Put[r \in Nat, n \in Nat] ==
                      IF r = 0 THEN IF n = 0 THEN <<>> ELSE <<n>>
                      ELSE Append(Put[r - 1, (n + 5 * s[r]) \div 10], (n + 5 * s[r]) % 10)
                IN Put[Len(s), 0]
CheatsExact ==
  LET Fives[k \in 0 .. 60] == IF k = 0 THEN <<1>> ELSE TimesFive(Fives[k - 1])
  IN \A k \in 1 .. 60 : leftcheats[k + 1] = <<k - Len(Fives[k]) + 1, Fives[k]>>

\* What is kept of v shifted by k.
Kept(a, v, k) ==
  LET places == IF k < 0 THEN -k ELSE 0
      kept == Exact(a.d, a.dp - Len(a.d), places)
      short == IF k < 0 THEN v * 5 ^ places - kept ELSE v * 2 ^ k - kept
  IN /\ a.d = <<>> \/ (a.d[1] # 0 /\ a.d[Len(a.d)] # 0)
     /\ Len(a.d) <= Room
     /\ short >= 0 /\ (a.trunc <=> short # 0)
     /\ a.trunc /\ Abs(k) <= MaxShift => short < Ten[a.dp - Room + places]
     /\ \E t \in {String(a)} : Number(t.int \o t.frac) * Ten[places - Len(t.frac)] = kept
     /\ ~a.trunc => \E n \in {RoundedInteger(a)} :
          LET off == 2 * Abs(n * Ten[places] - kept)
          IN off <= Ten[places] /\ (off = Ten[places] => n % 2 = 0)

\* ShiftExact: a shift by any number of passes multiplies by the power of two; of a number
\* with too many digits less is kept, after one pass less than a unit of the last digit
\* less, and remembered; the nearest integer is even for a tie, and the text is the
\* number (decimal-go.go:21-65, 109-160, 268-414).
ShiftExact == \A v \in Values, k \in Shifts : Kept(Shift(Assign(v), k), v, k)

\* Units that make every float and half of a format an integer.
Fine(flt) == IF flt.bias < 0 THEN 8 ELSE 2
\* A float; above the last one it is what rounds to infinity.
Float(bits, flt) ==
  LET e == Exp(bits, flt) - flt.mantbits
  IN IF e < 0 THEN (Mant(bits, flt) * Ten[Fine(flt)]) \div 2 ^ (-e) ELSE Mant(bits, flt) * Ten[Fine(flt)] * 2 ^ e
Positive(flt) == {bits \in 1 .. 2 ^ (flt.expbits + flt.mantbits) - 1 : ~Infinite(bits, flt)}
\* Ties go to the even fraction.
ReadAs(twice, bits, flt) ==
  LET low == Float(bits - 1, flt) + Float(bits, flt)
      high == Float(bits, flt) + Float(bits + 1, flt)
  IN IF bits % 2 = 0 THEN low <= twice /\ twice <= high ELSE low < twice /\ twice < high

\* Read as the float, and not with a digit less.
Shortest(d, bits, flt) ==
  LET n == d.value * Ten[d.exp + Fine(flt)]
      unit == Ten[d.exp + 1 + Fine(flt)]
  IN /\ ReadAs(2 * n, bits, flt)
     /\ d.value >= 10 => \A m \in {n \div unit, n \div unit + 1} : ~ReadAs(2 * m * unit, bits, flt)

\* ShortestReadBack: the decimal of a float is read as this float again, and no decimal
\* with fewer digits is; only the sign of a negative one differs
\* (decimal.go:182-252, rounding.go:24-118).
ShortestReadBack ==
  \A flt \in Formats : \A bits \in Positive(flt) :
    \E d \in {NewFromFloat(bits, flt)} :
      /\ Shortest(d, bits, flt)
      /\ NewFromFloat(bits + 2 ^ (flt.expbits + flt.mantbits), flt) = New(-d.value, d.exp)

\* WithExponent: the multiple of a power of ten nearest to a float, of two the larger; or
\* the float itself where it is such a multiple (decimal.go:261-340).
WithExponent ==
  \A flt \in Formats : \A bits \in Positive(flt), exp \in Exponents :
    LET d == NewFromFloatWithExponent(bits, flt, exp)
        n == d.value * Ten[d.exp + Fine(flt)]
        off == 2 * (n - Float(bits, flt))
    IN IF d.exp # exp THEN exp < 0 /\ off = 0
       ELSE off <= Ten[exp + Fine(flt)] /\ off > -Ten[exp + Fine(flt)]
==============================================================================
