------------------------------ MODULE WagonNum ------------------------------
(***************************************************************************)
(* The numeric instructions of the interpreter (wagon/exec/num.go,         *)
(* conv.go, reinterp.go) on slots twice as wide as the small integers:     *)
(* "i32" has Half bits and "i64" two times as many.  An instruction takes  *)
(* the slots it pops, the deepest first, and gives the set of slots it may *)
(* push: none if it panics, several where Go leaves the result open.       *)
(* A float of w bits is a sign and a magnitude in quarters; the largest    *)
(* magnitude is NaN, the one below infinity: like the IEEE formats, with   *)
(* evenly spaced numbers.                                                  *)
(***************************************************************************)
EXTENDS Integers, Sequences, SequencesExt, Bitwise

CONSTANTS Half,
          Slots          \* what slots hold

Bits(t) == IF t \in {"i32", "f32"} THEN Half ELSE 2 * Half
Signed(n, w) == IF n % 2 ^ w < 2 ^ (w - 1) THEN n % 2 ^ w ELSE (n % 2 ^ w) - 2 ^ w
popUint(slot, w) == slot % 2 ^ w
popInt(slot, w) == Signed(slot, w)
pushUint(n, w) == n % 2 ^ w
\* The sign goes through the whole slot.
pushInt(n, w) == Signed(n, w) % 2 ^ (2 * Half)
pushBool(b) == IF b THEN 1 ELSE 0

AbsVal(n) == IF n < 0 THEN -n ELSE n
\* Go's / rounds towards zero; bits.RotateLeft takes its count modulo the width.
Quotient(a, b) == LET q == AbsVal(a) \div AbsVal(b) IN IF (a < 0) = (b < 0) THEN q ELSE -q
RotateLeft(n, k, w) == LET j == k % w IN ((n * 2 ^ j) % 2 ^ w) + (n \div 2 ^ (w - j))
LeadingZeros(n, w) == Cardinality({b \in 0 .. w - 1 : n < 2 ^ b})
TrailingZeros(n, w) == Cardinality({b \in 0 .. w - 1 : n % 2 ^ (b + 1) = 0})
OnesCount(n, w) == Cardinality({b \in 0 .. w - 1 : (n \div 2 ^ b) % 2 = 1})

IntUnary == {"clz", "ctz", "popcnt", "eqz"}
IntBinary == {"add", "sub", "mul", "div_s", "div_u", "rem_s", "rem_u", "and", "or", "xor", "shl", "shr_s", "shr_u",
              "rotl", "rotr", "eq", "ne", "lt_s", "lt_u", "gt_s", "gt_u", "le_s", "le_u", "ge_s", "ge_u"}

Unary(op, w, slot) ==
  LET u == popUint(slot, w)
  IN CASE op = "clz"    -> {LeadingZeros(u, w)}
       [] op = "ctz"    -> {TrailingZeros(u, w)}
       [] op = "popcnt" -> {OnesCount(u, w)}
       [] op = "eqz"    -> {pushBool(u = 0)}

\* Division by zero panics and by -1 wraps; a shift may push out every bit.
Binary(op, w, slot1, slot2) ==
  LET u1 == popUint(slot1, w) u2 == popUint(slot2, w) i1 == popInt(slot1, w) i2 == popInt(slot2, w)
  IN CASE op = "add"   -> {pushUint(u1 + u2, w)}
       [] op = "sub"   -> {pushUint(u1 - u2, w)}
       [] op = "mul"   -> {pushUint(u1 * u2, w)}
       [] op = "div_s" -> IF i2 = 0 THEN {} ELSE {pushInt(Quotient(i1, i2), w)}
       [] op = "div_u" -> IF u2 = 0 THEN {} ELSE {pushUint(u1 \div u2, w)}
       [] op = "rem_s" -> IF i2 = 0 THEN {} ELSE {pushInt(i1 - i2 * Quotient(i1, i2), w)}
       [] op = "rem_u" -> IF u2 = 0 THEN {} ELSE {pushUint(u1 % u2, w)}
       [] op = "and"   -> {u1 & u2}
       [] op = "or"    -> {u1 | u2}
       [] op = "xor"   -> {u1 ^^ u2}
       [] op = "shl"   -> {IF u2 >= w THEN 0 ELSE pushUint(u1 * 2 ^ u2, w)}
       [] op = "shr_s" -> {pushInt(i1 \div 2 ^ (IF u2 >= w THEN w ELSE u2), w)}
       [] op = "shr_u" -> {IF u2 >= w THEN 0 ELSE u1 \div 2 ^ u2}
       [] op = "rotl"  -> {RotateLeft(u1, u2, w)}
       [] op = "rotr"  -> {RotateLeft(u1, -u2, w)}
       [] op = "eq"    -> {pushBool(u1 = u2)}
       [] op = "ne"    -> {pushBool(u1 # u2)}
       [] op = "lt_s"  -> {pushBool(i1 < i2)}
       [] op = "lt_u"  -> {pushBool(u1 < u2)}
       [] op = "gt_s"  -> {pushBool(i1 > i2)}
       [] op = "gt_u"  -> {pushBool(u1 > u2)}
       [] op = "le_s"  -> {pushBool(i1 <= i2)}
       [] op = "le_u"  -> {pushBool(u1 <= u2)}
       [] op = "ge_s"  -> {pushBool(i1 >= i2)}
       [] op = "ge_u"  -> {pushBool(u1 >= u2)}

\* The two widths differ in nothing but the width.
i32Instruction(op, slots) == IF op \in IntUnary THEN Unary(op, Bits("i32"), slots[1]) ELSE Binary(op, Bits("i32"), slots[1], slots[2])
i64Instruction(op, slots) == IF op \in IntUnary THEN Unary(op, Bits("i64"), slots[1]) ELSE Binary(op, Bits("i64"), slots[1], slots[2])

(***************************************************************************)
(* Floats, and what Go and its package math make of them.                  *)
(***************************************************************************)
NaN(w) == 2 ^ (w - 1) - 1
Inf(w) == NaN(w) - 1
Neg(x, w) == popUint(x, w) >= 2 ^ (w - 1)
Mag(x, w) == x % 2 ^ (w - 1)
Float(neg, mag, w) == (IF neg THEN 2 ^ (w - 1) ELSE 0) + mag
Rounded(neg, quarters, w) == Float(neg, IF quarters > Inf(w) THEN Inf(w) ELSE quarters, w)
IsNaN(x, w) == Mag(x, w) = NaN(w)
IsInf(x, w) == Mag(x, w) = Inf(w)
Value(x, w) == IF Neg(x, w) THEN -Mag(x, w) ELSE Mag(x, w)

Opposite(x, w) == Float(~Neg(x, w), Mag(x, w), w)
Sum(a, b, w) ==
  IF IsNaN(a, w) \/ IsNaN(b, w) \/ (IsInf(a, w) /\ IsInf(b, w) /\ Neg(a, w) # Neg(b, w)) THEN NaN(w)
  ELSE IF IsInf(a, w) THEN Float(Neg(a, w), Inf(w), w)
  ELSE IF IsInf(b, w) THEN Float(Neg(b, w), Inf(w), w)
  ELSE LET s == Value(a, w) + Value(b, w)
       IN Rounded(s < 0 \/ (Mag(a, w) = 0 /\ Mag(b, w) = 0 /\ Neg(a, w) /\ Neg(b, w)), AbsVal(s), w)
Product(a, b, w) ==
  LET neg == Neg(a, w) # Neg(b, w) none == Mag(a, w) = 0 \/ Mag(b, w) = 0 inf == IsInf(a, w) \/ IsInf(b, w)
  IN IF IsNaN(a, w) \/ IsNaN(b, w) \/ (none /\ inf) THEN NaN(w)
     ELSE IF inf THEN Float(neg, Inf(w), w) ELSE Rounded(neg, (Mag(a, w) * Mag(b, w) + 2) \div 4, w)
Ratio(a, b, w) ==
  LET neg == Neg(a, w) # Neg(b, w)
  IN IF IsNaN(a, w) \/ IsNaN(b, w) \/ (Mag(a, w) = Mag(b, w) /\ Mag(a, w) \in {0, Inf(w)}) THEN NaN(w)
     ELSE IF IsInf(a, w) \/ Mag(b, w) = 0 THEN Float(neg, Inf(w), w)
     ELSE IF IsInf(b, w) THEN Float(neg, 0, w) ELSE Rounded(neg, (4 * Mag(a, w) + (Mag(b, w) \div 2)) \div Mag(b, w), w)
Sqrt(x, w) ==
  IF Mag(x, w) = 0 \/ IsNaN(x, w) THEN popUint(x, w)
  ELSE IF Neg(x, w) THEN NaN(w) ELSE IF IsInf(x, w) THEN Inf(w)
  ELSE CHOOSE r \in 0 .. Inf(w) : r * r <= 4 * Mag(x, w) /\ (r + 1) * (r + 1) > 4 * Mag(x, w)
Less(a, b, w) == ~IsNaN(a, w) /\ ~IsNaN(b, w) /\ Value(a, w) < Value(b, w)
Same(a, b, w) == ~IsNaN(a, w) /\ ~IsNaN(b, w) /\ Value(a, w) = Value(b, w)
\* math.Min and math.Max look for the infinity before they look for NaN.
Extreme(a, b, w, min) ==
  IF \E x \in {a, b} : IsInf(x, w) /\ Neg(x, w) = min THEN Float(min, Inf(w), w)
  ELSE IF IsNaN(a, w) \/ IsNaN(b, w) THEN NaN(w)
  ELSE IF Mag(a, w) = 0 /\ Mag(b, w) = 0 THEN (IF Neg(a, w) = min THEN a ELSE b)
  ELSE IF (Value(a, w) < Value(b, w)) = min THEN a ELSE b
Copysign(x, sign, w) == Float(Neg(sign, w), Mag(x, w), w)
\* math.Trunc, Floor and Ceil keep the sign of a zero.
Whole(x, w, up) == IF Mag(x, w) >= Inf(w) THEN popUint(x, w)
                   ELSE Rounded(Neg(x, w), 4 * ((Mag(x, w) + (IF up THEN 3 ELSE 0)) \div 4), w)
\* A conversion to integers of v bits, for which Go promises nothing beyond their range.
ToInteger(x, w, v, signed) ==
  LET n == IF Neg(x, w) THEN -(Mag(x, w) \div 4) ELSE Mag(x, w) \div 4
      low == IF signed THEN -(2 ^ (v - 1)) ELSE 0
      high == IF signed THEN 2 ^ (v - 1) - 1 ELSE 2 ^ v - 1
  IN IF Mag(x, w) < Inf(w) /\ n \in low .. high THEN {n} ELSE low .. high
OfInteger(n, w) == Rounded(n < 0, 4 * AbsVal(n), w)

FloatUnary == {"abs", "neg", "ceil", "floor", "trunc", "nearest", "sqrt"}
FloatBinary == {"add", "sub", "mul", "div", "min", "max", "copysign", "eq", "ne", "lt", "gt", "le", "ge"}

\* A half with the sign of x is added and the sum cut to an integer of as many bits.
Nearest(x, w) == {OfInteger(n, w) : n \in ToInteger(Sum(x, Float(Neg(x, w), 2, w), w), w, w, TRUE)}

\* Where one operation pops both, what it calls v1 was on top.
OnFloats(op, w, slots) ==
  LET a == popUint(slots[1], w) b == popUint(slots[Len(slots)], w)
  IN CASE op = "abs"      -> {Float(FALSE, Mag(a, w), w)}
       [] op = "neg"      -> {Opposite(a, w)}
       [] op = "ceil"     -> {Whole(a, w, ~Neg(a, w))}
       [] op = "floor"    -> {Whole(a, w, Neg(a, w))}
       [] op = "trunc"    -> {Whole(a, w, FALSE)}
       [] op = "nearest"  -> Nearest(a, w)
       [] op = "sqrt"     -> {Sqrt(a, w)}
       [] op = "add"      -> {Sum(b, a, w)}
       [] op = "sub"      -> {Sum(a, Opposite(b, w), w)}
       [] op = "mul"      -> {Product(b, a, w)}
       [] op = "div"      -> {Ratio(a, b, w)}
       [] op = "min"      -> {Extreme(b, a, w, TRUE)}
       [] op = "max"      -> {Extreme(b, a, w, FALSE)}
       [] op = "copysign" -> {Copysign(b, a, w)}
       [] op = "eq"       -> {pushBool(Same(b, a, w))}
       [] op = "ne"       -> {pushBool(~Same(b, a, w))}
       [] op = "lt"       -> {pushBool(Less(a, b, w))}
       [] op = "gt"       -> {pushBool(Less(b, a, w))}
       [] op = "le"       -> {pushBool(Less(a, b, w) \/ Same(a, b, w))}
       [] op = "ge"       -> {pushBool(Less(b, a, w) \/ Same(a, b, w))}
f32Instruction(op, slots) == OnFloats(op, Bits("f32"), slots)
f64Instruction(op, slots) == OnFloats(op, Bits("f64"), slots)

Resized(x, w, v) == IF Mag(x, w) >= Inf(w) THEN Float(Neg(x, w), Mag(x, w) - NaN(w) + NaN(v), v) ELSE Rounded(Neg(x, w), Mag(x, w), v)

Conversion(op, from, to, slot) ==
  LET w == Bits(from) v == Bits(to) u == popUint(slot, w) i == popInt(slot, w)
  IN CASE op \in {"wrap", "extend_u"}   -> {pushUint(u, v)}
       [] op = "extend_s"               -> {pushInt(i, v)}
       [] op \in {"demote", "promote"}  -> {Resized(u, w, v)}
       [] op = "trunc_s"                -> {pushInt(n, v) : n \in ToInteger(Whole(u, w, FALSE), w, v, TRUE)}
       [] op = "trunc_u"                -> {pushUint(n, v) : n \in ToInteger(Whole(u, w, FALSE), w, v, FALSE)}
       [] op = "convert_s"              -> {OfInteger(i, v)}
       [] op = "convert_u"              -> {OfInteger(u, v)}
Reinterpretation(from, slot) == {pushUint(popUint(slot, Bits(from)), Bits(from))}

(***************************************************************************)
(* The table of instructions: names in the order of their codes (the       *)
(* package operators) and the method each code is given.                   *)
(***************************************************************************)
Of(t, ops) == [i \in 1 .. Len(ops) |-> <<t, ops[i]>>]
IntComparisons == <<"eqz", "eq", "ne", "lt_s", "lt_u", "gt_s", "gt_u", "le_s", "le_u", "ge_s", "ge_u">>
FloatComparisons == <<"eq", "ne", "lt", "gt", "le", "ge">>
Comparisons == Of("i32", IntComparisons) \o Of("i64", IntComparisons) \o Of("f32", FloatComparisons) \o Of("f64", FloatComparisons)
IntNumeric == <<"clz", "ctz", "popcnt", "add", "sub", "mul", "div_s", "div_u", "rem_s", "rem_u", "and", "or", "xor",
                "shl", "shr_s", "shr_u", "rotl", "rotr">>
FloatNumeric == <<"abs", "neg", "ceil", "floor", "trunc", "nearest", "sqrt", "add", "sub", "mul", "div", "min", "max", "copysign">>
Numerics == Of("i32", IntNumeric) \o Of("i64", IntNumeric) \o Of("f32", FloatNumeric) \o Of("f64", FloatNumeric)
Truncations(t) == <<<<t, "trunc_s", "f32">>, <<t, "trunc_u", "f32">>, <<t, "trunc_s", "f64">>, <<t, "trunc_u", "f64">>>>
Converts(t) == <<<<t, "convert_s", "i32">>, <<t, "convert_u", "i32">>, <<t, "convert_s", "i64">>, <<t, "convert_u", "i64">>>>
ConversionOps ==
  <<<<"i32", "wrap", "i64">>>> \o Truncations("i32") \o <<<<"i64", "extend_s", "i32">>, <<"i64", "extend_u", "i32">>>> \o Truncations("i64")
  \o Converts("f32") \o <<<<"f32", "demote", "f64">>>> \o Converts("f64") \o <<<<"f64", "promote", "f32">>>>
ReinterpretOps == <<<<"i32", "reinterpret", "f32">>, <<"i64", "reinterpret", "f64">>, <<"f32", "reinterpret", "i32">>, <<"f64", "reinterpret", "i64">>>>
Operations == Comparisons \o Numerics \o ConversionOps \o ReinterpretOps
FirstCode == \h45

\* What newOp is told that an instruction takes and returns.
Takes(i) == IF Len(i) = 3 THEN <<i[3]>>
            ELSE IF i[2] \in IntUnary \cup FloatUnary THEN <<i[1]>> ELSE <<i[1], i[1]>>
Returned(i) == IF i[2] \in ToSet(IntComparisons) \cup ToSet(FloatComparisons) THEN "i32" ELSE i[1]

\* newFuncTable: the method of a code, on the slots it pops.
funcTable(code, slots) ==
  LET i == Operations[code - FirstCode + 1]
  IN CASE Len(i) = 3 /\ i[2] = "reinterpret" -> Reinterpretation(i[3], slots[1])
       [] Len(i) = 3 /\ i[2] # "reinterpret" -> Conversion(i[2], i[3], i[1], slots[1])
       [] Len(i) = 2 /\ i[1] = "i32"         -> i32Instruction(i[2], slots)
       [] Len(i) = 2 /\ i[1] = "i64"         -> i64Instruction(i[2], slots)
       [] Len(i) = 2 /\ i[1] = "f32"         -> f32Instruction(i[2], slots)
       [] Len(i) = 2 /\ i[1] = "f64"         -> f64Instruction(i[2], slots)

(***************************************************************************)
(* WebAssembly: what the instructions should give, on numbers of w bits;   *)
(* a trap is the empty set.                                                *)
(***************************************************************************)
Digit(n, i) == (n \div 2 ^ i) % 2
FromDigits(d) == LET f[i \in 0 .. Cardinality(DOMAIN d)] == IF i = 0 THEN 0 ELSE f[i - 1] + d[i - 1] * 2 ^ (i - 1)
                 IN f[Cardinality(DOMAIN d)]
Least(S) == CHOOSE n \in S : \A m \in S : n <= m
InWord(n, w) == n % 2 ^ w
Truth(b) == IF b THEN 1 ELSE 0

\* The quotient and the rest that goes with it have the signs the divisor and the dividend give.
Divides(a, b, q, r) == a = b * q + r /\ AbsVal(r) < AbsVal(b) /\ (r # 0 => (r < 0) = (a < 0))
Parts(a, b, range) == CHOOSE q \in range : \E r \in {a - b * q} : Divides(a, b, q, r)

StandardInt(op, w, m, n) ==
  LET words == 0 .. w - 1
      k == n % w
      a == Signed(m, w)
      b == Signed(n, w)
      signs == -(2 ^ (w - 1)) .. 2 ^ (w - 1)
  IN CASE op = "clz"    -> {Least({w - 1 - i : i \in {i \in words : Digit(m, i) = 1}} \cup {w})}
       [] op = "ctz"    -> {Least({i \in words : Digit(m, i) = 1} \cup {w})}
       [] op = "popcnt" -> {Cardinality({i \in words : Digit(m, i) = 1})}
       [] op = "eqz"    -> {Truth(m = 0)}
       [] op = "add"    -> {InWord(m + n, w)}
       [] op = "sub"    -> {InWord(m - n + 2 ^ w, w)}
       [] op = "mul"    -> {InWord(m * n, w)}
       [] op = "div_s"  -> IF b = 0 \/ (a = -(2 ^ (w - 1)) /\ b = -1) THEN {} ELSE {InWord(Parts(a, b, signs), w)}
       [] op = "div_u"  -> IF n = 0 THEN {} ELSE {Parts(m, n, 0 .. m)}
       [] op = "rem_s"  -> IF b = 0 THEN {} ELSE {InWord(a - b * Parts(a, b, signs), w)}
       [] op = "rem_u"  -> IF n = 0 THEN {} ELSE {m - n * Parts(m, n, 0 .. m)}
       [] op = "and"    -> {FromDigits([i \in words |-> Digit(m, i) * Digit(n, i)])}
       [] op = "or"     -> {FromDigits([i \in words |-> Truth(Digit(m, i) + Digit(n, i) > 0)])}
       [] op = "xor"    -> {FromDigits([i \in words |-> Truth(Digit(m, i) # Digit(n, i))])}
       [] op = "shl"    -> {FromDigits([i \in words |-> IF i >= k THEN Digit(m, i - k) ELSE 0])}
       [] op = "shr_u"  -> {FromDigits([i \in words |-> IF i + k < w THEN Digit(m, i + k) ELSE 0])}
       [] op = "shr_s"  -> {FromDigits([i \in words |-> Digit(m, IF i + k < w THEN i + k ELSE w - 1)])}
       [] op = "rotl"   -> {FromDigits([i \in words |-> Digit(m, (i - k + w) % w)])}
       [] op = "rotr"   -> {FromDigits([i \in words |-> Digit(m, (i + k) % w)])}
       [] op = "eq"     -> {Truth(m = n)}
       [] op = "ne"     -> {Truth(m # n)}
       [] op = "lt_s"   -> {Truth(a < b)}
       [] op = "lt_u"   -> {Truth(m < n)}
       [] op = "gt_s"   -> {Truth(b < a)}
       [] op = "gt_u"   -> {Truth(n < m)}
       [] op = "le_s"   -> {Truth(~(b < a))}
       [] op = "le_u"   -> {Truth(~(n < m))}
       [] op = "ge_s"   -> {Truth(~(a < b))}
       [] op = "ge_u"   -> {Truth(~(m < n))}

\* The least multiple of a whole that is no less than v quarters.
Above(v) == CHOOSE n \in v .. v + 3 : n % 4 = 0
StandardWhole(x, w, v) == IF Mag(x, w) >= Inf(w) THEN x ELSE Rounded(Neg(x, w), AbsVal(v), w)
\* The nearest whole, and the even one of two.
Closest(v) ==
  LET wholes == {n \in v - 4 .. v + 4 : n % 4 = 0}
      near == {n \in wholes : \A m \in wholes : AbsVal(n - v) <= AbsVal(m - v)}
  IN IF Cardinality(near) = 1 THEN CHOOSE n \in near : TRUE ELSE CHOOSE n \in near : n % 8 = 0
Ordered(x, y, w) == Value(x, w) < Value(y, w) \/ (Value(x, w) = Value(y, w) /\ (Neg(x, w) \/ ~Neg(y, w)))

StandardFloat(op, w, x, y) ==
  LET nan == IsNaN(x, w) \/ IsNaN(y, w)
      v == Value(x, w) u == Value(y, w)
  IN CASE op = "abs"      -> {IF Neg(x, w) THEN Opposite(x, w) ELSE x}
       [] op = "neg"      -> {Opposite(x, w)}
       [] op = "ceil"     -> {StandardWhole(x, w, Above(v))}
       [] op = "floor"    -> {StandardWhole(x, w, -Above(-v))}
       [] op = "trunc"    -> {StandardWhole(x, w, IF v < 0 THEN Above(v) ELSE -Above(-v))}
       [] op = "nearest"  -> {StandardWhole(x, w, Closest(v))}
       [] op = "sqrt"     -> {Sqrt(x, w)}
       [] op = "add"      -> {Sum(x, y, w)}
       [] op = "sub"      -> {Sum(x, Opposite(y, w), w)}
       [] op = "mul"      -> {Product(x, y, w)}
       [] op = "div"      -> {Ratio(x, y, w)}
       [] op = "min"      -> {IF nan THEN NaN(w) ELSE IF Ordered(x, y, w) THEN x ELSE y}
       [] op = "max"      -> {IF nan THEN NaN(w) ELSE IF Ordered(x, y, w) THEN y ELSE x}
       [] op = "copysign" -> {IF Neg(x, w) = Neg(y, w) THEN x ELSE Opposite(x, w)}
       [] op = "eq"       -> {Truth(~nan /\ v = u)}
       [] op = "ne"       -> {Truth(nan \/ v # u)}
       [] op = "lt"       -> {Truth(~nan /\ v < u)}
       [] op = "gt"       -> {Truth(~nan /\ v > u)}
       [] op = "le"       -> {Truth(~nan /\ v <= u)}
       [] op = "ge"       -> {Truth(~nan /\ v >= u)}

\* A conversion to an integer traps where there is none.
Cut(v) == {n \in -(2 ^ (2 * Half)) .. 2 ^ (2 * Half) : AbsVal(4 * n) <= AbsVal(v) /\ AbsVal(v) < AbsVal(4 * n) + 4 /\ n * v >= 0}
StandardConversion(op, w, v, x) ==
  LET low == IF op = "trunc_s" THEN -(2 ^ (v - 1)) ELSE 0
      size == 2 ^ v
      value == IF op = "convert_s" THEN Signed(x, w) ELSE x
  IN CASE op \in {"wrap", "extend_u", "reinterpret"} -> {x % size}
       [] op = "extend_s"              -> {Signed(x, w) % size}
       [] op \in {"trunc_s", "trunc_u"} ->
            IF Mag(x, w) >= Inf(w) THEN {} ELSE {n % size : n \in Cut(Value(x, w)) \cap low .. low + size - 1}
       [] op \in {"convert_s", "convert_u"} -> {Rounded(value < 0, AbsVal(4 * value), v)}
       [] op \in {"demote", "promote"} ->
            {IF IsNaN(x, w) THEN NaN(v) ELSE IF IsInf(x, w) THEN Float(Neg(x, w), Inf(v), v) ELSE Rounded(Neg(x, w), Mag(x, w), v)}

Standard(i, args) ==
  LET w == Bits(Takes(i)[1])
  IN IF Len(i) = 3 THEN StandardConversion(i[2], w, Bits(i[1]), args[1])
     ELSE IF i[1] \in {"i32", "i64"} THEN StandardInt(i[2], w, args[1], args[Len(args)])
     ELSE StandardFloat(i[2], w, args[1], args[Len(args)])

\* Where the interpreter has a way of its own.  Counts are not taken modulo the width; the one
\* quotient that is no number of w bits wraps; nearest
\* rounds a half away from zero, and what becomes zero loses its sign; an infinity comes
\* before NaN in min and max; a conversion to an integer never traps.
Own(i, args) ==
  LET op == i[2] w == Bits(Takes(i)[1]) x == args[1] y == args[Len(args)]
  IN \/ op \in {"shl", "shr_s", "shr_u"} /\ y >= w
     \/ op = "div_s" /\ Signed(x, w) = -(2 ^ (w - 1)) /\ Signed(y, w) = -1
     \/ op = "nearest" /\ \/ Mag(x, w) + 2 >= Inf(w)
                          \/ Mag(x, w) % 8 = 2
                          \/ Neg(x, w) /\ Mag(x, w) < 2
     \/ op \in {"min", "max"} /\ (IsNaN(x, w) \/ IsNaN(y, w)) /\ \E z \in {x, y} : IsInf(z, w) /\ Neg(z, w) = (op = "min")
     \/ op \in {"trunc_s", "trunc_u"} /\ Len(i) = 3 /\ Standard(i, args) = {}
-----------------------------------------------------------------------------
Popped(i) == LET n == Len(Takes(i)) IN [1 .. n -> Slots]
Read(i, slots) == [k \in DOMAIN slots |-> slots[k] % 2 ^ Bits(Takes(i)[k])]
\* Any NaN is as good as another.
Seen(i, slot) == LET t == Returned(i) n == slot % 2 ^ Bits(t) IN IF t \in {"f32", "f64"} /\ IsNaN(n, Bits(t)) THEN NaN(Bits(t)) ELSE n
Results(i, slots) == {Seen(i, r) : r \in slots}

\* NumericStandard: every instruction gives what WebAssembly says, of the type its table
\* entry declares, and traps where that does, whatever is in the upper halves of the slots,
\* but for the cases named above and copysign, whose operands are exchanged (num.go:14-508, conv.go:11-93, reinterp.go:15-29).
NumericStandard ==
  \A code \in FirstCode .. FirstCode + Len(Operations) - 1 :
    LET i == Operations[code - FirstCode + 1] IN
    \A slots \in Popped(i) : LET args == Read(i, slots) IN
      Own(i, args) \/ Results(i, funcTable(code, slots)) = Results(i, Standard(i, IF i[2] = "copysign" THEN Reverse(args) ELSE args))

\* CodesComplete: the tables give all codes up to 0xbf, each to one instruction (operators/comp.go,
\* num.go, conv.go, reinterp.go, exec/func_table.go:11-144).
CodesComplete ==
  /\ FirstCode + Len(Operations) - 1 = \hbf
  /\ \A k, n \in DOMAIN Operations : Operations[k] = Operations[n] => k = n
  /\ \A t \in {"i32", "i64"} : \A op \in IntUnary \cup IntBinary : <<t, op>> \in ToSet(Operations)
  /\ \A t \in {"f32", "f64"} : \A op \in FloatUnary \cup FloatBinary : <<t, op>> \in ToSet(Operations)
=============================================================================
