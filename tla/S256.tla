--------------------------------- MODULE S256 ---------------------------------
(***************************************************************************)
(* crypto/ecdsa/ecdsa_s256.go: the curve y^2 = x^3 + 7, with points in     *)
(* Jacobian coordinates, (x / z^2, y / z^3), and z = 0 for infinity.       *)
(* Elements of the field are not kept reduced: an element is its value     *)
(* with its magnitude m (FieldVal), 0 for one that has just been           *)
(* normalized, and with the mark ok, lost once an operation was given more *)
(* than its comment allows.  Numbers are sequences of bytes of ByteBits    *)
(* bits, the most significant first.                                       *)
(***************************************************************************)
EXTENDS BigBytes

CONSTANTS P, N, Gx, Gy,       \* the prime, the order, the base point
          beta, a1, b1, a2, b2, \* the endomorphism and the lattice of splitK
          ByteSize

-------------------------------------------------------------------------------
Reduced(n) == n % P
Element(v) == [v |-> v, m |-> 0, ok |-> TRUE]
Magnitude(f) == IF f.m = 0 THEN 1 ELSE f.m
Normal(f) == [f EXCEPT !.m = 0]
Made(v, m, ok) == [v |-> v % P, m |-> m, ok |-> ok /\ m < 64]
Plus(f, g) == Made(f.v + g.v, Magnitude(f) + Magnitude(g), f.ok /\ g.ok)
TimesInt(f, n) == Made(f.v * n, Magnitude(f) * n, f.ok)
Negated(f, m) == Made(-f.v, m + 1, f.ok /\ Magnitude(f) <= m)
Times(f, g) == Made(f.v * g.v, 1, f.ok /\ g.ok /\ Magnitude(f) <= 8 /\ Magnitude(g) <= 8)
Square(f) == Times(f, f)
\* The inverse of zero, a power of it, is zero.
InverseOf == [v \in 0 .. P - 1 |-> IF v = 0 THEN 0 ELSE CHOOSE w \in 1 .. P - 1 : v * w % P = 1]
Inverted(f) == Made(InverseOf[f.v], 1, f.ok /\ Magnitude(f) <= 8)

Point(x, y, z) == [x |-> x, y |-> y, z |-> z]
Infinity == Point(Element(0), Element(0), Element(0))
NormalPoint(p) == Point(Normal(p.x), Normal(p.y), Normal(p.z))
\* Elements are compared, and known to be zero, limb by limb.
Seen(p, ok) == [p EXCEPT !.x.ok = @ /\ ok]
CanTell(f) == f.m = 0 \/ f.v # 0
Finite(p) == ~(p.x.v = 0 /\ p.y.v = 0) /\ p.z.v # 0
-------------------------------------------------------------------------------
DoubledZ(p) == IF p.z = Element(1) THEN TimesInt(p.y, 2) ELSE TimesInt(Times(p.y, p.z), 2)

\* doubleZ1EqualsOne and doubleGeneric.
DoubledPoint(p) ==
  LET b == Square(p.y)
      c == Square(b)
      d == TimesInt(Plus(Negated(Plus(Square(p.x), c), 2), Square(Plus(b, p.x))), 2)
      e == TimesInt(Square(p.x), 3)
      X(dd) == Plus(Negated(TimesInt(dd, 2), 16), Square(e))
      Y(dd, x3) == Plus(Negated(TimesInt(c, 8), 8), Times(Normal(Plus(Negated(x3, 18), dd)), e))
      Both(dd, x3) == Point(x3, Y(dd, x3), DoubledZ(p))
      WithD(dd) == Both(dd, X(dd))
  IN NormalPoint(WithD(d))

doubleJacobian(p) ==
  IF p.y.v = 0 \/ p.z.v = 0 THEN Seen(Infinity, CanTell(p.y) /\ CanTell(p.z))
  ELSE DoubledPoint([p EXCEPT !.z = Normal(@)])

\* The sum of points with equal x-coordinates, brought to one denominator.
SameX(p, sameY) == IF sameY THEN doubleJacobian(p) ELSE Infinity

addZ1AndZ2EqualsOne(p, q) ==
  LET Sum(h, i, r, v) ==
        LET j == Times(h, i)
            X == Plus(Plus(Square(r), Negated(j, 1)), Negated(TimesInt(v, 2), 2))
            Y(x3) == Plus(Times(Plus(v, Negated(x3, 6)), r), Negated(TimesInt(Times(j, p.y), 2), 2))
        IN Point(X, Y(X), TimesInt(h, 2))
      From(h, i) == Sum(h, i, TimesInt(Plus(Negated(p.y, 1), q.y), 2), Times(p.x, i))
      WithH(h) == From(h, TimesInt(Square(h), 4))
  IN IF p.x.v = q.x.v THEN SameX(p, p.y.v = q.y.v)
     ELSE NormalPoint(WithH(Plus(Negated(p.x, 1), q.x)))

\* The z-coordinate of the sum stays as it comes out of the product.
addZ1EqualsZ2(p, q) ==
  LET Sum(a, c, e, f) ==
        LET X == Plus(Negated(Plus(e, f), 3), Square(c))
            Y(x3) == Plus(Negated(Times(p.y, Plus(f, Negated(e, 1))), 3),
                          Times(Plus(e, Normal(Negated(x3, 5))), c))
        IN Point(Normal(X), Normal(Y(X)), Times(p.z, a))
      WithB(a, b) == Sum(a, Plus(Negated(p.y, 1), q.y), Times(p.x, b), Times(q.x, b))
      WithA(a) == WithB(a, Square(a))
  IN IF p.x.v = q.x.v THEN SameX(p, p.y.v = q.y.v)
     ELSE WithA(Plus(Negated(p.x, 1), q.x))

\* What addZ2EqualsOne and addGeneric share, for u1, s1 and u2, s2, the coordinates of
\* the points over one denominator.
Combined(u1, s1, h, i, r, z3) ==
  LET j == Times(h, i)
      v == Times(u1, i)
      X(jj, vv) == Plus(Negated(Plus(TimesInt(vv, 2), jj), 3), Square(r))
      Y(jj, vv, x3) == Plus(Negated(TimesInt(Times(s1, jj), 2), 2), Times(Plus(vv, Negated(x3, 5)), r))
      Both(jj, vv, x3) == Point(x3, Y(jj, vv, x3), z3)
      Sum(jj, vv) == Both(jj, vv, X(jj, vv))
  IN NormalPoint(Sum(j, v))

addZ2EqualsOne(p, q) ==
  LET Sum(z1z1, hh, h, s2) ==
        Combined(p.x, p.y, h, TimesInt(hh, 4), TimesInt(Plus(s2, Negated(p.y, 1)), 2),
                 Plus(Square(Plus(p.z, h)), Negated(Plus(z1z1, hh), 2)))
      WithH(z1z1, h, s2) == Sum(z1z1, Square(h), h, s2)
      Over(z1z1, u2, s2) ==
        IF p.x.v = u2.v THEN SameX(p, p.y.v = s2.v)
        ELSE WithH(z1z1, Plus(u2, Negated(p.x, 1)), s2)
      WithZ(z1z1) == Over(z1z1, Normal(Times(q.x, z1z1)), Normal(Times(Times(q.y, z1z1), p.z)))
  IN WithZ(Square(p.z))

addGeneric(p, q) ==
  LET Sum(z1z1, z2z2, u1, s1, h, s2) ==
        Combined(u1, s1, h, Square(TimesInt(h, 2)), TimesInt(Plus(s2, Negated(s1, 1)), 2),
                 Times(Plus(Square(Plus(p.z, q.z)), Negated(Plus(z1z1, z2z2), 2)), h))
      Over(z1z1, z2z2, u1, s1, u2, s2) ==
        IF u1.v = u2.v THEN SameX(p, s1.v = s2.v)
        ELSE Sum(z1z1, z2z2, u1, s1, Plus(u2, Negated(u1, 1)), s2)
      WithZ(z1z1, z2z2) ==
        Over(z1z1, z2z2, Normal(Times(p.x, z2z2)), Normal(Times(Times(p.y, z2z2), q.z)),
                         Normal(Times(q.x, z1z1)), Normal(Times(Times(q.y, z1z1), p.z)))
  IN WithZ(Square(p.z), Square(q.z))

addJacobian(p, q) ==
  LET NormalXY(r) == [r EXCEPT !.x = Normal(@), !.y = Normal(@)]
      Add(r, s) ==
        CASE r.z.v = 1 /\ s.z.v = 1 -> addZ1AndZ2EqualsOne(NormalXY(r), NormalXY(s))
          [] r.z.v = s.z.v /\ r.z.v # 1 -> addZ1EqualsZ2(NormalXY(r), NormalXY(s))
          [] s.z.v = 1 /\ r.z.v # 1 -> addZ2EqualsOne(NormalXY(r), s)
          [] OTHER -> addGeneric(r, s)
  IN CASE ~Finite(p) -> Seen(q, CanTell(p.z))
       [] Finite(p) /\ ~Finite(q) -> Seen(p, CanTell(q.z))
       [] OTHER -> Add([p EXCEPT !.z = Normal(@)], [q EXCEPT !.z = Normal(@)])
-------------------------------------------------------------------------------
\* Points as the callers have them: two numbers, both 0 for infinity.
Origin == <<0, 0>>
fieldJacobianToBigAffine(p) ==
  LET X(zi) == Times(p.x, Square(zi))
      Y(zi) == Times(p.y, Times(Square(zi), zi))
      Pair(x, y) == [at |-> <<x.v, y.v>>, ok |-> x.ok /\ y.ok]
  IN Pair(X(Inverted(p.z)), Y(Inverted(p.z)))
bigAffineToField(a) == Point(Element(a[1]), Element(a[2]), Element(1))

IsOnCurve(a) == Reduced(a[2] * a[2]) = Reduced(a[1] * a[1] * a[1] + 7)

\* The two shortcuts hand the other point back.
Add256(a, b) ==
  CASE a = Origin -> [at |-> b, ok |-> TRUE]
    [] a # Origin /\ b = Origin -> [at |-> a, ok |-> TRUE]
    [] OTHER -> fieldJacobianToBigAffine(addJacobian(bigAffineToField(a), bigAffineToField(b)))
Double256(a) == IF a[2] = 0 THEN [at |-> Origin, ok |-> TRUE]
                ELSE fieldJacobianToBigAffine(doubleJacobian(bigAffineToField(a)))

\* k as k1 + k2 * lambda, both short.
splitK(k) ==
  LET c1 == (b2 * k) \div N
      c2 == (b1 * k) \div N
  IN <<k - c1 * a1 + c2 * a2, c2 * b2 - c1 * b1>>

moduloReduce(k) == IF Len(k) > ByteSize THEN BytesOf(FromBytes(k) % N) ELSE k

Magnitudes(n) == BytesOf(IF n < 0 THEN -n ELSE n)

\* The digits of k, -1, 0 or 1 and no two of them in a row but 0, the most significant
\* first, with a byte more than k has for the carry.
naf(k) ==
  LET Bit(i) == IF i < ByteBits * Len(k) THEN FromBytes(k) \div 2 ^ i % 2 ELSE 0
      Step(s, i) ==
        CASE s.carry = (Bit(i) = 1) -> [s EXCEPT !.digits = <<0>> \o @]
          [] s.carry # (Bit(i) = 1) /\ Bit(i + 1) = 1 ->
               [digits |-> <<-1>> \o s.digits, carry |-> TRUE]
          [] OTHER -> [digits |-> <<1>> \o s.digits, carry |-> FALSE]
      Closed(s) == [i \in 1 .. ByteBits |-> IF s.carry /\ i = ByteBits THEN 1 ELSE 0] \o s.digits
  IN Closed(FoldLeft(Step, [digits |-> <<>>, carry |-> FALSE],
                     [i \in 1 .. ByteBits * Len(k) |-> i - 1]))

\* A point with its opposite, for the digits 1 and -1; exchanged for a negative half.
Opposites(p) == <<p, [p EXCEPT !.y = Negated(@, 1)]>>
Signed(n, ps) == IF n < 0 THEN <<ps[2], ps[1]>> ELSE ps
\* One digit's share: the point, its opposite, or nothing.
Added(q, digit, ps) == IF digit = 0 THEN q ELSE addJacobian(q, ps[IF digit = 1 THEN 1 ELSE 2])
Endomorphic(p) == [p EXCEPT !.x = Times(@, Element(beta))]
ZerosTo(m, ds) == IF Len(ds) < m THEN [i \in 1 .. m - Len(ds) |-> 0] ELSE <<>>
\* The two halves of the scalar, added while doubling.
Interleaved(ds, es, ps1, ps2) ==
  FoldLeft(LAMBDA q, i : FoldLeft(LAMBDA r, half : Added(r, half[1], half[2]), doubleJacobian(q),
                                  <<<<ds[i], ps1>>, <<es[i], ps2>>>>),
           Infinity, [i \in 1 .. Len(ds) |-> i])
Aligned(ds, es, ps1, ps2) ==
  Interleaved(ZerosTo(Len(es), ds) \o ds, ZerosTo(Len(ds), es) \o es, ps1, ps2)

ScalarMult256(a, k) ==
  LET Split(ks, p) ==
        Aligned(naf(Magnitudes(ks[1])), naf(Magnitudes(ks[2])), Signed(ks[1], Opposites(p)),
                Signed(ks[2], Opposites(Endomorphic(p))))
  IN fieldJacobianToBigAffine(Split(splitK(FromBytes(moduloReduce(k))), bigAffineToField(a)))

\* The textbook's sum of two points, by the slope of the line through them.
Slope(a, b) == IF a = b THEN Reduced(3 * a[1] * a[1] * InverseOf[Reduced(2 * a[2])])
               ELSE Reduced((b[2] - a[2]) * InverseOf[Reduced(b[1] - a[1])])
OnLine(a, b, s) ==
  LET X == Reduced(s * s - a[1] - b[1]) IN <<X, Reduced(s * (a[1] - X) - a[2])>>
SumOf(a, b) ==
  CASE a = Origin -> b
    [] a # Origin /\ b = Origin -> a
    [] a # Origin /\ b # Origin /\ a[1] = b[1] /\ a[2] # b[2] -> Origin
    [] OTHER -> OnLine(a, b, Slope(a, b))
\* The multiples of the base point; 0 is infinity.
BaseMultiples[n \in 0 .. N - 1] == IF n = 0 THEN Origin ELSE SumOf(BaseMultiples[n - 1], <<Gx, Gy>>)
Scaled(a, z) == Point(Element(Reduced(a[1] * z * z)), Element(Reduced(Reduced(a[2] * z * z) * z)), Element(z))
\* The precomputed table: for each byte of a scalar, what it stands for times the base
\* point, with the z that it was computed with.
bytePoints(i, d) ==
  LET n == (d * Byte ^ (ByteSize - i)) % N IN IF n = 0 THEN Infinity ELSE Scaled(BaseMultiples[n], 1 + d)

ScalarBaseMult256(k) ==
  LET Sum(newK) ==
        FoldLeft(LAMBDA q, i : addJacobian(q, bytePoints(ByteSize - Len(newK) + i, newK[i])),
                 Infinity, [i \in 1 .. Len(newK) |-> i])
  IN fieldJacobianToBigAffine(Sum(moduloReduce(k)))
-------------------------------------------------------------------------------
Curve == {a \in (0 .. P - 1) \X (0 .. P - 1) : IsOnCurve(a)}
Group == Curve \cup {Origin}
Jacobian(a, z) == IF a = Origin THEN Infinity ELSE Scaled(a, z)

\* GroupLaw: whichever of the four formulas adds two points, for whatever z they are
\* kept with, the sum is that of the group, and no field operation is given an operand
\* beyond the magnitude it is made for (ecdsa_s256.go:84-347).
GroupLaw ==
  /\ \A a, b \in Group, z, w \in {1, 3} :
       fieldJacobianToBigAffine(addJacobian(Jacobian(a, z), Jacobian(b, w))) = [at |-> SumOf(a, b), ok |-> TRUE]
  /\ \A a \in Group : /\ Double256(a) = [at |-> SumOf(a, a), ok |-> TRUE]
                      /\ Add256(a, a) = Double256(a)

\* ScalarsExact: multiplying by the halves of a split scalar in non-adjacent form, and
\* the base point by its table, is adding that often, for scalars that are longer than
\* the order, or reduced first, too (ecdsa_s256.go:350-535).
ScalarsExact ==
  \A k \in 0 .. 2 * Byte ^ ByteSize :
    /\ ScalarBaseMult256(BytesOf(k)) = [at |-> BaseMultiples[k % N], ok |-> TRUE]
    /\ ScalarMult256(BaseMultiples[2], BytesOf(k)) = [at |-> BaseMultiples[2 * k % N], ok |-> TRUE]
    /\ \E ds \in {naf(BytesOf(k))} :
         /\ FoldLeft(LAMBDA n, d : 2 * n + d, 0, ds) = k
         /\ \A i \in 1 .. Len(ds) - 1 : ds[i] = 0 \/ ds[i + 1] = 0
==============================================================================
