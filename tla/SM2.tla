--------------------------------- MODULE SM2 ---------------------------------
(***************************************************************************)
(* crypto/sm2/p256.go and sm2.go: the curve y^2 = x^3 - 3x + B, with       *)
(* points in Jacobian coordinates, (x / z^2, y / z^3), and z = 0 for       *)
(* infinity, and the signatures and the encryption over it.  Elements of   *)
(* the field are their values; the limbs in which p256.go keeps them are   *)
(* left out.  A scalar has 2 * Stride * Teeth bits, as many as KeyBytes    *)
(* bytes, the most significant first.  Random numbers are arguments; an    *)
(* operation that draws again gives <<>>.                                  *)
(***************************************************************************)
EXTENDS BigBytes, Bitwise, FiniteSets

CONSTANTS P, N, B, Gx, Gy,      \* the prime, the order, the curve, the base point
          KeyBytes,
          Stride, Teeth, Window, \* 32, 4 and 4 in the code
          sm3(_),               \* from bytes to KeyBytes of them
          defaultUID, MaxUid,   \* MaxUid is 8192 in the code
          Hashes, Texts, Uids   \* what signing, encrypting and naming are tried with

-------------------------------------------------------------------------------
Reduced(n) == n % P
A == P - 3
\* big.Int leaves a number that has no inverse as it was, and that is zero.
InverseOf == [v \in 0 .. P - 1 |-> IF v = 0 THEN 0 ELSE CHOOSE w \in 1 .. P - 1 : v * w % P = 1]
Cubic(x) == Reduced(Reduced(x * x) * x + A * x + B)
IsOnCurve(a) == Cubic(Reduced(a[1])) = Reduced(a[2] * a[2])

Point(x, y, z) == [x |-> Reduced(x), y |-> Reduced(y), z |-> Reduced(z)]
Infinity == Point(0, 0, 0)

PointDouble(p) ==
  LET y2 == Reduced(p.y * p.y)
      z2 == Reduced(p.z * p.z)
      s == Reduced(4 * p.x * y2)
      m == Reduced(3 * p.x * p.x + A * Reduced(z2 * z2))
      x3 == Reduced(m * m - 2 * s)
  IN Point(x3, m * (s - x3) - 8 * y2 * y2, (p.y + p.z) * (p.y + p.z) - z2 - y2)

\* The sum with a point whose z is 1, right when the two are neither equal nor infinity.
PointAddMixed(p, a) ==
  LET zz == Reduced(p.z * p.z)
      h == Reduced(a[1] * zz - p.x)
      i == Reduced(4 * h * h)
      j == Reduced(h * i)
      r == Reduced(2 * (Reduced(a[2] * zz) * p.z - p.y))
      v == Reduced(p.x * i)
      x3 == Reduced(r * r - j - 2 * v)
  IN Point(x3, (v - x3) * r - 2 * p.y * j, 2 * p.z * h)

\* For two equal points the first operand is doubled where it is, which no caller sees,
\* and the sum is computed all the same, with h and r both zero.
PointAdd(p, q) ==
  LET z12 == Reduced(p.z * p.z)
      z22 == Reduced(q.z * q.z)
      u1 == Reduced(p.x * z22)
      s1 == Reduced(Reduced(p.y * z22) * q.z)
      h == Reduced(q.x * z12 - u1)
      r == Reduced(Reduced(q.y * z12) * p.z - s1)
      h2 == Reduced(h * h)
      uh2 == Reduced(u1 * h2)
      x3 == Reduced(r * r - h2 * h - 2 * uh2)
  IN CASE p.z = 0 -> q
       [] p.z # 0 /\ q.z = 0 -> p
       [] OTHER -> Point(x3, r * (uh2 - x3) - Reduced(h2 * h) * s1, Reduced(p.z * q.z) * h)

PointToAffine(p) ==
  LET zInv == InverseOf[p.z]
      zInvSq == Reduced(zInv * zInv)
  IN <<Reduced(p.x * zInvSq), Reduced(p.y * Reduced(zInv * zInvSq))>>
zForAffine(a) == IF a = <<0, 0>> THEN 0 ELSE 1
FromAffine(a) == Point(a[1], a[2], zForAffine(a))
Add(a, b) == PointToAffine(PointAdd(FromAffine(a), FromAffine(b)))
Double(a) == PointToAffine(PointDouble(FromAffine(a)))
-------------------------------------------------------------------------------
\* The textbook's sum of two points, and the multiples of the base point.
Origin == <<0, 0>>
SumOf(a, b) ==
  LET slope == IF a = b THEN Reduced((3 * a[1] * a[1] + A) * InverseOf[Reduced(2 * a[2])])
               ELSE Reduced((b[2] - a[2]) * InverseOf[Reduced(b[1] - a[1])])
      x == Reduced(slope * slope - a[1] - b[1])
  IN CASE a = Origin -> b
       [] a # Origin /\ b = Origin -> a
       [] a # Origin /\ b # Origin /\ a[1] = b[1] /\ a[2] # b[2] -> Origin
       [] OTHER -> <<x, Reduced(slope * (a[1] - x) - a[2])>>
BaseMultiples[n \in 0 .. N - 1] == IF n = 0 THEN Origin ELSE SumOf(BaseMultiples[n - 1], <<Gx, Gy>>)

\* A scalar with leading zeros beyond KeyBytes is not reduced and panics; all callers
\* take the bytes of a number.
GetScalar(k) == IF FromBytes(k) >= N THEN FromBytes(k) % N ELSE FromBytes(k)
GetBit(n, bit) == (n \div 2 ^ bit) % 2

\* What the bits of a number stand for when they are 2 * Stride apart, from the bit
\* offset on, times the base point.
Spread(index, offset) == FoldLeft(LAMBDA n, t : n + GetBit(index, t) * 2 ^ (2 * Stride * t + offset), 0, [t \in 1 .. Teeth |-> t - 1])
Precomputed == [offset \in {0, Stride} |-> [index \in 0 .. 2 ^ Teeth - 1 |-> BaseMultiples[Spread(index, offset) % N]]]

\* Until the first digit that is not zero the sum is what the table holds.
AddedMixed(s, index, a) ==
  LET sum == IF s.infinity THEN Point(a[1], a[2], 1) ELSE IF index # 0 THEN PointAddMixed(s.p, a) ELSE s.p
  IN [p |-> sum, infinity |-> s.infinity /\ index = 0]
Index(n, i, offset) ==
  FoldLeft(LAMBDA d, t : 2 * d + GetBit(n, Stride - 1 - i + offset + 2 * Stride * (Teeth - t)), 0, [t \in 1 .. Teeth |-> t])
BaseMult(n) ==
  LET Both(s, i) == FoldLeft(LAMBDA q, offset : AddedMixed(q, Index(n, i, offset), Precomputed[offset][Index(n, i, offset)]), s, <<0, Stride>>)
      Step(s, i) == Both(IF i = 0 THEN s ELSE [s EXCEPT !.p = PointDouble(@)], i)
  IN FoldLeft(Step, [p |-> Infinity, infinity |-> TRUE], [i \in 1 .. Stride |-> i - 1]).p
ScalarBaseMult(k) == PointToAffine(BaseMult(GetScalar(k)))

Added(s, index, q) ==
  [p |-> IF s.infinity THEN q ELSE IF index # 0 THEN PointAdd(s.p, q) ELSE s.p, infinity |-> s.infinity /\ index = 0]
\* 0, 1, 2, ... times the point.
Multiples(a) ==
  FoldLeft(LAMBDA t, i : LET twice == PointDouble(t[i + 1]) IN t \o <<twice, PointAddMixed(twice, a)>>,
           <<Infinity, Point(a[1], a[2], 1)>>, [i \in 1 .. 2 ^ (Window - 1) - 1 |-> i])
Digit(n, i) == (n \div 2 ^ (Window * i)) % 2 ^ Window
Digits == (2 * Stride * Teeth) \div Window
MultBy(table, n) ==
  LET Doubled(s) == [s EXCEPT !.p = FoldLeft(LAMBDA p, j : PointDouble(p), @, [j \in 1 .. Window |-> j])]
      Step(s, i) == Added(IF i = 1 THEN s ELSE Doubled(s), Digit(n, Digits - i), table[Digit(n, Digits - i) + 1])
  IN FoldLeft(Step, [p |-> Infinity, infinity |-> TRUE], [i \in 1 .. Digits |-> i]).p
ScalarMult(a, k) == PointToAffine(MultBy(Multiples(a), GetScalar(k)))
-------------------------------------------------------------------------------
PadTo(n) == IF Len(BytesOf(n)) < KeyBytes THEN Padded(n, KeyBytes) \o <<>> ELSE BytesOf(n)
Cut(n) == Padded(n, KeyBytes) \o <<>>

\* The hashed name of a key: the length of uid in bits, uid, the curve and the key, of
\* which only x is padded.
NameOf(pub, uid) ==
  LET id == IF uid = <<>> THEN defaultUID ELSE uid
      entla == (ByteBits * Len(id)) % Byte ^ 2
  IN <<entla \div Byte, entla % Byte>> \o id \o BytesOf(A) \o BytesOf(B) \o BytesOf(Gx) \o BytesOf(Gy)
       \o PadTo(pub[1]) \o BytesOf(pub[2])
TooLarge(uid) == Len(uid) >= MaxUid
ZA(pub, uid) == sm3(NameOf(pub, uid))
msgHash(za, msg) == FromBytes(sm3(za \o msg))

randFieldElement(b) == (FromBytes(b) % (N - 1)) + 1
KeyOf(d) == [D |-> d, Q |-> ScalarBaseMult(BytesOf(d))]
GenerateKey(b) == KeyOf(randFieldElement(b))

\* The signature of e with the random number k.  A remainder of zero is drawn again
\* unless r + k = N, and it never is zero then; a sum of N is let through.
CanSign(priv) == (priv.D + 1) % N # 0
ModInverse(n) == CHOOSE w \in 1 .. N - 1 : (n * w) % N = 1
SignWith(priv, e, k) ==
  LET s(r) == ((k - ((priv.D * r) % N)) * ModInverse((priv.D + 1) % N)) % N
      Pair(r) == IF (r = 0 /\ r + k # N) \/ s(r) = 0 THEN <<>> ELSE <<[r |-> r, s |-> s(r)]>>
  IN Pair((ScalarBaseMult(BytesOf(k))[1] + e) % N)
FirstOf(results) == LET made == SelectSeq(results, LAMBDA x : x # <<>>) IN IF made = <<>> THEN <<>> ELSE made[1]
Sign(priv, hash, ks) == FirstOf([i \in 1 .. Len(ks) |-> SignWith(priv, FromBytes(hash), ks[i])] \o <<>>)
Sm2Sign(priv, msg, uid, ks) ==
  IF TooLarge(uid) THEN <<>>
  ELSE FirstOf([i \in 1 .. Len(ks) |-> SignWith(priv, msgHash(ZA(priv.Q, uid), msg), ks[i])] \o <<>>)

VerifyNumber(pub, e, sig) ==
  LET t == (sig.r + sig.s) % N
      x(sum) == (sum[1] + e) % N
  IN /\ sig.r \in 1 .. N - 1 /\ sig.s \in 1 .. N - 1
     /\ t # 0
     /\ x(Add(ScalarBaseMult(BytesOf(sig.s)), ScalarMult(pub, BytesOf(t)))) = sig.r
Verify(pub, hash, sig) == VerifyNumber(pub, FromBytes(hash), sig)
Sm2Verify(pub, msg, uid, sig) == ~TooLarge(uid) /\ VerifyNumber(pub, msgHash(ZA(pub, uid), msg), sig)

\* asn1.Marshal and asn1.Unmarshal: a value may be followed by others.
SignDigitToSignData(sig) == <<sig>>
SignDataToSignDigit(data) == IF data = <<>> THEN <<>> ELSE <<data[1]>>
VerifyData(pub, msg, data) == data # <<>> /\ Sm2Verify(pub, msg, <<>>, SignDataToSignDigit(data)[1])
-------------------------------------------------------------------------------
kdf(x, y, length) ==
  SubSeq(FoldLeft(LAMBDA c, ct : c \o sm3(x \o y \o Padded(ct, 4)), <<>>,
                  [ct \in 1 .. (length + KeyBytes - 1) \div KeyBytes |-> ct]), 1, length)
NotAllZero(c) == \E i \in 1 .. Len(c) : c[i] # 0
XorBytes(a, b) == [i \in 1 .. Len(a) |-> a[i] ^^ b[i]] \o <<>>

\* With the random number k; a mask of zeros, as for no data at all, is drawn again.
EncryptWith(pub, data, k) ==
  LET Sealed(c1, x2, y2, mask) ==
        IF NotAllZero(mask) THEN <<4>> \o PadTo(c1[1]) \o PadTo(c1[2]) \o sm3(x2 \o data \o y2) \o XorBytes(mask, data) ELSE <<>>
      Shared(c1, c2) == Sealed(c1, PadTo(c2[1]), PadTo(c2[2]), kdf(PadTo(c2[1]), PadTo(c2[2]), Len(data)))
  IN Shared(ScalarBaseMult(BytesOf(k)), ScalarMult(pub, BytesOf(k)))
Encrypt(pub, data, ks) == FirstOf([i \in 1 .. Len(ks) |-> EncryptWith(pub, data, ks[i])] \o <<>>)

\* For what Encrypt gives, which is not shorter than a point and a hash.
Decrypt(priv, cipher) ==
  LET part(i) == SubSeq(cipher, 2 + KeyBytes * i, 1 + KeyBytes * (i + 1))
      text == SubSeq(cipher, 2 + 3 * KeyBytes, Len(cipher))
      Checked(x2, y2, c) == IF part(2) = sm3(x2 \o c \o y2) THEN [data |-> c, err |-> "nil"] ELSE [data |-> c, err |-> "failed"]
      Opened(x2, y2, mask) == IF NotAllZero(mask) THEN Checked(x2, y2, XorBytes(mask, text)) ELSE [data |-> <<>>, err |-> "failed"]
      Shared(c2) == Opened(PadTo(c2[1]), PadTo(c2[2]), kdf(PadTo(c2[1]), PadTo(c2[2]), Len(text)))
  IN Shared(ScalarMult(<<FromBytes(part(0)), FromBytes(part(1))>>, BytesOf(priv.D)))
-------------------------------------------------------------------------------
Compress(pub) == <<pub[2] % 2>> \o PadTo(pub[1])
\* Either root of the square gives the same point; without one the code panics.
Roots(v) == {y \in 0 .. P - 1 : Reduced(y * y) = v}
Decompress(a) ==
  LET x == FromBytes(Tail(a))
      Signed(y) == IF y % 2 # a[1] THEN P - y ELSE y
  IN {<<x, Signed(y)>> : y \in Roots(Cubic(Reduced(x)))}
GetUnCompressBytes(pub) == <<4>> \o Cut(pub[1]) \o Cut(pub[2])
GetRawBytes(pub) == Tail(GetUnCompressBytes(pub))
RawBytesToPublicKey(bytes) ==
  IF Len(bytes) # 2 * KeyBytes THEN <<>>
  ELSE <<<<FromBytes(SubSeq(bytes, 1, KeyBytes)), FromBytes(SubSeq(bytes, KeyBytes + 1, 2 * KeyBytes))>>>>
PrivateRawBytes(priv) == Cut(priv.D)
RawBytesToPrivateKey(bytes) == IF Len(bytes) # KeyBytes THEN <<>> ELSE <<KeyOf(FromBytes(bytes))>>
-------------------------------------------------------------------------------
Curve == {a \in (0 .. P - 1) \X (0 .. P - 1) : IsOnCurve(a)}
Group == Curve \cup {Origin}
Jacobian(a, z) == IF a = Origin THEN Infinity ELSE Point(a[1] * z * z, a[2] * Reduced(z * z * z), z)

\* PointsAdded: the sum of two points is that of the group, for whatever z they are kept
\* with, and doubling is right for every point (p256.go:67-98, 249-275, 467-565).  Nothing
\* is said of the sum of a point and itself, which p256.go:467 promises and 497-500 mean
\* to double: sm2P256PointAdd goes on after the doubling and gives the point at infinity.
PointsAdded ==
  /\ Cardinality(Group) = N
  /\ \A a, b \in Group, z, w \in {1, 3} :
       (a # b \/ a = Origin) => PointToAffine(PointAdd(Jacobian(a, z), Jacobian(b, w))) = SumOf(a, b)
  /\ \A a \in Group : /\ Double(a) = SumOf(a, a)
                      /\ \A b \in Group \ {Origin, a}, z \in {1, 3} :
                           a # Origin => PointToAffine(PointAddMixed(Jacobian(a, z), b)) = SumOf(a, b)
                      /\ \A b \in Group \ {a} : Add(a, b) = SumOf(a, b)

\* MultiplesExact: the base point by the comb of two tables, and any point by its window,
\* are added as often as the scalar says, reduced when it is beyond the order, and no sum
\* on the way is of two equal points (p256.go:101-121, 337-450).
MultiplesExact ==
  \A k \in 0 .. Byte ^ KeyBytes + 3 :
    /\ ScalarBaseMult(BytesOf(k)) = BaseMultiples[k % N]
    /\ \A n \in {1, 2, N - 1} : ScalarMult(BaseMultiples[n], BytesOf(k)) = BaseMultiples[(n * k) % N]

\* What k was when sig is a signature of its data, and whether the sum in Verify is that of a
\* point and itself, s * G = t * Q, which PointsAdded says nothing of.
KOf(priv, sig) == (sig.s + (sig.r + sig.s) * priv.D) % N
SumOfEqual(priv, sig) == sig.s = ((sig.r + sig.s) * priv.D) % N

\* SignaturesExact: a signature is accepted for the data it was made for unless r + s = N,
\* which Sign lets through and Verify has to refuse, and no other pair of numbers is
\* accepted, whatever is drawn again on the way (sm2.go:169-336).  Left out are the pairs
\* for which Verify adds a point to itself.
SignaturesExact ==
  /\ \A priv \in {KeyOf(5)}, h \in Hashes, r, s \in 0 .. N :
       \E sig \in {[r |-> r, s |-> s]} : ~SumOfEqual(priv, sig) =>
         Verify(priv.Q, h, sig) = (/\ r \in 1 .. N - 1 /\ s \in 1 .. N - 1 /\ r + s # N
                                   /\ SignWith(priv, FromBytes(h), KOf(priv, sig)) = <<sig>>)
  /\ \A priv \in {GenerateKey(BytesOf(d - 1)) : d \in {2, N - 2, N - 1}}, uid \in Uids, k \in 1 .. N - 1, msg \in Texts :
       (CanSign(priv) /\ (k < 6 \/ Len(uid) = 1)) => \A sig \in ToSet(Sm2Sign(priv, msg, uid, <<k, 7, 9>>)) :
         /\ ~SumOfEqual(priv, sig) => Sm2Verify(priv.Q, msg, uid, sig) = (sig.r + sig.s # N)
         /\ uid = <<>> => VerifyData(priv.Q, msg, SignDigitToSignData(sig)) = Sm2Verify(priv.Q, msg, uid, sig)

\* NamesDiffer: keys and users with different names are hashed from different bytes; the
\* empty name is that of the default user (sm2.go:347-380).
NamesDiffer ==
  LET Users == {u \in Uids : u # <<>> /\ ~TooLarge(u)}
      Some == {0, 1, Byte - 1, Byte, P - 1}
      Pubs == {a \in (0 .. P - 1) \X (0 .. P - 1) : a[1] \in Some \/ a[2] \in Some}
  IN /\ Cardinality({NameOf(a, u) : a \in Pubs, u \in Users}) = Cardinality(Pubs \X Users)
     /\ \A a \in Pubs : NameOf(a, <<>>) = NameOf(a, defaultUID)

\* TextsReadBack: what is encrypted for a key is decrypted with it, whichever random numbers
\* are refused before; only for no data there never is a result (sm2.go:97-123, 398-488).
TextsReadBack ==
  \A d \in {1, 6, N - 1}, data \in Texts, k, l \in 1 .. N - 1 :
    (l = 1 \/ (k < 6 /\ l < 6)) =>
    \E priv \in {KeyOf(d)} : \E c \in {Encrypt(priv.Q, data, <<k, l>>)} :
      /\ c # <<>> => Decrypt(priv, c) = [data |-> data, err |-> "nil"]
      /\ data = <<>> => c = <<>>

\* KeysKept: a point is read back from its x-coordinate and the last bit of the other, and
\* from its bytes, and a private key from its bytes with the same public key
\* (sm2.go:508-606).
KeysKept ==
  /\ \A a \in Curve : /\ Decompress(Compress(a)) = {a}
                      /\ RawBytesToPublicKey(GetRawBytes(a)) = <<a>>
  /\ \A last \in {0, 1}, x \in 0 .. P - 1 : \A a \in Decompress(<<last>> \o PadTo(x)) : IsOnCurve(a) /\ a[1] = x
  /\ {randFieldElement(BytesOf(n)) : n \in 0 .. Byte ^ KeyBytes} = 1 .. N - 1
  /\ \A d \in 1 .. N - 1 : RawBytesToPrivateKey(PrivateRawBytes(KeyOf(d))) = <<KeyOf(d)>>
==============================================================================
