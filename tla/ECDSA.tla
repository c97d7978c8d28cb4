--------------------------------- MODULE ECDSA ---------------------------------
(***************************************************************************)
(* crypto/ecdsa: keys and signatures over a curve, S256 in the code.  The nonce of *)
(* a signature comes from a keyed hash, a parameter here; that a public    *)
(* key can be told from a signature and one of four hints is the point of  *)
(* the compact form.  An operation that returns an error gives <<>>, one   *)
(* that succeeds a sequence of its one result.                             *)
(***************************************************************************)
EXTENDS BigBytes
CONSTANTS P, N, ByteSize,        \* the prime, the order, and the bytes of either
          Add256(_, _), ScalarMult256(_, _), ScalarBaseMult256(_), \* the curve's operations
          Mac(_, _)              \* the keyed hash: two sequences of bytes to one of ByteSize bytes

Reduced(n) == n % P
Origin == <<0, 0>>
IsOnCurve(q) == Reduced(q[2] * q[2]) = Reduced(Reduced(q[1] * q[1]) * q[1] + 7)
HalfOrder == N \div 2
BitLen(n) == CHOOSE l \in 0 .. 30 : n < 2 ^ l /\ (l = 0 \/ 2 ^ (l - 1) <= n)
OrderBits == BitLen(N)
OrderBytes == (OrderBits + ByteBits - 1) \div ByteBits
ModInverse(n) == CHOOSE w \in 1 .. N - 1 : (n * w) % N = 1
Odd(n) == n % 2 = 1
Left(bytes, n) == SubSeq(bytes, 1, IF Len(bytes) > n THEN n ELSE Len(bytes))
Bind(results, Then(_)) == IF results = <<>> THEN <<>> ELSE Then(results[1])
-------------------------------------------------------------------------------
\* A private key from its bytes, with its public key.
ToECDSA(d, strict) ==
  IF (strict => Len(d) = ByteSize) /\ FromBytes(d) \in 1 .. N - 1
    THEN <<[D |-> FromBytes(d), Q |-> ScalarBaseMult256(d)]>> ELSE <<>>
ToByte(key) == Padded(key.D, ByteSize)

SerializeUncompressed(q) == <<4>> \o Padded(q[1], ByteSize) \o Padded(q[2], ByteSize)
UnmarshalPubkey(pub) ==
  LET q == <<FromBytes(SubSeq(pub, 2, ByteSize + 1)), FromBytes(SubSeq(pub, ByteSize + 2, Len(pub)))>>
  IN IF Len(pub) = 1 + 2 * ByteSize /\ pub[1] = 4 /\ q[1] < P /\ q[2] < P /\ IsOnCurve(q)
       THEN <<q>> ELSE <<>>

GenerateSharedSecret(key, q) == BytesOf(ScalarMult256(q, BytesOf(key.D))[1])
-------------------------------------------------------------------------------
\* The leftmost bits of a hash, as many as the order has.
hashToInt(hash) ==
  LET cut == Left(hash, OrderBytes)
      excess == Len(cut) * ByteBits - OrderBits
  IN IF excess > 0 THEN FromBytes(cut) \div 2 ^ excess ELSE FromBytes(cut)

bits2octets(hash, rolen) ==
  Padded(IF hashToInt(hash) < N THEN hashToInt(hash) ELSE hashToInt(hash) - N, rolen)

\* Hashes are drawn until one is a number that can be inverted; MaxTries bounds the
\* attempts.
MaxTries == 12
nonceRFC6979(d, hash) ==
  LET bx == Padded(d, OrderBytes) \o bits2octets(hash, OrderBytes)
      Keyed(s, data) == LET k == Mac(s.k, s.v \o data) IN [k |-> k, v |-> Mac(k, s.v)]
      Drawn(s) == [s EXCEPT !.v = Mac(s.k, s.v)]
      Start == [k |-> Padded(0, ByteSize), v |-> [i \in 1 .. ByteSize |-> 1]]
      State[i \in 0 .. MaxTries] ==
        IF i = 0 THEN Drawn(Keyed(Keyed(Start, <<0>> \o bx), <<1>> \o bx))
        ELSE Drawn(Keyed(State[i - 1], <<0>>))
      Tries == {i \in 0 .. MaxTries : hashToInt(State[i].v) \in 1 .. N - 1}
  IN hashToInt(State[CHOOSE i \in Tries : \A j \in Tries : i <= j].v)

\* Of s and -s the smaller is given out.
Lower(s) == IF s > HalfOrder THEN N - s ELSE s

\* A signature from a nonce k.
Signed256(key, k, hash) ==
  LET x == ScalarBaseMult256(BytesOf(k))[1]
      r == IF x > N THEN x - N ELSE x
      s == Lower((ModInverse(k) * ((key.D * r + hashToInt(hash)) % N)) % N)
  IN IF r = 0 \/ s = 0 THEN <<>> ELSE <<[R |-> r, S |-> s]>>
signRFC6979(key, hash) == Signed256(key, nonceRFC6979(key.D, hash), hash)

\* crypto/ecdsa, which Verify hands the signature to.
Verify(sig, hash, q) ==
  /\ sig.R \in 1 .. N - 1 /\ sig.S \in 1 .. N - 1
  /\ \E w \in {ModInverse(sig.S)} :
       \E at \in {Add256(ScalarBaseMult256(BytesOf((hashToInt(hash) * w) % N)),
                         ScalarMult256(q, BytesOf((sig.R * w) % N)))} :
         at # Origin /\ at[1] % N = sig.R
-------------------------------------------------------------------------------
Power(n, e) == FoldLeft(LAMBDA m, i : Reduced(m * n), 1, [i \in 1 .. e |-> i])
\* Raised to (P + 1) / 4 a square becomes its root; nothing checks that it was one.
decompressPoint(x, ybit) ==
  LET root == Power(Reduced(Reduced(x * x) * x + 7), (P + 1) \div 4)
      y == IF Odd(root) = ybit THEN root ELSE P - root
  IN IF Odd(y) = ybit THEN <<y>> ELSE <<>>

recoverKeyFromSignature(sig, hash, iter, doChecks) ==
  LET Rx == N * (iter \div 2) + sig.R
      invr == ModInverse(sig.R)
      e == (((-hashToInt(hash)) % N) * invr) % N
      Key(p) == Add256(ScalarMult256(p, BytesOf((invr * sig.S) % N)),
                       ScalarBaseMult256(BytesOf(e)))
      FromY(y) == IF doChecks /\ ScalarMult256(<<Rx, y>>, BytesOf(N)) # Origin THEN <<>>
                  ELSE <<Key(<<Rx, y>>)>>
  IN IF Rx >= P THEN <<>> ELSE Bind(decompressPoint(Rx, iter % 2 = 1), FromY)

\* The first of four hints that gives the key back goes before R and S.
Compact(sig, q, hash, isCompressedKey) ==
  LET hints == {i \in 0 .. 3 : recoverKeyFromSignature(sig, hash, i, TRUE) = <<q>>}
      Hinted(i) == <<27 + i + (IF isCompressedKey THEN 4 ELSE 0)>> \o Padded(sig.R, ByteSize) \o Padded(sig.S, ByteSize)
  IN IF hints = {} THEN <<>> ELSE <<Hinted(CHOOSE i \in hints : \A j \in hints : i <= j)>>
SignCompact(key, hash, isCompressedKey) ==
  LET Encoded(sig) == Compact(sig, key.Q, hash, isCompressedKey)
  IN Bind(signRFC6979(key, hash), Encoded)

RecoverCompact(signature, hash) ==
  LET head == (signature[1] - 27) % 256
      isCompressedKey == Odd(head \div 4)
      sig == [R |-> FromBytes(SubSeq(signature, 2, ByteSize + 1)),
              S |-> FromBytes(SubSeq(signature, ByteSize + 2, 2 * ByteSize + 1))]
      Result(q) == <<[key |-> q, compressed |-> isCompressedKey]>>
  IN IF Len(signature) # 1 + 2 * ByteSize THEN <<>>
     ELSE Bind(recoverKeyFromSignature(sig, hash, IF isCompressedKey THEN head - 4 ELSE head, FALSE), Result)
-------------------------------------------------------------------------------
Keys == {ToECDSA(Padded(d, ByteSize), TRUE)[1] : d \in {1, 6, N - 1}}
Digests == {<<>>, <<9>>, <<15, 15>>, <<3, 8, 1>>}

\* SignaturesRecover: whatever the nonce, also when the x-coordinate it leads to is not
\* below the order, a signature has the smaller S, is accepted with its key, and gives
\* the key and its form back; a drawn nonce can be inverted
\* (signature.go:43-263).
SignaturesRecover ==
  \A key \in Keys, hash \in Digests :
    /\ nonceRFC6979(key.D, hash) \in 1 .. N - 1
    /\ signRFC6979(key, hash) # <<>> =>
         RecoverCompact(SignCompact(key, hash, TRUE)[1], hash) = <<[key |-> key.Q, compressed |-> TRUE]>>
    /\ \A k \in 1 .. N - 1 : \A sig \in Range(Signed256(key, k, hash)) :
         /\ sig.S <= HalfOrder
         /\ Verify(sig, hash, key.Q)
         /\ RecoverCompact(Compact(sig, key.Q, hash, FALSE)[1], hash) = <<[key |-> key.Q, compressed |-> FALSE]>>

\* KeysReadBack: keys are read back from their bytes, bytes that are no key are refused,
\* and two sides agree on the secret (privatekey.go:29-73, publickey.go:42-88,
\* ecdsa.go:36-39).
KeysReadBack ==
  /\ \A n \in 0 .. Byte ^ ByteSize - 1 :
       IF n \in 1 .. N - 1 THEN \A key \in Range(ToECDSA(Padded(n, ByteSize), TRUE)) : ToByte(key) = Padded(n, ByteSize) /\ IsOnCurve(key.Q)
       ELSE ToECDSA(Padded(n, ByteSize), TRUE) = <<>>
  /\ \A q \in {p \in (0 .. P - 1) \X (0 .. P - 1) : IsOnCurve(p)} : UnmarshalPubkey(SerializeUncompressed(q)) = <<q>>
  /\ \A q \in (0 .. 15) \X (0 .. 15) : UnmarshalPubkey(SerializeUncompressed(q)) # <<>> => IsOnCurve(q)
  /\ \A key, other \in Keys : GenerateSharedSecret(key, other.Q) = GenerateSharedSecret(other, key.Q)

(***************************************************************************)
(* Hashes as values: the root of a Merkle tree (crypto/sha2/sha256.go) and *)
(* the conversions of crypto/ecdsa/hash.go.  SHA-256 of two hashes is a    *)
(* parameter.                                                              *)
(***************************************************************************)
CONSTANTS
  HashLength,
  AddSHA256(_, _),
  Leaves,            \* the hashes lists are made of
  MaxLeaves

zero == 0
RECURSIVE PowerFrom(_, _)
PowerFrom(k, n) == IF k < n THEN PowerFrom(2 * k, n) ELSE k
nextPowerOfTwo(n) == PowerFrom(1, n)

\* Pairs are hashed until one hash is left.
RECURSIVE Levels(_)
Levels(h) == IF Len(h) = 1 THEN h[1]
             ELSE Levels([i \in 1 .. Len(h) \div 2 |-> AddSHA256(h[2 * i - 1], h[2 * i])] \o <<>>)
Merkle(h0) == Levels(h0 \o ([i \in 1 .. nextPowerOfTwo(Len(h0)) - Len(h0) |-> zero] \o <<>>))

\* The last bytes of what is too long; what is too short leaves the first bytes of h.
SetBytes(h, b) ==
  [i \in 1 .. HashLength |-> LET j == Len(b) - HashLength + i IN IF j >= 1 THEN b[j] ELSE h[i]] \o <<>>
BytesToHash(b) == SetBytes(Padded(0, HashLength), b)
HashBig(h) == FromBytes(h)
BigToHash(n) == BytesToHash(BytesOf(n))
Scan(h, b) == IF Len(b) = HashLength THEN b ELSE h
SHA256FromHex(b) == IF Len(b) = HashLength THEN [hash |-> b, err |-> FALSE] ELSE [hash |-> Padded(0, HashLength), err |-> TRUE]

(***************************************************************************)
(* A tree whose leaf i is at the path of the binary digits of i - 1.       *)
(***************************************************************************)
Depth(n) == CHOOSE d \in 0 .. n : 2 ^ d >= n /\ \A e \in 0 .. d - 1 : 2 ^ e < n
RECURSIVE Root(_, _, _)
Root(h, first, depth) ==
  IF depth = 0 THEN IF first <= Len(h) THEN h[first] ELSE zero
  ELSE AddSHA256(Root(h, first, depth - 1), Root(h, first + 2 ^ (depth - 1), depth - 1))

\* RootOfTree: Merkle is the root of the least complete tree with the hashes in order and
\* zeros behind them, for a list of any length, empty or not (sha256.go:128-150).
RootOfTree ==
  \A n \in 0 .. MaxLeaves : \A h \in [1 .. n -> Leaves] : Merkle(h) = Root(h, 1, IF n = 0 THEN 0 ELSE Depth(n))

\* HashesKept: a hash comes back from a number, a longer string gives its last bytes
\* whatever the hash was before, and a shorter one has zeros in front of it in a hash
\* that is made of it, while a hash that is set keeps the bytes in front (hash.go:44-50,
\* 85-102).
HashesKept ==
  \A a, b \in 0 .. Byte - 1 : LET long == <<a, 0, b, 1>> h == <<b, a>> IN
    /\ BigToHash(HashBig(h)) = h
    /\ SetBytes(h, long) = SubSeq(long, Len(long) - HashLength + 1, Len(long))
    /\ BytesToHash(<<b>>) = Padded(b, HashLength)
    /\ HashBig(SetBytes(h, <<b>>)) = HashBig(h) - a + b
==============================================================================
