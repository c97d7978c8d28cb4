-------------------------------- MODULE Wallet ---------------------------------
(***************************************************************************)
(* Mnemonic sentences (crypto/bip39).  A word is its index in the word     *)
(* list.  A big.Int is the sequence of its bits, the highest first, and    *)
(* without zeroes at the start: what a conversion to bytes loses has to be *)
(* put back by padByteSlice.                                               *)
(***************************************************************************)
EXTENDS MachineWords, FiniteSets, Bitwise

CONSTANT HashByte(_)   \* the first byte of the SHA-256 of a byte string

BitsOf(n, width) == [i \in 1 .. width |-> (n \div Pow2[width - i]) % 2]
ValueOf(bits) == FoldLeft(LAMBDA v, b : 2 * v + b, 0, bits)

\* big.Int: SetBytes, Bytes, and a number of fixed width.
Stripped(bits) ==
  LET ones == {i \in DOMAIN bits : bits[i] = 1}
  IN IF ones = {} THEN <<>>
     ELSE SubSeq(bits, CHOOSE i \in ones : \A j \in ones : i <= j, Len(bits))
Widened(bits, width) ==
  IF Len(bits) >= width THEN bits ELSE [i \in 1 .. width - Len(bits) |-> 0] \o bits
Chunks(bits, width) ==
  [i \in 1 .. Len(bits) \div width |-> ValueOf(SubSeq(bits, (i - 1) * width + 1, i * width))]
SetBytes(bytes) == Stripped(FlattenSeq([i \in DOMAIN bytes |-> BitsOf(bytes[i], 8)]))
BytesOf(big) == Chunks(Widened(big, 8 * ((Len(big) + 7) \div 8)), 8)

Modulo(big, n) == Stripped(SubSeq(Widened(big, n), Len(Widened(big, n)) - n + 1, Len(Widened(big, n))))
Quotient(big, n) == IF Len(big) <= n THEN <<>> ELSE SubSeq(big, 1, Len(big) - n)

padByteSlice(slice, length) ==
  IF Len(slice) >= length THEN slice ELSE [i \in 1 .. length - Len(slice) |-> 0] \o slice

Refused == <<-1>>

validEntropy(entropy) == Len(entropy) % 4 = 0 /\ Len(entropy) >= 16 /\ Len(entropy) <= 32
validWords(words) == Len(words) % 3 = 0 /\ Len(words) >= 12 /\ Len(words) <= 24

\* One bit of checksum for every 32 of data, from the highest bit of the hash.
addChecksum(data) ==
  BytesOf(Stripped(SetBytes(data) \o SubSeq(BitsOf(HashByte(data), 8), 1, Len(data) \div 4)))

\* The words are split off from the right, eleven bits each.
NewMnemonic(entropy) ==
  IF ~validEntropy(entropy) THEN Refused
  ELSE Chunks(Widened(SetBytes(addChecksum(entropy)), 11 * ((Len(entropy) * 33) \div 44)), 11)

NumberOf(words) == Stripped(FlattenSeq([i \in DOMAIN words |-> BitsOf(words[i], 11)]))

EntropyFromMnemonic(words) ==
  IF ~validWords(words) THEN Refused
  ELSE LET n == Len(words) \div 3
           b == NumberOf(words)
           entropy == padByteSlice(BytesOf(Quotient(b, n)), 4 * n)
       IN IF Modulo(b, n) = Stripped(BitsOf(HashByte(entropy) \div Pow2[8 - n], 8))
          THEN entropy ELSE Refused

\* With raw, the entropy; the checksum is compared as part of the padded bytes.
MnemonicToByteArray(words) ==
  IF ~validWords(words) THEN Refused
  ELSE LET bitSize == 11 * Len(words)
           n == bitSize % 32
           fullByteSize == (bitSize - n) \div 8 + 1
           b == NumberOf(words)
           raw == padByteSlice(BytesOf(Quotient(b, n)), fullByteSize - (fullByteSize % 4))
       IN IF padByteSlice(BytesOf(b), fullByteSize) = padByteSlice(addChecksum(raw), fullByteSize)
          THEN raw ELSE Refused

-----------------------------------------------------------------------------
Filled(n) == {[i \in 1 .. n - Len(input) |-> 0] \o input, input \o [i \in 1 .. n - Len(input) |-> 255]}

\* MnemonicExact: the entropy is got back from its sentence in both ways the package
\* has, zeroes at its start included; and the two ways accept the same sentences when
\* a word is replaced (bip39/bip39.go:110-156, 164-209, 214-263, 308-335).
MnemonicExact ==
  Len(input) = 2 =>
    \A n \in {16, 20, 24, 28, 32} : \A e \in Filled(n) :
      LET words == NewMnemonic(e)
          Replaced(i, w) == [words EXCEPT ![i] = w]
      IN /\ Len(words) = 3 * (n \div 4)
         /\ EntropyFromMnemonic(words) = e
         /\ MnemonicToByteArray(words) = e
         /\ \A i \in {1, Len(words)} : \A w \in {0, (words[i] + 1) % 2048, (words[i] + 16) % 2048} :
              EntropyFromMnemonic(Replaced(i, w)) = MnemonicToByteArray(Replaced(i, w))

(***************************************************************************)
(* Keys that are derived from keys (crypto/bip32, crypto/bip44).           *)
(*                                                                         *)
(* The curve is a group of prime order Order: a point is the number its    *)
(* base point is multiplied by, 0 the point at infinity.  The numbers of   *)
(* 32 bytes are 0 .. 255 here.  HMAC-SHA512 and the checksum are           *)
(* parameters; the fingerprint of a key stands for its public key.         *)
(***************************************************************************)
CONSTANTS
  Order,
  FirstHardenedChild,   \* 2^31 in the code
  MaxDepth,             \* 255 in the code: the depth is a byte
  Hmac(_, _),           \* chain code, data -> <<left half, right half>>
  KeyChecksum(_)        \* of the serialized bytes

ASSUME OrderAssumption == Order \in 3 .. 255

ErrKey == [err |-> TRUE]

\* A public key has a sign and an x coordinate, which a point and its inverse share.
compressPublicKey(point) ==
  IF 2 * point > Order THEN <<3, Order - point>> ELSE <<2, point>>

expandPublicKey(key) == IF key[1] = 3 THEN Order - key[2] ELSE key[2]

publicKeyForPrivateKey(key) == compressPublicKey(key % Order)
addPublicKeys(key1, key2) ==
  compressPublicKey((expandPublicKey(key1) + expandPublicKey(key2)) % Order)
validPrivateKey(key) == key # 0 /\ key < Order
validChildPublicKey(key) == expandPublicKey(key) # 0

NewMasterKey2(key, chainCode) ==
  IF ~validPrivateKey(key) THEN ErrKey
  ELSE [err |-> FALSE, isPrivate |-> TRUE, key |-> key, chainCode |-> chainCode,
        depth |-> 0, childNumber |-> 0, fingerPrint |-> <<0, 0>>]

PublicPart(k) == IF k.isPrivate THEN publicKeyForPrivateKey(k.key) ELSE k.key
PublicKey(k) == [k EXCEPT !.isPrivate = FALSE, !.key = PublicPart(k)]

\* Hardened children depend on the private key, others on the public key.
getIntermediary(k, childIdx) ==
  Hmac(k.chainCode, IF childIdx >= FirstHardenedChild THEN <<0, k.key, childIdx>>
                    ELSE PublicPart(k) \o <<childIdx>>)

Child(k, key, chainCode, childIdx) ==
  [k EXCEPT !.key = key, !.chainCode = chainCode, !.childNumber = childIdx,
            !.fingerPrint = PublicPart(k), !.depth = (@ + 1) % (MaxDepth + 1)]

NewChildKey(k, childIdx) ==
  IF k.err THEN k
  ELSE IF ~k.isPrivate /\ childIdx >= FirstHardenedChild THEN ErrKey
  ELSE LET half == getIntermediary(k, childIdx)
           secret == (half[1] + k.key) % Order
           public == publicKeyForPrivateKey(half[1])
       IN IF k.isPrivate
          THEN IF validPrivateKey(secret) THEN Child(k, secret, half[2], childIdx) ELSE ErrKey
          ELSE IF validChildPublicKey(public)
               THEN Child(k, addPublicKeys(public, k.key), half[2], childIdx) ELSE ErrKey

Purpose == FirstHardenedChild + 4

\* Every purpose but that of BIP 44 has an organization in its path.
NewKeyFromMasterKey(master, purpose, coinType, org, account, change, index) ==
  LET coin == NewChildKey(NewChildKey(master, purpose), coinType)
      owner == IF purpose # Purpose THEN NewChildKey(coin, org) ELSE coin
  IN NewChildKey(NewChildKey(NewChildKey(owner, account), change), index)

Serialize(k) ==
  LET buffer == <<IF k.isPrivate THEN 1 ELSE 2, k.depth>> \o k.fingerPrint
                  \o <<k.childNumber, k.chainCode>>
                  \o (IF k.isPrivate THEN <<0, k.key>> ELSE k.key)
  IN Append(buffer, KeyChecksum(buffer))

Deserialize(data) ==
  IF Len(data) # 9 \/ KeyChecksum(SubSeq(data, 1, 8)) # data[9] THEN ErrKey
  ELSE [err |-> FALSE, isPrivate |-> data[7] = 0,
        key |-> IF data[7] = 0 THEN data[8] ELSE SubSeq(data, 7, 8),
        chainCode |-> data[6], depth |-> data[2], childNumber |-> data[5],
        fingerPrint |-> SubSeq(data, 3, 4)]

-----------------------------------------------------------------------------
Master == NewMasterKey2(input[1] % 16, input[2])
Given == Len(input) = 2 /\ ~Master.err
Account(purpose) == NewChildKey(NewChildKey(NewChildKey(Master, purpose),
                                            FirstHardenedChild + 1), FirstHardenedChild)

\* PublicCommutes: whoever has only the public key of an account derives the public
\* keys of the addresses that its owner derives, unless a derivation is refused; no
\* hardened child comes from a public key (bip32.go:93-146, bip44.go:43-77).
PublicCommutes ==
  Given =>
    \A change, index \in 0 .. 2 :
      LET account == Account(Purpose)
          owned == NewKeyFromMasterKey(Master, Purpose, FirstHardenedChild + 1, 0,
                                       FirstHardenedChild, change, index)
          watched == NewChildKey(NewChildKey(PublicKey(account), change), index)
      IN /\ ~account.err /\ ~owned.err /\ ~watched.err => PublicKey(owned) = watched
         /\ ~account.err => NewChildKey(PublicKey(account), FirstHardenedChild + index).err

\* KeyReadBack: a key is read back from its bytes, private or public, with its place
\* in the tree, so its children are the same (bip32.go:196-219, 237-269).
KeyReadBack ==
  Given =>
    \A index \in 0 .. 2 :
      LET child == NewChildKey(Account(Purpose + 1), index)
      IN ~Account(Purpose + 1).err /\ ~child.err =>
           /\ child.depth = 4
           /\ Deserialize(Serialize(child)) = child
           /\ Deserialize(Serialize(PublicKey(child))) = PublicKey(child)

-----------------------------------------------------------------------------
(***************************************************************************)
(* Split and Combine of crypto/galois: every byte of a secret is the value *)
(* at 0 of a polynomial over GF(2^8), a share is its value at another      *)
(* point.  Coefficients and points are random in the code: here the secret *)
(* is the input, and its coefficients and the points are enumerated.       *)
(* A sequence has the byte of index 0 in place 1.                          *)
(***************************************************************************)

CONSTANTS
  Coefficients,   \* random coefficients tried
  Points          \* x coordinates tried

MaxShares == 255

\* Powers of 229, and their logarithms.
logTable == <<
  0, 255, 200, 8, 145, 16, 208, 54, 90, 62, 216, 67, 153, 119, 254, 24, 35, 32, 7, 112, 161, 108,
  12, 127, 98, 139, 64, 70, 199, 75, 224, 14, 235, 22, 232, 173, 207, 205, 57, 83, 106, 39, 53, 147,
  212, 78, 72, 195, 43, 121, 84, 40, 9, 120, 15, 33, 144, 135, 20, 42, 169, 156, 214, 116, 180, 124,
  222, 237, 177, 134, 118, 164, 152, 226, 150, 143, 2, 50, 28, 193, 51, 238, 239, 129, 253, 48, 92,
  19, 157, 41, 23, 196, 17, 68, 140, 128, 243, 115, 66, 30, 29, 181, 240, 18, 209, 91, 65, 162, 215,
  44, 233, 213, 89, 203, 80, 168, 220, 252, 242, 86, 114, 166, 101, 47, 159, 155, 61, 186, 125, 194,
  69, 130, 167, 87, 182, 163, 122, 117, 79, 174, 63, 55, 109, 71, 97, 190, 171, 211, 95, 176, 88,
  175, 202, 94, 250, 133, 228, 77, 138, 5, 251, 96, 183, 123, 184, 38, 74, 103, 198, 26, 248, 105,
  37, 179, 219, 189, 102, 221, 241, 210, 223, 3, 141, 52, 217, 146, 13, 99, 85, 170, 73, 236, 188,
  149, 60, 132, 11, 245, 230, 231, 229, 172, 126, 110, 185, 249, 218, 142, 154, 201, 36, 225, 10,
  21, 107, 58, 160, 81, 244, 234, 178, 151, 158, 93, 34, 136, 148, 206, 25, 1, 113, 76, 165, 227,
  197, 49, 187, 204, 31, 45, 59, 82, 111, 246, 46, 137, 247, 192, 104, 27, 100, 4, 6, 191, 131, 56>>

expTable == <<
  1, 229, 76, 181, 251, 159, 252, 18, 3, 52, 212, 196, 22, 186, 31, 54, 5, 92, 103, 87, 58, 213, 33,
  90, 15, 228, 169, 249, 78, 100, 99, 238, 17, 55, 224, 16, 210, 172, 165, 41, 51, 89, 59, 48, 109,
  239, 244, 123, 85, 235, 77, 80, 183, 42, 7, 141, 255, 38, 215, 240, 194, 126, 9, 140, 26, 106, 98,
  11, 93, 130, 27, 143, 46, 190, 166, 29, 231, 157, 45, 138, 114, 217, 241, 39, 50, 188, 119, 133,
  150, 112, 8, 105, 86, 223, 153, 148, 161, 144, 24, 187, 250, 122, 176, 167, 248, 171, 40, 214, 21,
  142, 203, 242, 19, 230, 120, 97, 63, 137, 70, 13, 53, 49, 136, 163, 65, 128, 202, 23, 95, 83, 131,
  254, 195, 155, 69, 57, 225, 245, 158, 25, 94, 182, 207, 75, 56, 4, 185, 43, 226, 193, 74, 221, 72,
  12, 208, 125, 61, 88, 222, 124, 216, 20, 107, 135, 71, 232, 121, 132, 115, 60, 189, 146, 201, 35,
  139, 151, 149, 68, 220, 173, 64, 101, 134, 162, 164, 204, 127, 236, 192, 175, 145, 253, 247, 79,
  129, 47, 91, 234, 168, 28, 2, 209, 152, 113, 237, 37, 227, 36, 6, 104, 179, 147, 44, 111, 62, 108,
  10, 184, 206, 174, 116, 177, 66, 180, 30, 211, 73, 233, 156, 200, 198, 199, 34, 110, 219, 32, 191,
  67, 81, 82, 102, 178, 118, 96, 218, 197, 243, 246, 170, 205, 154, 160, 117, 84, 14, 1>>

add(a, b) == a ^^ b

mult(a, b) ==
  IF a = 0 \/ b = 0 THEN 0
  ELSE expTable[1 + ((logTable[a + 1] + logTable[b + 1]) % MaxShares)]

\* b is never 0: the points of shares differ.
div(a, b) ==
  IF a = 0 THEN 0
  ELSE expTable[1 + ((logTable[a + 1] - logTable[b + 1]) % MaxShares)]

\* Horner's method, from the highest coefficient.
evaluate(p, x) ==
  IF x = 0 THEN p[1] ELSE FoldRight(LAMBDA coeff, out : add(mult(out, x), coeff), p, 0)

interpolatePolynomial(xs, ys, x) ==
  LET Basis(i) ==
        FoldLeftDomain(LAMBDA basis, j :
          IF i = j THEN basis
          ELSE mult(basis, div(add(x, xs[j]), add(xs[i], xs[j]))), 1, xs)
  IN FoldLeftDomain(LAMBDA result, i : add(result, mult(ys[i], Basis(i))), 0, xs)

Refusal == <<>>

\* A share is the value for every byte of the secret, and its point. coeffs[i] are
\* the coefficients drawn for byte i, threshold - 1 of them.
Split(secret, xs, threshold, coeffs) ==
  IF secret = <<>> \/ threshold < 2 \/ Len(xs) < threshold \/ Len(xs) > MaxShares THEN Refusal
  ELSE [k \in DOMAIN xs |->
         Append([i \in DOMAIN secret |-> evaluate(<<secret[i]>> \o coeffs[i], xs[k])], xs[k])]

Combine(parts) ==
  IF Len(parts) < 2 THEN Refusal
  ELSE LET n == Len(parts[1])
           xs == [k \in DOMAIN parts |-> parts[k][n]]
       IN IF \/ n < 2
             \/ \E k \in DOMAIN parts : Len(parts[k]) # n
             \/ \E k, l \in DOMAIN parts : k # l /\ xs[k] = xs[l]
          THEN Refusal
          ELSE [i \in 1 .. n - 1 |->
                 interpolatePolynomial(xs, [k \in DOMAIN parts |-> parts[k][i]], 0)]

-----------------------------------------------------------------------------
\* Reference: the product of two polynomials over GF(2) modulo x^8 + x^4 + x^3 + x + 1.
RECURSIVE Product(_, _)
Product(a, b) ==
  IF b = 0 THEN 0
  ELSE (IF b % 2 = 1 THEN a ELSE 0)
         ^^ Product((IF a >= 128 THEN (2 * a) ^^ 283 ELSE 2 * a), b \div 2)

Pairs == input # <<>> /\ Len(input) <= 2

\* FieldLaws: the tables and the code that uses them multiply and divide in the
\* field, with 0 too (galois/shamir.go:85-149, tables.go:8-76).
FieldLaws ==
  Pairs => \A b \in 0 .. 255 :
    LET a == (input[1] + 16 * input[Len(input)]) % 256 IN
    /\ mult(a, b) = Product(a, b)
    /\ b # 0 => mult(div(a, b), b) = a

\* SharesExact: a secret is recovered from any threshold of its shares, in any order,
\* and from more of them; two shares of a threshold of three give something else;
\* and a single share of a threshold of two fits every secret
\* (galois/shamir.go:64-82, 156-266).
SharesExact ==
  Pairs =>
    LET xs == SetToSeq(Points)
        Chosen(parts, s) == [i \in DOMAIN s |-> parts[s[i]]]
        Two(c) == Split(input, xs, 2, [i \in DOMAIN input |-> <<c>>])
        Three(c, d) == Split(input, xs, 3, [i \in DOMAIN input |-> <<c, d>>])
    IN \A c \in Coefficients :
         /\ \A k, l \in DOMAIN xs : k # l =>
              /\ Combine(Chosen(Two(c), <<k, l>>)) = input
              /\ \A d \in Coefficients \ {0} : Combine(Chosen(Three(c, d), <<k, l>>)) # input
         /\ \A d \in Coefficients :
              /\ Combine(Reverse(Three(c, d))) = input
              /\ Combine(Append(Three(c, d), Three(c, d)[1])) = Refusal
         /\ Combine(Two(c)) = input
         /\ Len(input) = 1 =>
              \A k \in DOMAIN xs, other \in Bytes :
                \E e \in 0 .. 255 : evaluate(<<other, e>>, xs[k]) = Two(c)[k][1]

(***************************************************************************)
(* Encode and Decode of crypto/base58.  A digit stands for the character   *)
(* an alphabet gives it, and -1 for a character that is in no alphabet.    *)
(***************************************************************************)
\* Bytes or digits at the start that are 0.
Leading(s) ==
  LET other == {i \in DOMAIN s : s[i] # 0}
  IN IF other = {} THEN Len(s) ELSE (CHOOSE i \in other : \A j \in other : i <= j) - 1

Zeroes(n) == [i \in 1 .. n |-> 0]

\* The carry goes through the used digits and on until it is 0.
RECURSIVE MulAdd(_, _, _, _)
MulAdd(out, from, to, carry) ==
  IF out = <<>> THEN (IF carry = 0 THEN <<>> ELSE <<carry % to>> \o MulAdd(<<>>, from, to, carry \div to))
  ELSE <<(carry + from * Head(out)) % to>>
         \o MulAdd(Tail(out), from, to, (carry + from * Head(out)) \div to)

\* The digits in base to of s in base from, the lowest first.
Convert(s, from, to) == FoldLeft(LAMBDA out, d : MulAdd(out, from, to, d), <<>>, s)

Outside == <<-1>>   \* the index leaves the output: a panic

\* Variant: capacity without the last digit.
Fits_Exactly(out, n, num, den) == Len(out) <= (n * num) \div den

\* output has (n * num) / den + 1 places.
Fits(out, n, num, den) == Len(out) <= (n * num) \div den + 1

Encode(s) ==
  LET zeroes == Leading(s)
      out == Convert(s, 256, 58)
  IN IF Fits(out, Len(s) - zeroes, 138, 100) THEN Zeroes(zeroes) \o Reverse(out) ELSE Outside

Invalid == <<-2>>

\* The capacity counts every character, the zeroes too.
Decode(s) ==
  LET zeroes == Leading(s)
      out == Convert(s, 58, 256)
  IN IF -1 \in ToSet(s) THEN Invalid
     ELSE IF Fits(out, Len(s), 733, 1000) THEN Zeroes(zeroes) \o Reverse(out) ELSE Outside

-----------------------------------------------------------------------------
Digits(s) == [i \in DOMAIN s |-> IF s[i] = 255 THEN -1 ELSE s[i] % 58]

\* Base58Exact: every byte string is decoded from its encoding, every string of
\* digits is the encoding of what it decodes to, none is refused, and the output
\* is never too small (base58.go:55-104, 107-155).
Base58Exact ==
  /\ Encode(input) # Outside /\ Decode(Encode(input)) = input
  /\ -1 \in ToSet(Digits(input)) <=> Decode(Digits(input)) = Invalid
  /\ -1 \notin ToSet(Digits(input)) =>
       Decode(Digits(input)) # Outside /\ Encode(Decode(Digits(input))) = Digits(input)

(***************************************************************************)
(* Addresses in the ICAP format (crypto/ecdsa/base36.go, address.go): a    *)
(* prefix, two check digits, a code of the organization and the address in *)
(* base 36.  A character is its value 0 .. 35 in either case, -1 when it   *)
(* is no letter or digit.  An address has AddressLength bytes (20 in the   *)
(* code) and takes AddressChars characters (31).                           *)
(***************************************************************************)
CONSTANTS AddressLength, AddressChars

pn == 3   \* length of the prefix
on == 4   \* length of the code

ASSUME ICAPAssumption == AddressLength \in 1 .. 3 /\ AddressChars \in 2 .. 5

Big(bytes) == FoldLeft(LAMBDA n, b : 256 * n + b, 0, bytes)
BigToAddress(n) == [i \in 1 .. AddressLength |-> (n \div Pow2[8 * (AddressLength - i)]) % 256]

RECURSIVE base36Encode(_)
base36Encode(n) == IF n < 36 THEN <<n>> ELSE Append(base36Encode(n \div 36), n % 36)
Base36Number(chars) == FoldLeft(LAMBDA n, c : 36 * n + c, 0, chars)

\* iso13616Expand: a letter becomes two decimal digits. The number is only needed
\* modulo 97.
Expanded(n, c) == IF c < 10 THEN (10 * n + c) % 97 ELSE (100 * n + c) % 97
Checksum(chars) == FoldLeft(Expanded, 0, chars)

checkDigits(enc, prefix, orgcode) ==
  LET num == 98 - Checksum(enc \o prefix \o orgcode \o <<0, 0>>)
  IN <<num \div 10, num % 10>>

ToICAP(address, prefix, orgcode) ==
  LET digits == base36Encode(Big(address))
      enc == [i \in 1 .. AddressChars - Len(digits) |-> 0] \o digits
  IN prefix \o checkDigits(enc, prefix, orgcode) \o orgcode \o enc

validBase36(s) == \A i \in DOMAIN s : s[i] >= 0

\* The check digits are put last.
validCustomCheckSum(s) ==
  /\ validBase36(s)
  /\ Checksum(SubSeq(s, pn + 2 + on + 1, Len(s)) \o SubSeq(s, 1, pn)
                \o SubSeq(s, pn + 2 + 1, pn + 2 + on) \o SubSeq(s, pn + 1, pn + 2)) = 1

NoAddress == <<>>

\* ConvertICAPToAddress and parseICAP; of a number that is too large the last bytes.
ConvertICAPToAddress(s) ==
  IF Len(s) # pn + 2 + on + AddressChars \/ ~validCustomCheckSum(s) THEN NoAddress
  ELSE BigToAddress(Base36Number(SubSeq(s, pn + 2 + on + 1, Len(s))) % Pow2[8 * AddressLength])

-----------------------------------------------------------------------------
Alike(c) == IF c < 10 THEN 0 .. 9 ELSE 10 .. 35

\* ICAPExact: an address is read back from its ICAP form, and no form with another
\* digit for a digit, another letter for a letter, a foreign character, or two
\* different digits exchanged is taken (base36.go:31-120, address.go:36-43, 121-128).
ICAPExact ==
  LET prefix == <<28, 14, 10>>
      code == <<1, 35, 0, 12>>
      address == BigToAddress(Big(input) % Pow2[8 * AddressLength])
      s == ToICAP(address, prefix, code)
  IN Len(input) = AddressLength =>
       /\ ConvertICAPToAddress(s) = address
       /\ \A i \in DOMAIN s : \A c \in (Alike(s[i]) \cup {-1}) \ {s[i]} :
            ConvertICAPToAddress([s EXCEPT ![i] = c]) = NoAddress
       /\ \A i \in 1 .. Len(s) - 1 : (s[i] # s[i + 1] /\ Alike(s[i]) = Alike(s[i + 1])) =>
            ConvertICAPToAddress([s EXCEPT ![i] = s[i + 1], ![i + 1] = s[i]]) = NoAddress
================================================================================
