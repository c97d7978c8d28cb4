-------------------------------- MODULE Hashes ---------------------------------
(***************************************************************************)
(* The hashes of crypto/sha3 and crypto/sm3, and the encryption of         *)
(* crypto/aes.  Machine words are the sets of their bits that are one:     *)
(* what Go computes with ^, rotations and + on unsigned words of a width.  *)
(***************************************************************************)
EXTENDS Naturals, Sequences, FiniteSets, SequencesExt

CONSTANTS
  States,            \* states to permute
  Permutation(_),    \* stands for keccakF1600 in the sponge
  Kinds,             \* <<rate, dsbyte, outputLen>> of the hashes
  Writes, Reads,     \* ways to cut what is written and what is read
  Cuts,              \* the same for SM3
  BlockSize, KeySize, HashSize, ByteBits,            \* of the cipher
  Cipher(_, _), Decipher(_, _), Keccak256(_),
  Keys, Texts        \* passwords, and what is encrypted

Xor(a, b) == (a \ b) \cup (b \ a)
Rotated(word, n, width) == {(b + n) % width : b \in word}
RECURSIVE Plus(_, _, _)
Plus(a, b, width) == IF b = {} THEN a ELSE Plus(Xor(a, b), {i + 1 : i \in a \cap b} \ {width}, width)
\* A word of 32 bits out of two halves, and a word of bytes, the first byte the highest.
Word(hi, lo) ==
  {b \in 0 .. 15 : (lo \div 2 ^ b) % 2 = 1} \cup {b \in 16 .. 31 : (hi \div 2 ^ (b - 16)) % 2 = 1}
OfBytes(s) == UNION {{8 * (Len(s) - i) + b : b \in s[i]} : i \in 1 .. Len(s)}
ByteOf(word, i) == {b \in 0 .. 7 : 8 * i + b \in word}
\* A tuple of n zero bytes.
ZeroBytes(n) == [i \in 1 .. n |-> {}] \o <<>>

(***************************************************************************)
(* The permutation behind SHA-3 and Keccak-256 (crypto/sha3/keccakf.go),   *)
(* which folds the five steps of a round into two and keeps the lanes in   *)
(* place: after a round a lane is not where the standard has it, and after *)
(* four rounds all are.  A lane is the set of its bits that are one,       *)
(* and lane p of the code is a[p + 1].                                     *)
(***************************************************************************)
rotated(lane, n) == Rotated(lane, n, 64)

\* The round constants.
rc == <<{0}, {1, 7, 15}, {1, 3, 7, 15, 63}, {15, 31, 63}, {0, 1, 3, 7, 15}, {0, 31},
        {0, 7, 15, 31, 63}, {0, 3, 15, 63}, {1, 3, 7}, {3, 7}, {0, 3, 15, 31}, {1, 3, 31},
        {0, 1, 3, 7, 15, 31}, {0, 1, 3, 7, 63}, {0, 3, 7, 15, 63}, {0, 1, 15, 63}, {1, 15, 63},
        {7, 63}, {1, 3, 15}, {1, 3, 31, 63}, {0, 7, 15, 31, 63}, {7, 15, 63}, {0, 31}, {3, 15, 31, 63}>>

\* By which bc0 .. bc4 are rotated in the five groups of a round.
Rotations == <<<<0, 44, 43, 21, 14>>, <<28, 20, 3, 45, 61>>, <<1, 6, 25, 8, 18>>,
               <<27, 36, 10, 15, 56>>, <<62, 55, 39, 41, 2>>>>

\* Which lanes the groups of each of four rounds read as bc0 .. bc4.
Round1 == <<<<0, 6, 12, 18, 24>>, <<3, 9, 10, 16, 22>>, <<1, 7, 13, 19, 20>>, <<4, 5, 11, 17, 23>>, <<2, 8, 14, 15, 21>>>>
Round2 == <<<<0, 16, 7, 23, 14>>, <<18, 9, 20, 11, 2>>, <<6, 22, 13, 4, 15>>, <<24, 10, 1, 17, 8>>, <<12, 3, 19, 5, 21>>>>
Round3 == <<<<0, 11, 22, 8, 19>>, <<23, 9, 15, 1, 12>>, <<16, 2, 13, 24, 5>>, <<14, 20, 6, 17, 3>>, <<7, 18, 4, 10, 21>>>>
Round4 == <<<<0, 1, 2, 3, 4>>, <<8, 9, 5, 6, 7>>, <<11, 12, 13, 14, 10>>, <<19, 15, 16, 17, 18>>, <<22, 23, 24, 20, 21>>>>
Groups == <<Round1, Round2, Round3, Round4>>

\* d0 .. d4: what the columns add to their neighbours.
Column(a, x) == Xor(Xor(Xor(a[x + 1], a[x + 6]), Xor(a[x + 11], a[x + 16])), a[x + 21])
Effect(a) ==
  LET Of(bc) == LET d(x) == Xor(bc[((x + 4) % 5) + 1], rotated(bc[((x + 1) % 5) + 1], 1)) IN <<d(0), d(1), d(2), d(3), d(4)>>
  IN Of(<<Column(a, 0), Column(a, 1), Column(a, 2), Column(a, 3), Column(a, 4)>>)

\* A group reads its lanes as bc0 .. bc4 and writes each result where it has found the lane
\* of that column.
Group(a, d, p, n) ==
  LET Read(i) == rotated(Xor(a[p[i] + 1], d[(p[i] % 5) + 1]), n[i])
      Written(bc) == LET Mixed(x) == Xor(bc[x + 1], bc[((x + 2) % 5) + 1] \ bc[((x + 1) % 5) + 1])
                     IN [a EXCEPT ![p[1] + 1] = Mixed(p[1] % 5), ![p[2] + 1] = Mixed(p[2] % 5),
                                  ![p[3] + 1] = Mixed(p[3] % 5), ![p[4] + 1] = Mixed(p[4] % 5), ![p[5] + 1] = Mixed(p[5] % 5)]
  IN Written(<<Read(1), Read(2), Read(3), Read(4), Read(5)>>)

Round(a, groups, constant) ==
  LET d == Effect(a)
      Next(b, g) == Group(b, d, groups[g], Rotations[g])
  IN [Next(Next(Next(Next(Next(a, 1), 2), 3), 4), 5) EXCEPT ![1] = Xor(@, constant)]

\* The body of the loop: four rounds, and all of them.
FourRounds(a, i) == FoldLeft(LAMBDA b, r : Round(b, Groups[r], rc[i + r]), a, <<1, 2, 3, 4>>)
keccakF1600(a) == FoldLeft(FourRounds, a, <<0, 4, 8, 12, 16, 20>>)

(***************************************************************************)
(* The standard: five steps, a lane at column x and row y, rotations that  *)
(* grow along a walk through the lanes, constants from a shift register.   *)
(***************************************************************************)
LaneAt(x, y) == (x % 5) + 5 * (y % 5)
Made(F(_)) == [p \in 1 .. 25 |-> F(p - 1)] \o <<>>
Theta(a) == LET Of(d) == Made(LAMBDA p : Xor(a[p + 1], d[(p % 5) + 1])) IN Of(Effect(a))
\* The lane the walk is at after t steps, and the rotation there.
Walk[t \in 0 .. 23] == IF t = 0 THEN <<1, 0>> ELSE LET w == Walk[t - 1] IN <<w[2], (2 * w[1] + 3 * w[2]) % 5>>
Offset[p \in 0 .. 24] ==
  IF p = 0 THEN 0
  ELSE LET t == CHOOSE s \in 0 .. 23 : LaneAt(Walk[s][1], Walk[s][2]) = p IN ((t + 1) * (t + 2)) \div 2
RhoPi(a) == Made(LAMBDA q : LET p == CHOOSE p \in 0 .. 24 : q = LaneAt(p \div 5, 2 * (p % 5) + 3 * (p \div 5))
                            IN rotated(a[p + 1], Offset[p]))
Chi(a) == Made(LAMBDA p : Xor(a[p + 1], a[LaneAt((p % 5) + 2, p \div 5) + 1] \ a[LaneAt((p % 5) + 1, p \div 5) + 1]))
\* An eight-bit shift register over x^8 + x^6 + x^5 + x^4 + 1.
Register[t \in 0 .. 167] ==
  IF t = 0 THEN {0}
  ELSE LET s == {b + 1 : b \in Register[t - 1]} IN IF 8 \in s THEN Xor(s, {8, 0, 4, 5, 6}) ELSE s
Constant(i) == {2 ^ j - 1 : j \in {j \in 0 .. 6 : 0 \in Register[j + 7 * (i - 1)]}}
StandardRounds(a, i) ==
  FoldLeft(LAMBDA b, r : [Chi(RhoPi(Theta(b))) EXCEPT ![1] = Xor(@, Constant(i + r))], a, <<1, 2, 3, 4>>)

\* PermutationStandard: four rounds in place are four rounds of the standard, with every
\* lane back at its place, and so are the twenty-four (keccakf.go:38-409).
PermutationStandard ==
  /\ \A a \in States, i \in {0, 4, 8, 12, 16, 20} : FourRounds(a, i) = StandardRounds(a, i)
  /\ \A a \in States : keccakF1600(a) = FoldLeft(StandardRounds, a, <<0, 4, 8, 12, 16, 20>>)

(***************************************************************************)
(* The hashes of crypto/sha3/sha3.go: a sponge that takes bytes in pieces  *)
(* of any length, pads them once, and gives bytes in pieces of any length. *)
(* A byte is the set of its bits that are one; storage[from + 1 .. upto]   *)
(* is the slice buf.                                                       *)
(***************************************************************************)
maxRate == 168

New(rate, dsbyte, outputLen) ==
  [a |-> ZeroBytes(25), storage |-> ZeroBytes(maxRate), from |-> 0, upto |-> 0, rate |-> rate,
   dsbyte |-> dsbyte, outputLen |-> outputLen, state |-> "absorbing"]

\* As many lanes as the thresholds of the code give for n bytes.
XorLanes(n) == IF n >= 168 THEN 21 ELSE IF n >= 144 THEN 18 ELSE IF n >= 136 THEN 17
               ELSE IF n >= 104 THEN 13 ELSE IF n >= 72 THEN 9 ELSE 0
xorIn(a, block) ==
  LET Lane(p) == OfBytes(Reverse(SubSeq(block, 8 * p - 7, 8 * p)))
  IN [p \in 1 .. 25 |-> IF p <= XorLanes(Len(block)) THEN Xor(a[p], Lane(p)) ELSE a[p]] \o <<>>

\* The first n bytes of the lanes, and what storage holds behind them.
copyOut(a, storage, n) ==
  [i \in 1 .. maxRate |->
     IF i <= n THEN ByteOf(a[(i - 1) \div 8 + 1], (i - 1) % 8) ELSE storage[i]] \o <<>>

buf(d) == SubSeq(d.storage, d.from + 1, d.upto)
Squeezed(d, a) == [d EXCEPT !.a = a, !.from = 0, !.upto = d.rate, !.storage = copyOut(a, @, d.rate)]
permute(d) ==
  IF d.state = "absorbing" THEN [d EXCEPT !.a = Permutation(xorIn(@, buf(d))), !.from = 0, !.upto = 0]
  ELSE Squeezed(d, Permutation(d.a))

padAndPermute(d) ==
  LET padded == [i \in 1 .. d.rate |-> IF i <= d.upto THEN d.storage[i] ELSE IF i = d.upto + 1 THEN d.dsbyte ELSE {}] \o <<>>
      last == [padded EXCEPT ![d.rate] = Xor(@, {7})]
  IN Squeezed([d EXCEPT !.state = "squeezing"], Permutation(xorIn(d.a, last)))

\* Whole blocks go past the buffer, which is filled and emptied otherwise.
RECURSIVE Written(_, _)
Written(d, p) ==
  LET rest == d.rate - d.upto
      todo == IF rest < Len(p) THEN rest ELSE Len(p)
      Filled == [d EXCEPT !.storage = SubSeq(@, 1, d.upto) \o SubSeq(p, 1, todo) \o SubSeq(@, d.upto + todo + 1, maxRate),
                          !.upto = @ + todo]
  IN IF p = <<>> THEN d
     ELSE IF d.upto = 0 /\ Len(p) >= d.rate
          THEN Written([d EXCEPT !.a = Permutation(xorIn(@, SubSeq(p, 1, d.rate)))], SubSeq(p, d.rate + 1, Len(p)))
          ELSE Written(IF todo = rest THEN permute(Filled) ELSE Filled, SubSeq(p, todo + 1, Len(p)))
\* After the first byte that was read it panics.
CanWrite(d) == d.state = "absorbing"
Write(d, p) == Written(d, p)

\* A stream after it has given n bytes more, and the bytes.
RECURSIVE Given(_, _, _)
Given(d, n, out) ==
  LET m == IF n < d.upto - d.from THEN n ELSE d.upto - d.from
      Taken == [d EXCEPT !.from = @ + m]
  IN IF n = 0 THEN <<d, out>>
     ELSE Given(IF m = d.upto - d.from THEN permute(Taken) ELSE Taken, n - m, out \o SubSeq(d.storage, d.from + 1, d.from + m))
Read(d, n) == Given(IF d.state = "absorbing" THEN padAndPermute(d) ELSE d, n, <<>>)

\* The capacity of buf reaches to the end of storage, behind the rate.
Capacity(d) == maxRate - d.from
CanClone(d) == d.state = "absorbing" \/ d.rate >= Capacity(d)
clone(d) == IF d.state = "absorbing" THEN d ELSE [d EXCEPT !.from = d.rate - Capacity(d), !.upto = d.rate]
Sum(d) == Read(clone(d), d.outputLen)[2]
Reset(d) == [d EXCEPT !.a = ZeroBytes(25), !.state = "absorbing", !.from = 0, !.upto = 0]

(***************************************************************************)
(* The hash of a whole message.                                            *)
(***************************************************************************)
Message(n) == [i \in 1 .. n |-> {b \in 0 .. 7 : (i + b * b) % 5 < 2}] \o <<>>
Padded(rate, dsbyte, m) ==
  LET zeros == rate - (Len(m) % rate) - 1
  IN IF zeros = 0 THEN Append(m, dsbyte \cup {7}) ELSE m \o <<dsbyte>> \o ZeroBytes(zeros - 1) \o <<{7}>>
Absorbed(rate, m) ==
  FoldLeft(LAMBDA a, i : Permutation(xorIn(a, SubSeq(m, rate * (i - 1) + 1, rate * i))), ZeroBytes(25),
           [i \in 1 .. Len(m) \div rate |-> i])
RECURSIVE Output(_, _, _)
Output(rate, a, n) == LET block == SubSeq(copyOut(a, ZeroBytes(maxRate), rate), 1, rate)
                      IN IF n <= rate THEN SubSeq(block, 1, n) ELSE block \o Output(rate, Permutation(a), n - rate)
Hash(rate, dsbyte, m, n) == Output(rate, Absorbed(rate, Padded(rate, dsbyte, m)), n)

Total(cuts) == FoldLeft(+, 0, cuts)
WrittenInPieces(d, m, cuts) ==
  FoldLeft(LAMBDA s, i : LET before == Total(SubSeq(cuts, 1, i - 1)) IN Write(s, SubSeq(m, before + 1, before + cuts[i])),
           d, [i \in 1 .. Len(cuts) |-> i])
ReadInPieces(d, cuts) == FoldLeft(LAMBDA s, n : LET r == Read(s[1], n) IN <<r[1], s[2] \o r[2]>>, <<d, <<>>>>, cuts)

\* PiecesDoNotMatter: what a sponge gives depends on the bytes that were written and not
\* on the pieces they came in, or in which the result is asked for (sha3.go:72-163); the
\* blocks of every hash are whole lanes (xor_unaligned.go:8-40).
PiecesDoNotMatter ==
  \A kind \in Kinds : LET rate == kind[1] dsbyte == kind[2] IN
    /\ 8 * XorLanes(rate) = rate
    /\ \A w \in Writes, r \in Reads :
         LET m == Message(Total(w)) IN
         ReadInPieces(WrittenInPieces(New(rate, dsbyte, kind[3]), m, w), r)[2] = Hash(rate, dsbyte, m, Total(r))

\* SumLeavesState: Sum is the hash of what was written so far and of no more, and
\* a sponge that was reset is a new one (sha3.go:50-70, 166-171).
SumLeavesState ==
  \A kind \in Kinds, w \in Writes : LET rate == kind[1] dsbyte == kind[2] d == New(rate, dsbyte, kind[3]) m == Message(Total(w)) IN
    /\ Sum(WrittenInPieces(d, m, w)) = Hash(rate, dsbyte, m, kind[3])
    /\ Sum(Write(Reset(Read(WrittenInPieces(d, m, w), 1)[1]), m)) = Hash(rate, dsbyte, m, kind[3])

\* ClonesGoOn: a clone goes on as the sponge it was made of: before the first byte is read
\* for every hash, and after it, also in the middle of a block, for a block as long as
\* storage (sha3.go:60-70).  sha3.go:183 promises it of every sponge; with a shorter block
\* clone computes the bounds of buf from its capacity, which does not end at the rate, and
\* nothing is said of those.
ClonesGoOn ==
  \A kind \in Kinds, w \in Writes, r \in Reads :
    LET Same(s) == CanClone(s) /\ Read(clone(s), 9)[2] = Read(s, 9)[2]
        d == WrittenInPieces(New(kind[1], kind[2], kind[3]), Message(Total(w)), w)
    IN /\ Same(d) /\ Read(Write(clone(d), Message(3)), 9)[2] = Read(Write(d, Message(3)), 9)[2]
       /\ kind[1] = maxRate => Same(ReadInPieces(d, r)[1])

(***************************************************************************)
(* The hash SM3 (crypto/sm3/sm3.go): blocks of 64 bytes that are expanded  *)
(* to 68 words and mixed into eight.  A byte and a word are the sets of    *)
(* their bits that are one.                                                *)
(***************************************************************************)
SM3BlockSize == 64
Sum4(a, b, c, d) == Plus(Plus(Plus(a, b, 32), c, 32), d, 32)
leftRotate(x, i) == Rotated(x, i % 32, 32)
p0(x) == Xor(Xor(x, leftRotate(x, 9)), leftRotate(x, 17))
p1(x) == Xor(Xor(x, leftRotate(x, 15)), leftRotate(x, 23))
ff(i, x, y, z) == IF i < 16 THEN Xor(Xor(x, y), z) ELSE (x \cap y) \cup (x \cap z) \cup (y \cap z)
gg(i, x, y, z) == IF i < 16 THEN Xor(Xor(x, y), z) ELSE (x \cap y) \cup (z \ x)
SM3Constant(i) == leftRotate(IF i < 16 THEN Word(\h79cc, \h4519) ELSE Word(\h7a87, \h9d8a), i)

\* The words of a block: w[i + 1] of the code, from the sixteen that are read.
RECURSIVE Expanded(_)
Expanded(w) ==
  LET i == Len(w) + 1
      At(n) == w[i - n]
      next == Xor(Xor(p1(Xor(Xor(At(16), At(9)), leftRotate(At(3), 15))), leftRotate(At(13), 7)), At(6))
  IN IF Len(w) = 68 THEN w ELSE Expanded(Append(w, next))

\* One step on <<A, .., H>>.
Mixed(v, w, i) ==
  LET A12 == leftRotate(v[1], 12)
      SS1 == leftRotate(Plus(Plus(A12, v[5], 32), SM3Constant(i), 32), 7)
      TT1 == Sum4(ff(i, v[1], v[2], v[3]), v[4], Xor(SS1, A12), Xor(w[i + 1], w[i + 5]))
      TT2 == Sum4(gg(i, v[5], v[6], v[7]), v[8], SS1, w[i + 1])
  IN <<TT1, v[1], leftRotate(v[2], 9), v[3], p0(TT2), v[5], leftRotate(v[6], 19), v[7]>>
\* The values of <<A, .., H>> up to the last.
RECURSIVE Steps(_, _)
Steps(vs, w) == IF Len(vs) = 65 THEN vs ELSE Steps(Append(vs, Mixed(Last(vs), w, Len(vs) - 1)), w)

RECURSIVE Updated(_, _)
Updated(digest, msg) ==
  LET read == [i \in 1 .. 16 |-> OfBytes(SubSeq(msg, 4 * i - 3, 4 * i))] \o <<>>
      mixed == Last(Steps(<<digest>>, Expanded(read)))
  IN IF Len(msg) < SM3BlockSize THEN digest
     ELSE Updated([i \in 1 .. 8 |-> Xor(digest[i], mixed[i])] \o <<>>, SubSeq(msg, SM3BlockSize + 1, Len(msg)))

SM3Reset == [digest |-> <<Word(\h7380, \h166f), Word(\h4914, \hb2b9), Word(\h1724, \h42d7), Word(\hda8a, \h0600),
                       Word(\ha96f, \h30bc), Word(\h1631, \h38aa), Word(\he38d, \hee4d), Word(\hb0fb, \h0e4e)>>,
          length |-> 0, unhandleMsg |-> <<>>]

SM3Write(d, p) ==
  LET msg == d.unhandleMsg \o p
      whole == SM3BlockSize * (Len(msg) \div SM3BlockSize)
  IN [digest |-> Updated(d.digest, msg), length |-> d.length + 8 * Len(p),
      unhandleMsg |-> SubSeq(msg, whole + 1, Len(msg))]

\* A one, zeros up to eight bytes before the end of a block, and the length in bits.
LengthBytes(n) == ZeroBytes(4) \o [i \in 1 .. 4 |-> ByteOf(Word(n \div 2 ^ 16, n % 2 ^ 16), 4 - i)]
pad(d) ==
  LET zeros == CHOOSE n \in 0 .. SM3BlockSize - 1 : (Len(d.unhandleMsg) + 1 + n) % SM3BlockSize = 56
  IN d.unhandleMsg \o <<{7}>> \o ZeroBytes(zeros) \o LengthBytes(d.length)

BytesOfWords(words) == [i \in 1 .. 32 |-> ByteOf(words[(i - 1) \div 4 + 1], 3 - ((i - 1) % 4))] \o <<>>
\* SM3Sum writes what it is given and finishes the hash itself: the state that it leaves and
\* what it returns, which is the hash alone.
SM3Sum(d, in) ==
  LET e == SM3Write(d, in)
      f == [e EXCEPT !.digest = Updated(@, pad(e))]
  IN <<f, BytesOfWords(f.digest)>>
Sm3Sum(data) == SM3Sum(SM3Write(SM3Reset, data), <<>>)[2]

(***************************************************************************)
(* The standard on a whole message.                                        *)
(***************************************************************************)
\* How many blocks a message, the one behind it and its length fill.
Blocks(n) == (n + 9 + SM3BlockSize - 1) \div SM3BlockSize
Whole(m) == m \o <<{7}>> \o ZeroBytes(SM3BlockSize * Blocks(Len(m)) - Len(m) - 9) \o LengthBytes(8 * Len(m))
SM3InPieces(m, cuts) ==
  FoldLeft(LAMBDA d, i : LET before == Total(SubSeq(cuts, 1, i - 1)) IN SM3Write(d, SubSeq(m, before + 1, before + cuts[i])),
           SM3Reset, [i \in 1 .. Len(cuts) |-> i])

\* StreamHashed: however a message is cut, the first Sum, which is given nothing, returns
\* the hash of the padded message (sm3.go:29-184).  Nothing is said of what Sum is given
\* or of a state after it: sm3.go:162-163 promises that the hash is appended to the one
\* and the other is not changed, and the code hashes the one into the other.
StreamHashed ==
  \A cuts \in Cuts :
    LET m == Message(Total(cuts))
        hash == Updated(SM3Reset.digest, Whole(m))
    IN SM3Sum(SM3InPieces(m, cuts), <<>>)[2] = BytesOfWords(hash)

\* StandardExample: "abc" has the hash that the standard gives for it, GM/T 0004-2012
\* (sm3.go:15-107).
StandardExample ==
  LET hash == SM3Sum(SM3Write(SM3Reset, <<{0, 5, 6}, {1, 5, 6}, {0, 1, 5, 6}>>), <<>>)[1].digest
  IN hash[1] = Word(\h66c7, \hf0f4) /\ hash[8] = Word(\h8f4b, \ha8e0)

(***************************************************************************)
(* Encryption with a password (crypto/aes/aes.go): the hash of the data in *)
(* front of the data itself, padded and chained block by block.  A block   *)
(* cipher, its inverse and a hash are parameters.  A call that panics is   *)
(* recovered and returns neither data nor an error.                        *)
(***************************************************************************)
Byte == 0 .. 2 ^ ByteBits - 1
\* A byte plus another without carries, where the two are what Go combines with ^.
Xored(a, b) == LET Bit(n, i) == (n \div 2 ^ i) % 2
               IN FoldLeft(LAMBDA n, i : 2 * n + ((Bit(a, ByteBits - i) + Bit(b, ByteBits - i)) % 2), 0, [i \in 1 .. ByteBits |-> i])
XorBlock(a, b) == [i \in 1 .. Len(a) |-> Xored(a[i], b[i])] \o <<>>

Data(d) == [data |-> d, err |-> "nil"]
Error(what) == [data |-> <<>>, err |-> what]
Recovered == [data |-> <<>>, err |-> "nil"]

PKCS5Padding(text, size) ==
  LET padding == size - (Len(text) % size) IN text \o ([i \in 1 .. padding |-> padding] \o <<>>)
\* For no bytes at all the code panics.
CanUnpad(text) == text # <<>>
PKCS5UnPadding(text) ==
  LET unpadding == Last(text) IN IF Len(text) < unpadding THEN <<>> ELSE SubSeq(text, 1, Len(text) - unpadding)

Key16(key) == [i \in 1 .. KeySize |-> IF i <= Len(key) THEN key[i] ELSE 0] \o <<>>
IV(key) == SubSeq(Key16(key), 1, BlockSize)
BlockOf(text, n) == SubSeq(text, BlockSize * (n - 1) + 1, BlockSize * n)
Indices(text) == [n \in 1 .. Len(text) \div BlockSize |-> n]
\* cipher.NewCBCEncrypter and NewCBCDecrypter.
Chained(key, text) ==
  FoldLeft(LAMBDA out, n : out \o Cipher(Key16(key), XorBlock(BlockOf(text, n), IF n = 1 THEN IV(key) ELSE BlockOf(out, n - 1))),
           <<>>, Indices(text))
Unchained(key, text) ==
  FoldLeft(LAMBDA out, n : out \o XorBlock(Decipher(Key16(key), BlockOf(text, n)), IF n = 1 THEN IV(key) ELSE BlockOf(text, n - 1)),
           <<>>, Indices(text))

AesEncrypt(origData, key) ==
  IF key = <<>> THEN Error("The password cannot be empty")
  ELSE Data(Keccak256(origData) \o Chained(key, PKCS5Padding(origData, BlockSize)))

AesDecrypt(crypted, key) ==
  LET hash == SubSeq(crypted, 1, HashSize)
      rest == SubSeq(crypted, HashSize + 1, Len(crypted))
      text == Unchained(key, rest)
      origData == PKCS5UnPadding(text)
  IN IF key = <<>> THEN Error("The password cannot be empty")
     ELSE IF Len(crypted) < HashSize \/ Len(rest) % BlockSize # 0 \/ ~CanUnpad(text) THEN Recovered
     ELSE IF hash = Keccak256(origData) THEN Data(origData)
     ELSE Error("wrong password")

\* Here the key has to be as long as the cipher takes and the counter as a block.
Counter(iv, n) == LET Value == FoldLeft(LAMBDA v, b : 2 ^ ByteBits * v + b, n, iv)
                  IN [i \in 1 .. BlockSize |-> (Value \div 2 ^ (ByteBits * (BlockSize - i))) % 2 ^ ByteBits] \o <<>>
AesCTRXOR(key, inText, iv) ==
  LET stream == FoldLeft(LAMBDA s, n : s \o Cipher(key, Counter(iv, n - 1)), <<>>, [n \in 1 .. (Len(inText) \div BlockSize) + 1 |-> n])
  IN IF Len(key) # KeySize THEN Error("invalid key size")
     ELSE Data([i \in 1 .. Len(inText) |-> Xored(inText[i], stream[i])] \o <<>>)

\* EncryptedReadBack: what was encrypted is decrypted with the same password, or one that
\* agrees with it on the bytes of a key; with any other it is refused or it has the same
\* hash (aes.go:14-108).
EncryptedReadBack ==
  \A text \in Texts, key \in Keys : LET e == AesEncrypt(text, key) IN
    /\ (key = <<>>) <=> (e.err # "nil")
    /\ \A k \in Keys \ {<<>>} : key # <<>> =>
         LET d == AesDecrypt(e.data, k) IN
         /\ Key16(k) = Key16(key) => d = Data(text)
         /\ d.err = "nil" => Keccak256(d.data) = Keccak256(text)
    /\ Len(key) = KeySize => LET iv == SubSeq(key, 1, BlockSize) IN AesCTRXOR(key, AesCTRXOR(key, text, iv).data, iv) = Data(text)
================================================================================
