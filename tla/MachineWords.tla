----------------------------- MODULE MachineWords ------------------------------
(***************************************************************************)
(* The data that the pure functions of the repository are applied to: a    *)
(* byte string that grows byte by byte.  The modules that EXTEND this one  *)
(* state their properties of the string reached.                           *)
(***************************************************************************)
EXTENDS Integers, Sequences, SequencesExt

CONSTANTS
  Bytes,       \* the bytes tried, a subset of 0 .. 255
  MaxLength    \* bound on the length

VARIABLE input

ASSUME BytesAssumption == Bytes \subseteq 0 .. 255 /\ MaxLength \in Nat

Pow2[n \in Nat] == IF n = 0 THEN 1 ELSE 2 * Pow2[n - 1]

NoInput == input = <<>>
Extend == Len(input) < MaxLength /\ \E b \in Bytes : input' = Append(input, b)

(***************************************************************************)
(* Unsigned words with overflow flags and slices of data (util/math,       *)
(* util/conv).  A uint64 has Width bits here; the 256-bit words of the     *)
(* contract VM have as many.                                               *)
(***************************************************************************)

CONSTANT Width

ASSUME WidthAssumption == Width \in 6 .. 15

Modulus == Pow2[Width]
MaxUint == Modulus - 1

SafeSub(x, y) == <<(x - y) % Modulus, x < y>>
SafeAdd(x, y) == <<(x + y) % Modulus, y > MaxUint - x>>

SafeMul(x, y) ==
  IF x = 0 \/ y = 0 THEN <<0, FALSE>> ELSE <<(x * y) % Modulus, y > MaxUint \div x>>

\* Words of 32 bytes.
ToWordSize(size) == IF size > MaxUint - 31 THEN MaxUint \div 32 + 1 ELSE (size + 31) \div 32

U256(x) == x % Modulus
S256(x) == IF x < Modulus \div 2 THEN x ELSE x - Modulus

\* Squaring, for the bits of exponent from the lowest.
Exp(base, exponent) ==
  LET Step(s, i) == [result |-> IF (exponent \div Pow2[i]) % 2 = 1
                                THEN U256(s.result * s.base) ELSE s.result,
                     base |-> U256(s.base * s.base)]
      run[i \in 0 .. Width] ==
        IF i = 0 THEN [result |-> 1, base |-> base] ELSE Step(run[i - 1], i - 1)
  IN run[Width].result

RightPadBytes(slice, l) ==
  IF l <= Len(slice) THEN slice ELSE slice \o [i \in 1 .. l - Len(slice) |-> 0]
LeftPadBytes(slice, l) ==
  IF l <= Len(slice) THEN slice ELSE [i \in 1 .. l - Len(slice) |-> 0] \o slice

Least(x, y) == IF x > y THEN y ELSE x
Slice(data, from, to) == SubSeq(data, from + 1, to)

\* start and size are big.Ints: their sum does not overflow.
GetDataBig(data, start, size) ==
  LET s == Least(start, Len(data))
  IN RightPadBytes(Slice(data, s, Least(s + size, Len(data))), size)

GetData(data, start, size) ==
  LET s == Least(start, Len(data))
  IN RightPadBytes(Slice(data, s, Least((s + size) % Modulus, Len(data))), size)

-----------------------------------------------------------------------------
TwoBytes == Len(input) = 2
X == input[1] % Modulus
Y == input[2] % Modulus

\* OverflowExact: a flag is raised exactly if the result is not the one of the integers;
\* sizes are rounded up to words without overflow; powers and signed values are those
\* modulo 2^w (util/math/integer.go:20-35, big.go:103-134, 160-166).
OverflowExact ==
  TwoBytes =>
    /\ SafeAdd(X, Y)[1] = X + Y <=> ~SafeAdd(X, Y)[2]
    /\ SafeSub(X, Y)[1] = X - Y <=> ~SafeSub(X, Y)[2]
    /\ SafeMul(X, Y)[1] = X * Y <=> ~SafeMul(X, Y)[2]
    /\ 32 * ToWordSize(X) >= X /\ (X > 0 => 32 * (ToWordSize(X) - 1) < X)
    /\ Exp(X, 0) = 1 /\ (Y < MaxUint => Exp(X, Y + 1) = U256(X * Exp(X, Y)))
    /\ U256(S256(X)) = X /\ S256(X) < Modulus \div 2 /\ S256(X) >= -(Modulus \div 2)

\* DataPadded: a slice of data has the size asked for and is filled with zeroes beyond the
\* end of the data; with machine words too, as long as start + size is one
\* (util/conv/bytes.go:288-322, util/math/big.go:146-152).
DataPadded ==
  \A start \in 0 .. MaxLength + 1 :
  \A size \in (0 .. MaxLength + 1) \cup (IF start > MaxLength THEN {MaxUint - MaxLength} ELSE {}) :
    LET d == GetDataBig(input, start, size) IN
    /\ Len(d) = size
    /\ \A i \in 1 .. Least(size, MaxLength + 1) :
         d[i] = IF start + i <= Len(input) THEN input[start + i] ELSE 0
    /\ GetData(input, start, size) = d
    /\ LeftPadBytes(input, size) = [i \in 1 .. Len(LeftPadBytes(input, size)) |->
         RightPadBytes(Reverse(input), size)[Len(LeftPadBytes(input, size)) + 1 - i]]

(***************************************************************************)
(* Integers in LEB128 (wagon/wasm/leb128): seven bits per byte, the lowest *)
(* first, and a flag on every byte but the last.  A word has WordBits      *)
(* bits (64 in the code, 32 for what ReadVarUint32 returns); signed words  *)
(* are integers here.                                                      *)
(***************************************************************************)
CONSTANT WordBits

ASSUME WordAssumption == WordBits \in Nat \ {0}

Word == Pow2[WordBits]
ToSigned(w) == IF w >= Word \div 2 THEN w - Word ELSE w

\* The bytes up to the first one without the flag, io.EOF when there is none.
Ends(s) == {i \in DOMAIN s : s[i] < 128}
Size(s) == CHOOSE n \in Ends(s) : \A i \in Ends(s) : n <= i
EOF == [err |-> TRUE, value |-> 0, size |-> 0]

\* res: what is shifted beyond the word is lost.
Payload(s) ==
  FoldLeftDomain(LAMBDA res, i :
    IF 7 * (i - 1) >= WordBits THEN res
    ELSE (res + (s[i] % 128) * Pow2[7 * (i - 1)]) % Word, 0, s)

ReadVarUint32Size(s) ==
  IF Ends(s) = {} THEN EOF
  ELSE [err |-> FALSE, value |-> Payload(SubSeq(s, 1, Size(s))), size |-> Size(s)]

\* (sign >> 1) & res: sign has become 0 when the bytes fill the word.
Negative(res, n) == 7 * n < WordBits /\ (res \div Pow2[7 * n - 1]) % 2 = 1

ReadVarint64Size(s) ==
  IF Ends(s) = {} THEN EOF
  ELSE LET n == Size(s)
           res == Payload(SubSeq(s, 1, n))
       IN [err |-> FALSE, size |-> n,
           value |-> ToSigned(IF Negative(res, n) THEN res + Word - Pow2[7 * n] ELSE res)]

RECURSIVE AppendUleb128(_, _)
AppendUleb128(b, v) ==
  IF v \div 128 # 0 THEN AppendUleb128(Append(b, (v % 128) + 128), v \div 128)
  ELSE Append(b, v % 128)

\* More bytes follow unless the rest is the sign of this byte repeated.
More(rest, negative) == (rest # -1 \/ ~negative) /\ (rest # 0 \/ negative)

RECURSIVE AppendSleb128(_, _)
AppendSleb128(b, v) ==
  LET c == v % 128 IN
  IF More(v \div 128, c >= 64) THEN AppendSleb128(Append(b, c + 128), v \div 128)
  ELSE Append(b, c)

-----------------------------------------------------------------------------
\* LebReadBack: a number is read back from what is written for it, whatever follows,
\* and nothing shorter could have been read as the same number; the value of what
\* is read is the payload in two's complement; a number that does not end is an
\* error (leb128/read.go:15-85, write.go:12-43).
LebReadBack ==
  LET u == ReadVarUint32Size(input)
      s == ReadVarint64Size(input)
      ub == AppendUleb128(<<>>, u.value)
      sb == AppendSleb128(<<>>, s.value)
  IN /\ u.err = (\A i \in DOMAIN input : input[i] >= 128) /\ s.err = u.err
     /\ ~u.err =>
          /\ ReadVarUint32Size(ub \o input) = [u EXCEPT !.size = Len(ub)]
          /\ Len(ub) <= u.size
          /\ ReadVarint64Size(sb \o input) = [s EXCEPT !.size = Len(sb)]
          /\ Len(sb) <= s.size
          /\ s.value % Word = u.value \/ s.value = u.value - Pow2[7 * u.size]
          /\ 7 * s.size < WordBits =>
               s.value < Pow2[7 * s.size - 1] /\ s.value >= -Pow2[7 * s.size - 1]
==============================================================================
