-------------------------------- MODULE BigBytes --------------------------------
(***************************************************************************)
(* math/big's conversions between a number and its bytes, of ByteBits bits *)
(* each and the most significant first.                                    *)
(***************************************************************************)
EXTENDS Integers, Sequences, SequencesExt

CONSTANT ByteBits

Byte == 2 ^ ByteBits
FromBytes(k) == FoldLeft(LAMBDA n, d : n * Byte + d, 0, k)
\* As few bytes as the number needs.
BytesOf(n) ==
  LET Digits[i \in 0 .. 8] == IF n < Byte ^ i THEN <<>> ELSE Append(Digits[i + 1], (n \div Byte ^ i) % Byte)
  IN Digits[0]
\* The last bytes, as many as are asked for.
Padded(n, size) == [i \in 1 .. size |-> (n \div Byte ^ (size - i)) % Byte]
==============================================================================
