---------------------------- MODULE AMF3Integer ----------------------------
(***************************************************************************)
(* The integers of the AMF3 library (AmfInteger): 29 bits with a sign, in  *)
(* one to four bytes of which all but the last say that another follows.   *)
(* Every length, reference and trait of the format is such a number.       *)
(***************************************************************************)
EXTENDS Integers, Sequences

Bytes == 0..255

\* The values that are written as an integer; others become a double.
InRange(v) == -268435456 <= v /\ v < 268435456

-----------------------------------------------------------------------------
(* Mistakes: what a plausible error would make of a definition below.      *)

\* The bits above the seventh are not cut off.
MarkedUncut(x) == 128 + x

-----------------------------------------------------------------------------
\* u8(x | 0x80), and x & 0x7F with the mark of a byte that another follows
Marked(x) == 128 + (x % 128)

\* The bytes of AmfInteger::serialize behind the type marker.  `>>` on a
\* negative number rounds down, as \div does.
IntegerBytes(v) ==
    CASE 0 <= v /\ v <= 127         -> <<v>>
      [] 127 < v /\ v <= 16383      -> <<Marked(v \div 128), v % 128>>
      [] 16383 < v /\ v <= 2097151  -> <<Marked(v \div 16384), Marked(v \div 128), v % 128>>
      [] OTHER                      -> <<Marked(v \div 4194304), Marked(v \div 32768),
                                         Marked(v \div 256), v % 256>>

\* An integer of n bytes begins at s[at]: the loop of deserializeValue stops
\* behind the first byte without a mark, and behind the fourth in any case.
Ends(s, at, n) ==
    /\ at + n - 1 <= Len(s)
    /\ \A i \in 1..(n - 1) : s[at + i - 1] >= 128
    /\ n = 4 \/ s[at + n - 1] < 128

\* deserializeValue throws out_of_range if there is none.
Whole(s, at) == \E n \in 1..4 : Ends(s, at, n)
Size(s, at)  == CHOOSE n \in 1..4 : Ends(s, at, n)

\* The bits of the n bytes, before the sign.
Bits(s, at, n) ==
    CASE n = 1 -> s[at]
      [] n = 2 -> (s[at] % 128) * 128 + s[at + 1]
      [] n = 3 -> (s[at] % 128) * 16384 + (s[at + 1] % 128) * 128 + s[at + 2]
      [] n = 4 -> (s[at] % 128) * 4194304 + (s[at + 1] % 128) * 32768
                      + (s[at + 2] % 128) * 256 + s[at + 3]

\* val <<= 3; val >>= 3: bit 28 is the sign.
Signed(val) == IF val >= 268435456 THEN val - 536870912 ELSE val

Value(s, at) == Signed(Bits(s, at, Size(s, at)))

\* The number that announces a length: AmfInteger(value << 1 | 1).
LengthBytes(n) == IntegerBytes(2 * n + 1)
=============================================================================
