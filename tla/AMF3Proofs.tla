---------------------------- MODULE AMF3Proofs ----------------------------
(***************************************************************************)
(* Proofs about the AMF3 library, for every program's items, every wire    *)
(* and every way they are written, changed, cut and read.                  *)
(*                                                                         *)
(* The integers; what holds of a reader on any bytes (it ends, and stays   *)
(* within them); that two readers on the same bytes do the same (Parses);  *)
(* what holds of a writer (Writes, Grows, Leaves); and the type invariant, *)
(* which needs all of these: bytes that arrived are bytes that were        *)
(* written, and no string in a table is empty.                             *)
(***************************************************************************)
EXTENDS AMF3, Recursion, SequenceTheorems, FiniteSetTheorems, TLAPS

-----------------------------------------------------------------------------
(* Arithmetic.                                                             *)

LEMMA ByteIsInt ==
    ASSUME NEW x \in Bytes
    PROVE  x \in Int /\ 0 <= x /\ x <= 255
  BY DEF Bytes

\* Two shifts are one.
LEMMA DivDiv ==
    ASSUME NEW v \in Int
    PROVE  /\ v \div 32768 = (v \div 256) \div 128
           /\ v \div 4194304 = (v \div 32768) \div 128
           /\ v \div 16384 = (v \div 128) \div 128
  BY SMT

\* A number is what is cut off and what is left.
LEMMA Parts ==
    ASSUME NEW v \in Int, NEW d \in {128, 256}
    PROVE  /\ v \div d \in Int
           /\ v % d \in 0..(d - 1)
           /\ v = d * (v \div d) + (v % d)
  <1>1. CASE d = 128 BY <1>1, SMT
  <1>2. CASE d = 256 BY <1>2, SMT
  <1> QED BY <1>1, <1>2

\* The mark does not touch the bits.
LEMMA MarkedPart ==
    ASSUME NEW x \in Int
    PROVE  Marked(x) \in 128..255 /\ Marked(x) % 128 = x % 128
  BY SMT DEF Marked

\* Four bytes hold 29 bits; those of a negative number are 2^29 too many.
LEMMA FourParts ==
    ASSUME NEW v \in Int, InRange(v)
    PROVE  LET bits == ((v \div 4194304) % 128) * 4194304 + ((v \div 32768) % 128) * 32768
                           + ((v \div 256) % 128) * 256 + (v % 256)
           IN Signed(bits) = v
  <1> DEFINE a == v \div 256
             b == v \div 32768
             c == v \div 4194304
  <1>1. a \in Int /\ v = 256 * a + (v % 256) /\ v % 256 \in 0..255
    BY Parts
  <1>2. b = a \div 128 /\ c = b \div 128
    BY DivDiv
  <1>3. b \in Int /\ a = 128 * b + (a % 128) /\ a % 128 \in 0..127
    BY <1>1, <1>2, Parts
  <1>4. c \in Int /\ b = 128 * c + (b % 128) /\ b % 128 \in 0..127
    BY <1>2, <1>3, Parts
  <1>5. -64 <= c /\ c < 64
    BY <1>1, <1>3, <1>4, SMT DEF InRange
  <1>6. c % 128 = IF c < 0 THEN c + 128 ELSE c
    BY <1>4, <1>5, SMT
  <1>7. v = 4194304 * c + 32768 * (b % 128) + 256 * (a % 128) + (v % 256)
    BY <1>1, <1>3, <1>4, SMT
  <1>8. CASE c < 0
    BY <1>1, <1>3, <1>4, <1>5, <1>6, <1>7, <1>8, SMT DEF Signed
  <1>9. CASE c >= 0
    BY <1>1, <1>3, <1>4, <1>5, <1>6, <1>7, <1>9, SMT DEF Signed
  <1> QED BY <1>4, <1>8, <1>9, SMT

-----------------------------------------------------------------------------
(* Where a number ends.                                                    *)

LEMMA SizeIs ==
    ASSUME NEW s \in Seq(Bytes), NEW at \in Nat \ {0}, NEW n \in 1..4, Ends(s, at, n)
    PROVE  Whole(s, at) /\ Size(s, at) = n
  <1>1. ASSUME NEW m \in 1..4, Ends(s, at, m) PROVE m = n
    <2>0. \A i \in 1..Len(s) : s[i] \in Bytes
      OBVIOUS
    <2>1. \A i \in 1..Len(s) : s[i] \in Int
      BY <2>0, ByteIsInt
    <2>2. SUFFICES ASSUME m # n PROVE FALSE
      OBVIOUS
    <2>3. CASE m < n
      <3>1. m \in 1..(n - 1) /\ m # 4
        BY <2>3
      <3>2. s[at + m - 1] >= 128 /\ s[at + m - 1] < 128
        BY <1>1, <3>1 DEF Ends
      <3>3. at + m - 1 \in 1..Len(s)
        BY <1>1 DEF Ends
      <3> QED BY <2>1, <3>2, <3>3
    <2>4. CASE n < m
      <3>1. n \in 1..(m - 1) /\ n # 4
        BY <2>4
      <3>2. s[at + n - 1] >= 128 /\ s[at + n - 1] < 128
        BY <1>1, <3>1 DEF Ends
      <3>3. at + n - 1 \in 1..Len(s)
        BY DEF Ends
      <3> QED BY <2>1, <3>2, <3>3
    <2> QED BY <2>2, <2>3, <2>4
  <1> QED BY <1>1 DEF Whole, Size

\* The four ways a number is written.
LEMMA Written ==
    ASSUME NEW v \in Int, InRange(v)
    PROVE  LET b == IntegerBytes(v)
           IN \/ 0 <= v /\ v <= 127 /\ b = <<v>>
              \/ 127 < v /\ v <= 16383 /\ b = <<Marked(v \div 128), v % 128>>
              \/ /\ 16383 < v /\ v <= 2097151
                 /\ b = <<Marked(v \div 16384), Marked(v \div 128), v % 128>>
              \/ b = <<Marked(v \div 4194304), Marked(v \div 32768),
                       Marked(v \div 256), v % 256>>
  BY DEF IntegerBytes

\* What is written is bytes, all but the last with the mark, and the last of
\* fewer than four without.
LEMMA Shape ==
    ASSUME NEW v \in Int, InRange(v)
    PROVE  LET b == IntegerBytes(v)
           IN /\ Len(b) \in 1..4
              /\ b \in Seq(Bytes)
              /\ \A i \in 1..(Len(b) - 1) : b[i] >= 128
              /\ Len(b) = 4 \/ b[Len(b)] < 128
  <1> DEFINE b == IntegerBytes(v)
  <1>0. \A x \in Int : Marked(x) \in Bytes /\ Marked(x) >= 128
    BY MarkedPart DEF Bytes
  <1>1. CASE 0 <= v /\ v <= 127 /\ b = <<v>>
    BY <1>1 DEF Bytes
  <1>d. /\ v % 128 \in 0..127 /\ v \div 128 \in Int
        /\ v % 256 \in 0..255 /\ v \div 256 \in Int
    BY Parts
  <1>e. v \div 16384 \in Int /\ v \div 32768 \in Int /\ v \div 4194304 \in Int
    BY SMT
  <1>f. v % 128 \in Bytes /\ v % 256 \in Bytes /\ v % 128 < 128
    BY <1>d DEF Bytes
  <1>2. CASE b = <<Marked(v \div 128), v % 128>>
    <2>1. Len(b) = 2 /\ b[1] = Marked(v \div 128) /\ b[2] = v % 128
      BY <1>2
    <2> QED BY <1>0, <1>d, <1>f, <1>2, <2>1
  <1>3. CASE b = <<Marked(v \div 16384), Marked(v \div 128), v % 128>>
    <2>1. Len(b) = 3 /\ b[1] = Marked(v \div 16384) /\ b[2] = Marked(v \div 128) /\ b[3] = v % 128
      BY <1>3
    <2> QED BY <1>0, <1>d, <1>e, <1>f, <1>3, <2>1
  <1>4. CASE b = <<Marked(v \div 4194304), Marked(v \div 32768), Marked(v \div 256), v % 256>>
    <2>1. /\ Len(b) = 4 /\ b[1] = Marked(v \div 4194304) /\ b[2] = Marked(v \div 32768)
          /\ b[3] = Marked(v \div 256) /\ b[4] = v % 256
      BY <1>4
    <2> QED BY <1>0, <1>d, <1>e, <1>f, <1>4, <2>1
  <1> QED BY <1>1, <1>2, <1>3, <1>4, Written
-----------------------------------------------------------------------------
(* The theorems.                                                           *)

\* From the place `at` on, s holds the bytes b.
Holds(s, at, b) ==
    /\ at + Len(b) - 1 <= Len(s)
    /\ \A i \in 1..Len(b) : s[at + i - 1] = b[i]

(***************************************************************************)
(* deserializeValue of what serialize wrote: it stops behind the last byte *)
(* of the number and returns the number, with its sign, for all numbers of *)
(* 29 bits and whatever comes before and after in the stream.              *)
(***************************************************************************)
THEOREM IntegerRoundTrip ==
    ASSUME NEW v \in Int, InRange(v),
           NEW s \in Seq(Bytes), NEW at \in Nat \ {0},
           Holds(s, at, IntegerBytes(v))
    PROVE  /\ Whole(s, at)
           /\ Size(s, at) = Len(IntegerBytes(v))
           /\ Value(s, at) = v
  <1> DEFINE b == IntegerBytes(v)
             n == Len(b)
  <1>1. n \in 1..4 /\ Ends(s, at, n)
    <2>1. /\ n \in 1..4
          /\ \A i \in 1..(n - 1) : b[i] >= 128
          /\ n = 4 \/ b[n] < 128
      BY Shape
    <2>0. \A i \in 1..n : s[at + i - 1] = b[i]
      BY DEF Holds
    <2> HIDE DEF n, b
    <2>2. ASSUME NEW i \in 1..(n - 1) PROVE s[at + i - 1] >= 128
      <3>1. i \in 1..n
        BY <2>1
      <3>2. s[at + i - 1] = b[i]
        BY <2>0, <3>1
      <3> QED BY <2>1, <3>2
    <2>3. s[at + n - 1] = b[n]
      BY <2>0, <2>1
    <2> USE DEF n, b
    <2> QED BY <2>1, <2>2, <2>3 DEF Ends, Holds
  <1>2. Whole(s, at) /\ Size(s, at) = n
    BY <1>1, SizeIs
  <1>3. Value(s, at) = Signed(Bits(s, at, n))
    BY <1>2 DEF Value
  <1>4. v % 128 \in 0..127 /\ v \div 128 \in Int /\ v = 128 * (v \div 128) + (v % 128)
    BY Parts
  <1>5. /\ v \div 16384 \in Int /\ v \div 32768 \in Int /\ v \div 4194304 \in Int
        /\ v \div 256 \in Int
    BY SMT
  <1>6. CASE 0 <= v /\ v <= 127 /\ b = <<v>>
    <2>1. n = 1 /\ s[at] = v
      BY <1>6 DEF Holds
    <2>2. Bits(s, at, n) = v
      BY <2>1 DEF Bits
    <2> QED BY <1>2, <1>3, <1>6, <2>2, SMT DEF Signed
  <1>7. CASE 127 < v /\ v <= 16383 /\ b = <<Marked(v \div 128), v % 128>>
    <2>1. n = 2 /\ s[at] = Marked(v \div 128) /\ s[at + 1] = v % 128
      BY <1>7 DEF Holds
    <2>2. Bits(s, at, n) = ((v \div 128) % 128) * 128 + (v % 128)
      BY <1>4, <2>1, MarkedPart DEF Bits
    <2>3. (v \div 128) % 128 = v \div 128
      BY <1>4, <1>7, SMT
    <2> QED BY <1>2, <1>3, <1>4, <1>7, <2>2, <2>3, SMT DEF Signed
  <1>8. CASE /\ 16383 < v /\ v <= 2097151
             /\ b = <<Marked(v \div 16384), Marked(v \div 128), v % 128>>
    <2>1. /\ n = 3 /\ s[at] = Marked(v \div 16384) /\ s[at + 1] = Marked(v \div 128)
          /\ s[at + 2] = v % 128
      BY <1>8 DEF Holds
    <2>2. Bits(s, at, n) = ((v \div 16384) % 128) * 16384 + ((v \div 128) % 128) * 128 + (v % 128)
      BY <1>4, <1>5, <2>1, MarkedPart DEF Bits
    <2>3. /\ v \div 16384 = (v \div 128) \div 128
          /\ v \div 128 = 128 * (v \div 16384) + ((v \div 128) % 128)
          /\ (v \div 128) % 128 \in 0..127
      BY <1>4, DivDiv, Parts
    <2>4. (v \div 16384) % 128 = v \div 16384
      BY <1>8, SMT
    <2> QED BY <1>2, <1>3, <1>4, <1>5, <1>8, <2>2, <2>3, <2>4, SMT DEF Signed
  <1>9. CASE b = <<Marked(v \div 4194304), Marked(v \div 32768), Marked(v \div 256), v % 256>>
    <2>1. /\ n = 4 /\ s[at] = Marked(v \div 4194304) /\ s[at + 1] = Marked(v \div 32768)
          /\ s[at + 2] = Marked(v \div 256) /\ s[at + 3] = v % 256
      BY <1>9 DEF Holds
    <2>2. Bits(s, at, n) = ((v \div 4194304) % 128) * 4194304 + ((v \div 32768) % 128) * 32768
                               + ((v \div 256) % 128) * 256 + (v % 256)
      BY <1>5, <2>1, MarkedPart DEF Bits
    <2> QED BY <1>2, <1>3, <2>2, FourParts
  <1> QED BY <1>6, <1>7, <1>8, <1>9, Written

(***************************************************************************)
(* A number that is cut off anywhere is noticed: deserializeValue throws   *)
(* out_of_range and does not take the part for another number.             *)
(***************************************************************************)
THEOREM CutIntegerRefused ==
    ASSUME NEW v \in Int, InRange(v),
           NEW s \in Seq(Bytes), NEW at \in Nat \ {0},
           Len(s) < at + Len(IntegerBytes(v)) - 1,
           \A i \in 1..Len(IntegerBytes(v)) :
               at + i - 1 <= Len(s) => s[at + i - 1] = IntegerBytes(v)[i]
    PROVE  ~Whole(s, at)
  <1> DEFINE b == IntegerBytes(v)
  <1>1. SUFFICES ASSUME NEW n \in 1..4, Ends(s, at, n) PROVE FALSE
    BY DEF Whole
  <1>2. /\ Len(b) \in 1..4
        /\ b \in Seq(Bytes)
        /\ \A i \in 1..(Len(b) - 1) : b[i] >= 128
    BY Shape
  <1>3. /\ Len(s) < at + Len(b) - 1
        /\ \A i \in 1..Len(b) : at + i - 1 <= Len(s) => s[at + i - 1] = b[i]
    OBVIOUS
  <1>4. Len(s) \in Nat
    OBVIOUS
  <1> HIDE DEF b
  <1>5. at + n - 1 <= Len(s) /\ (n = 4 \/ s[at + n - 1] < 128)
    BY <1>1 DEF Ends
  <1>6. n < Len(b)
    BY <1>2, <1>3, <1>4, <1>5
  <1>7. s[at + n - 1] < 128
    <2>1. \A k \in 1..4 : n < k => n # 4
      OBVIOUS
    <2>2. n # 4
      BY <1>2, <1>6, <2>1
    <2> QED BY <1>5, <2>2
  <1>8. s[at + n - 1] = b[n] /\ b[n] >= 128
    BY <1>2, <1>3, <1>5, <1>6
  <1>9. b[n] \in Bytes
    BY <1>2, <1>6
  <1> QED BY <1>7, <1>8, <1>9, ByteIsInt

(***************************************************************************)
(* What asLength writes for fewer than 2^27 things is in range, is not     *)
(* taken for a reference, and the length is what is left after the shift.  *)
(***************************************************************************)
THEOREM LengthRoundTrip ==
    ASSUME NEW n \in Nat, n < 134217728,
           NEW s \in Seq(Bytes), NEW at \in Nat \ {0},
           Holds(s, at, LengthBytes(n))
    PROVE  Value(s, at) % 2 = 1 /\ Value(s, at) \div 2 = n
  <1>1. 2 * n + 1 \in Int /\ InRange(2 * n + 1)
    BY SMT DEF InRange
  <1>2. Value(s, at) = 2 * n + 1
    BY <1>1, IntegerRoundTrip DEF LengthBytes
  <1> QED BY <1>2, SMT

-----------------------------------------------------------------------------
(* Sequences of whatever there is.                                         *)

IsSeq(s) == \E S : s \in Seq(S)

LEMMA SeqIs ==
    ASSUME NEW S, NEW s \in Seq(S)
    PROVE  IsSeq(s) /\ Len(s) \in Nat /\ DOMAIN s = 1 .. Len(s)
  BY DEF IsSeq

LEMMA SeqHas ==
    ASSUME NEW s, IsSeq(s)
    PROVE  Len(s) \in Nat /\ DOMAIN s = 1 .. Len(s) /\ s = [i \in 1 .. Len(s) |-> s[i]]
  BY DEF IsSeq

LEMMA SeqGiven ==
    ASSUME NEW n \in Nat, NEW s, DOMAIN s = 1 .. n, s = [i \in 1 .. n |-> s[i]]
    PROVE  IsSeq(s) /\ Len(s) = n
  <1> DEFINE S == {s[i] : i \in DOMAIN s}
  <1>1. \A i \in 1 .. n : s[i] \in S
    OBVIOUS
  <1> HIDE DEF S
  <1>2. s \in [1 .. n -> S]
    <2>1. [i \in 1 .. n |-> s[i]] \in [1 .. n -> S]
      BY <1>1
    <2> QED BY <2>1
  <1>3. s \in Seq(S)
    BY <1>2, SeqDef
  <1>4. Len(s) = n
    BY <1>2, <1>3
  <1> QED BY <1>3, <1>4 DEF IsSeq

LEMMA SeqSame ==
    ASSUME NEW s, NEW t, IsSeq(s), IsSeq(t), Len(s) = Len(t),
           \A i \in 1 .. Len(s) : s[i] = t[i]
    PROVE  s = t
  <1>1. s = [i \in 1 .. Len(s) |-> s[i]] /\ t = [i \in 1 .. Len(s) |-> t[i]]
    BY SeqHas
  <1> QED BY <1>1

\* A set that has the elements of both
LEMMA SeqBoth ==
    ASSUME NEW s, NEW t, IsSeq(s), IsSeq(t)
    PROVE  \E S : s \in Seq(S) /\ t \in Seq(S)
  <1>1. PICK S : s \in Seq(S)
    BY DEF IsSeq
  <1>2. PICK T : t \in Seq(T)
    BY DEF IsSeq
  <1>3. s \in Seq(S \cup T)
    BY <1>1, SeqMonotonic
  <1>4. t \in Seq(S \cup T)
    BY <1>2, SeqMonotonic
  <1> QED BY <1>3, <1>4

LEMMA SeqAppend ==
    ASSUME NEW s, IsSeq(s), NEW x
    PROVE  LET t == Append(s, x)
           IN /\ IsSeq(t) /\ Len(t) = Len(s) + 1 /\ t # <<>>
              /\ \A i \in 1 .. Len(s) : t[i] = s[i]
              /\ t[Len(s) + 1] = x
  <1>1. PICK T : s \in Seq(T)
    BY DEF IsSeq
  <1> DEFINE S == T \cup {x}
  <1>2. s \in Seq(S)
    BY <1>1, SeqMonotonic
  <1>3. x \in S
    OBVIOUS
  <1> HIDE DEF S
  <1>4. Append(s, x) \in Seq(S)
    BY <1>2, <1>3
  <1>5. /\ Append(s, x) # << >>
        /\ Len(Append(s, x)) = Len(s) + 1
        /\ \A i \in 1 .. Len(s) : Append(s, x)[i] = s[i]
        /\ Append(s, x)[Len(s) + 1] = x
    BY <1>2, <1>3, AppendProperties
  <1> QED BY <1>4, <1>5 DEF IsSeq

LEMMA SeqConcat ==
    ASSUME NEW s, NEW t, IsSeq(s), IsSeq(t)
    PROVE  LET u == s \o t
           IN /\ IsSeq(u) /\ Len(u) = Len(s) + Len(t)
              /\ \A i \in 1 .. Len(s) : u[i] = s[i]
              /\ \A i \in 1 .. Len(t) : u[Len(s) + i] = t[i]
  <1>1. PICK S : s \in Seq(S) /\ t \in Seq(S)
    BY SeqBoth
  <1>2. s \o t \in Seq(S) /\ Len(s \o t) = Len(s) + Len(t)
    BY <1>1, ConcatProperties
  <1>3. Len(s) \in Nat /\ Len(t) \in Nat
    BY <1>1
  <1>4. \A i \in 1 .. Len(s) + Len(t) : (s \o t)[i] = IF i <= Len(s) THEN s[i] ELSE t[i - Len(s)]
    BY <1>1, ConcatProperties
  <1>5. \A i \in 1 .. Len(s) : (s \o t)[i] = s[i]
    BY <1>3, <1>4
  <1>6. ASSUME NEW i \in 1 .. Len(t) PROVE (s \o t)[Len(s) + i] = t[i]
    <2>1. Len(s) + i \in 1 .. Len(s) + Len(t) /\ ~(Len(s) + i <= Len(s)) /\ Len(s) + i - Len(s) = i
      BY <1>3
    <2> QED BY <1>4, <2>1
  <1> QED BY <1>2, <1>5, <1>6 DEF IsSeq

LEMMA SeqPut ==
    ASSUME NEW s, IsSeq(s), NEW i, NEW x
    PROVE  LET t == [s EXCEPT ![i] = x]
           IN /\ IsSeq(t) /\ Len(t) = Len(s)
              /\ \A j \in 1 .. Len(s) : t[j] = IF j = i THEN x ELSE s[j]
  <1> DEFINE t == [s EXCEPT ![i] = x]
             n == Len(s)
  <1>1. n \in Nat /\ DOMAIN s = 1 .. n
    BY SeqHas
  <1> HIDE DEF n
  <1>2. t = [j \in 1 .. n |-> IF j = i THEN x ELSE s[j]]
    BY <1>1, Zenon
  <1> HIDE DEF t
  <1>3. DOMAIN t = 1 .. n /\ t = [j \in 1 .. n |-> t[j]]
    BY <1>2
  <1>4. \A j \in 1 .. n : t[j] = IF j = i THEN x ELSE s[j]
    BY <1>2
  <1>5. IsSeq(t) /\ Len(t) = n
    BY <1>1, <1>3, SeqGiven
  <1> QED BY <1>4, <1>5 DEF n, t

LEMMA SeqFront ==
    ASSUME NEW s, IsSeq(s), s # <<>>
    PROVE  LET t == Front(s)
           IN /\ IsSeq(t) /\ Len(t) = Len(s) - 1 /\ Len(s) >= 1
              /\ \A i \in 1 .. Len(s) - 1 : t[i] = s[i]
  <1> DEFINE n == Len(s) - 1
  <1>1. PICK S : s \in Seq(S)
    BY DEF IsSeq
  <1>2. n \in Nat /\ Len(s) = n + 1
    BY <1>1
  <1>3. \A i \in 1 .. n : s[i] \in S
    BY <1>1, <1>2
  <1> HIDE DEF n
  <1>4. /\ SubSeq(s, 1, n) \in Seq(S)
        /\ Len(SubSeq(s, 1, n)) = IF 1 <= n THEN n - 1 + 1 ELSE 0
        /\ \A i \in 1 .. n - 1 + 1 : SubSeq(s, 1, n)[i] = s[1 + i - 1]
    BY <1>2, <1>3, SubSeqProperties
  <1>5. Len(SubSeq(s, 1, n)) = n
    BY <1>2, <1>4
  <1>6. \A i \in 1 .. n : SubSeq(s, 1, n)[i] = s[i]
    BY <1>2, <1>4
  <1>7. Front(s) = SubSeq(s, 1, n) /\ Len(s) - 1 = n /\ Len(s) >= 1
    BY <1>2 DEF Front, n
  <1> QED BY <1>4, <1>5, <1>6, <1>7 DEF IsSeq

LEMMA SeqTail ==
    ASSUME NEW s, IsSeq(s), s # <<>>
    PROVE  LET t == Tail(s)
           IN /\ IsSeq(t) /\ Len(t) = Len(s) - 1 /\ Len(s) >= 1
              /\ \A i \in 1 .. Len(s) - 1 : t[i] = s[i + 1]
              /\ Head(s) = s[1]
  <1>1. PICK S : s \in Seq(S)
    BY DEF IsSeq
  <1>2. Len(s) \in Nat /\ Len(s) >= 1
    BY <1>1
  <1>3. Tail(s) \in Seq(S) /\ Len(Tail(s)) = Len(s) - 1 /\ Head(s) = s[1]
    BY <1>1
  <1>4. \A i \in 1 .. Len(s) - 1 : Tail(s)[i] = s[i + 1]
    BY <1>1, <1>2
  <1> QED BY <1>2, <1>3, <1>4 DEF IsSeq

LEMMA SeqNone ==
    IsSeq(<<>>) /\ Len(<<>>) = 0 /\ \A s : IsSeq(s) /\ Len(s) = 0 => s = <<>>
  <1>1. <<>> \in Seq({}) /\ Len(<<>>) = 0
    OBVIOUS
  <1>2. ASSUME NEW s, IsSeq(s), Len(s) = 0 PROVE s = <<>>
    BY <1>2 DEF IsSeq
  <1> QED BY <1>1, <1>2 DEF IsSeq

LEMMA SeqOne ==
    ASSUME NEW x
    PROVE  IsSeq(<<x>>) /\ Len(<<x>>) = 1 /\ <<x>>[1] = x
  <1>1. <<x>> \in Seq({x})
    OBVIOUS
  <1> QED BY <1>1 DEF IsSeq

-----------------------------------------------------------------------------
(* Every call leaves a reader, and reads on.                               *)

Fields == DOMAIN NewReader

\* What is so of a reader at all times.
Reading(r) ==
    /\ DOMAIN r = Fields
    /\ r.data \in Strings
    /\ r.at \in 1 .. (Len(r.data) + 1)
    /\ r.strings \in Seq(Strings \ {<<>>})
    /\ r.str \in Strings
    /\ r.num \in Int
    /\ r.thrown \in BOOLEAN
    /\ IsSeq(r.stack)

\* Between r and s nothing changes but what reading a string or number changes.
Keeps(r, s) ==
    /\ s.data = r.data /\ s.objects = r.objects /\ s.stack = r.stack /\ s.traits = r.traits
    /\ s.trait = r.trait /\ s.list = r.list /\ s.item = r.item

\* s is r after a call that reads at least n bytes, or throws.
Reads(r, s, n) ==
    /\ Reading(s) /\ Keeps(r, s)
    /\ s.at >= r.at
    /\ s.thrown \/ s.at >= r.at + n

LEMMA FieldsAre ==
    Fields = {"data", "at", "strings", "traits", "objects", "thrown", "num", "str", "trait",
              "list", "item", "stack"}
  BY DEF Fields, NewReader

LEMMA ReadingIs ==
    ASSUME NEW r, Reading(r)
    PROVE  r.at \in Nat /\ r.at >= 1 /\ Len(r.data) \in Nat /\ r.at <= Len(r.data) + 1
           /\ Left(r) \in Nat /\ Left(r) = Len(r.data) - r.at + 1
  <1>1. Len(r.data) \in Nat /\ r.at \in 1 .. (Len(r.data) + 1)
    BY DEF Reading, Strings
  <1> QED BY <1>1 DEF Left

LEMMA RefuseReads ==
    ASSUME NEW r, Reading(r), NEW n \in Int
    PROVE  Reads(r, Refuse(r), n) /\ Refuse(r).thrown
  <1> DEFINE s == Refuse(r)
  <1>1. /\ DOMAIN s = Fields /\ s.at = r.at /\ s.strings = r.strings /\ s.str = r.str
        /\ s.num = r.num /\ s.thrown = TRUE /\ Keeps(r, s)
    BY FieldsAre DEF Refuse, Reading, Keeps
  <1> HIDE DEF s
  <1>2. Reading(s)
    BY <1>1 DEF Reading, Keeps
  <1>3. s.at >= r.at
    BY <1>1, ReadingIs
  <1> QED BY <1>1, <1>2, <1>3 DEF Reads, s

LEMMA ReadBytesReads ==
    ASSUME NEW r, Reading(r), NEW n \in Int
    PROVE  Reads(r, ReadBytes(r, n), n)
  <1> DEFINE s == ReadBytes(r, n)
  <1>1. CASE n < 0 \/ n > Left(r)
    BY <1>1, RefuseReads DEF ReadBytes
  <1>2. CASE ~(n < 0 \/ n > Left(r))
    <2> DEFINE b == SubSeq(r.data, r.at, r.at + n - 1)
    <2>1. s = [r EXCEPT !.str = b, !.at = r.at + n]
      BY <1>2 DEF ReadBytes
    <2>2. r.at \in Nat /\ r.at >= 1 /\ r.at + n <= Len(r.data) + 1 /\ n >= 0 /\ Len(r.data) \in Nat
      BY <1>2, ReadingIs
    <2>3. \A i \in r.at .. r.at + n - 1 : r.data[i] \in Bytes
      BY <2>2 DEF Reading, Strings
    <2>4. b \in Strings
      BY <2>2, <2>3, SubSeqProperties DEF Strings
    <2> HIDE DEF b
    <2>5. /\ DOMAIN s = Fields /\ s.at = r.at + n /\ s.strings = r.strings /\ s.str = b
          /\ s.num = r.num /\ s.thrown = r.thrown /\ Keeps(r, s)
      BY <2>1, FieldsAre DEF Reading, Keeps
    <2> HIDE DEF s
    <2>6. Reading(s)
      BY <2>2, <2>4, <2>5 DEF Reading, Keeps
    <2> QED BY <2>2, <2>5, <2>6 DEF Reads, s
  <1> QED BY <1>1, <1>2

LEMMA ValueIsInt ==
    ASSUME NEW s \in Strings, NEW at \in Nat, at >= 1, Whole(s, at)
    PROVE  Value(s, at) \in Int /\ Size(s, at) \in 1 .. 4 /\ at + Size(s, at) - 1 <= Len(s)
  <1> DEFINE n == Size(s, at)
  <1>1. n \in 1 .. 4 /\ Ends(s, at, n)
    BY DEF Whole, Size
  <1>2. at + n - 1 <= Len(s) /\ Len(s) \in Nat
    <2>1. at + n - 1 <= Len(s)
      BY <1>1 DEF Ends
    <2> QED BY <2>1 DEF Strings
  <1> HIDE DEF n
  <1>3. \A i \in 1 .. Len(s) : s[i] \in Int
    <2>1. \A i \in 1 .. Len(s) : s[i] \in Bytes
      BY DEF Strings
    <2> QED BY <2>1, ByteIsInt
  <1>4. ASSUME NEW j \in 1 .. n PROVE s[at + j - 1] \in Int
    BY <1>1, <1>2, <1>3
  <1>5. Bits(s, at, n) \in Int
    <2>1. CASE n = 1
      BY <2>1, <1>4 DEF Bits
    <2>2. CASE n = 2
      <3>1. s[at] \in Int /\ s[at + 1] \in Int
        BY <2>2, <1>4
      <3> QED BY <2>2, <3>1 DEF Bits
    <2>3. CASE n = 3
      <3>1. s[at] \in Int /\ s[at + 1] \in Int /\ s[at + 2] \in Int
        BY <2>3, <1>4
      <3> QED BY <2>3, <3>1 DEF Bits
    <2>4. CASE n = 4
      <3>1. s[at] \in Int /\ s[at + 1] \in Int /\ s[at + 2] \in Int /\ s[at + 3] \in Int
        BY <2>4, <1>4
      <3> QED BY <2>4, <3>1 DEF Bits
    <2> QED BY <1>1, <2>1, <2>2, <2>3, <2>4
  <1>6. Value(s, at) \in Int
    BY <1>5 DEF Value, Signed, n
  <1> QED BY <1>1, <1>2, <1>6 DEF n

LEMMA ReadIntegerReads ==
    ASSUME NEW r, Reading(r)
    PROVE  Reads(r, ReadInteger(r), 1)
  <1> DEFINE s == ReadInteger(r)
  <1>0. r.data \in Strings /\ r.at \in Nat /\ r.at >= 1 /\ Len(r.data) \in Nat
    BY ReadingIs DEF Reading
  <1>1. CASE ~Whole(r.data, r.at)
    BY <1>1, RefuseReads DEF ReadInteger
  <1>2. CASE Whole(r.data, r.at)
    <2> DEFINE v == Value(r.data, r.at)
               n == Size(r.data, r.at)
    <2>1. s = [r EXCEPT !.num = v, !.at = r.at + n]
      BY <1>2 DEF ReadInteger
    <2>2. v \in Int /\ n \in 1 .. 4 /\ r.at + n - 1 <= Len(r.data)
      BY <1>0, <1>2, ValueIsInt
    <2> HIDE DEF v, n
    <2>5. /\ DOMAIN s = Fields /\ s.at = r.at + n /\ s.strings = r.strings /\ s.str = r.str
          /\ s.num = v /\ s.thrown = r.thrown /\ Keeps(r, s)
      BY <2>1, FieldsAre DEF Reading, Keeps
    <2> HIDE DEF s
    <2>6. s.at \in 1 .. Len(r.data) + 1 /\ s.at >= r.at + 1 /\ s.at >= r.at
      BY <1>0, <2>2, <2>5
    <2>7. Reading(s)
      BY <2>2, <2>5, <2>6 DEF Reading, Keeps
    <2> QED BY <2>5, <2>6, <2>7 DEF Reads, s
  <1> QED BY <1>1, <1>2

LEMMA ReadsOn ==
    ASSUME NEW r, NEW s, NEW t, NEW m \in Nat, NEW n \in Nat, Reading(r), Reads(r, s, m), Reads(s, t, n),
           ~s.thrown
    PROVE  Reads(r, t, m + n)
  <1>1. Reading(s) /\ Reading(t)
    BY DEF Reads
  <1>2. r.at \in Nat /\ s.at \in Nat /\ t.at \in Nat
    BY <1>1, ReadingIs
  <1>3. t.at >= r.at /\ (t.thrown \/ t.at >= r.at + (m + n))
    BY <1>2 DEF Reads
  <1>4. Keeps(r, t)
    BY DEF Reads, Keeps
  <1> QED BY <1>1, <1>3, <1>4 DEF Reads

LEMMA ReadStringReads ==
    ASSUME NEW r, Reading(r)
    PROVE  Reads(r, ReadString(r), 1)
  <1> DEFINE u == ReadInteger(r)
  <1>1. Reads(r, u, 1) /\ Reading(u) /\ u.num \in Int
    BY ReadIntegerReads DEF Reads, Reading
  <1>2. CASE u.thrown
    BY <1>1, <1>2 DEF ReadString, Then
  <1> HIDE DEF u
  <1>3. CASE ~u.thrown /\ u.num % 2 = 0
    <2>1. ReadString(r) = GetString(u)
      BY <1>3 DEF ReadString, Then, u
    <2>2. Reads(u, GetString(u), 0)
      <3> DEFINE i == u.num \div 2 + 1
                 s == GetString(u)
      <3>1. CASE i \notin DOMAIN u.strings
        BY <3>1, <1>1, RefuseReads DEF GetString
      <3>2. CASE i \in DOMAIN u.strings
        <4>1. s = [u EXCEPT !.str = u.strings[i]]
          BY <3>2 DEF GetString
        <4>2. u.strings[i] \in Strings
          BY <3>2, <1>1 DEF Reading
        <4> HIDE DEF i
        <4>3. /\ DOMAIN s = Fields /\ s.at = u.at /\ s.strings = u.strings /\ s.str = u.strings[i]
              /\ s.num = u.num /\ s.thrown = u.thrown /\ Keeps(u, s)
          BY <4>1, <1>1, FieldsAre DEF Reading, Keeps
        <4> HIDE DEF s
        <4>4. Reading(s)
          BY <1>1, <4>2, <4>3 DEF Reading, Keeps
        <4>5. s.at >= u.at /\ s.at >= u.at + 0
          BY <1>1, <4>3, ReadingIs
        <4> QED BY <4>3, <4>4, <4>5 DEF Reads, s
      <3> QED BY <3>1, <3>2
    <2> QED BY <2>1, <1>1, <1>3, <2>2, ReadsOn
  <1>4. CASE ~u.thrown /\ u.num % 2 # 0
    <2> DEFINE n == u.num \div 2
               v == ReadBytes(u, n)
               s == IF v.thrown THEN v ELSE Remember(v)
    <2>1. ReadString(r) = s
      BY <1>4 DEF ReadString, Then, u
    <2>0. n \in Int
      BY <1>1
    <2> HIDE DEF n
    <2>2. n \in Int /\ Reads(u, v, n) /\ Reading(v)
      BY <2>0, ReadBytesReads, <1>1 DEF Reads
    <2>a. n < 0 => v.thrown
      BY <2>2, <1>1, RefuseReads DEF ReadBytes
    <2>b. Reads(u, v, 0)
      BY <2>2, <2>a, <1>1, ReadingIs DEF Reads
    <2> HIDE DEF v
    <2>3. Reads(v, s, 0)
      <3>1. v.at >= v.at /\ v.at >= v.at + 0
        BY <2>2, ReadingIs
      <3>2. CASE v.thrown \/ v.str = <<>>
        <4>1. s = v
          BY <3>2 DEF Remember
        <4> QED BY <4>1, <3>1, <2>2 DEF Reads, Keeps
      <3>3. CASE ~v.thrown /\ v.str # <<>>
        <4>1. s = [v EXCEPT !.strings = Append(v.strings, v.str)]
          BY <3>3 DEF Remember
        <4>2. /\ DOMAIN s = Fields /\ s.at = v.at /\ s.strings = Append(v.strings, v.str) /\ s.str = v.str
              /\ s.num = v.num /\ s.thrown = v.thrown /\ Keeps(v, s)
          BY <4>1, <2>2, FieldsAre DEF Reading, Keeps
        <4>3. Append(v.strings, v.str) \in Seq(Strings \ {<<>>})
          BY <3>3, <2>2 DEF Reading
        <4> HIDE DEF s
        <4>4. Reading(s)
          BY <2>2, <4>2, <4>3 DEF Reading, Keeps
        <4> QED BY <3>1, <4>2, <4>4 DEF Reads, s
      <3> QED BY <3>2, <3>3
    <2>4. CASE v.thrown
      <3>1. s = v
        BY <2>4
      <3>2. v.at >= r.at
        BY <1>1, <2>b, <2>2, ReadingIs DEF Reads
      <3>3. Keeps(r, v)
        BY <1>1, <2>b DEF Reads, Keeps
      <3> QED BY <3>1, <3>2, <3>3, <2>1, <2>2, <2>4 DEF Reads
    <2>5. CASE ~v.thrown
      <3>1. Reads(u, s, 0)
        BY <2>5, <2>b, <2>3, <1>1, ReadsOn
      <3> QED BY <2>1, <3>1, <1>1, <1>4, ReadsOn
    <2> QED BY <2>4, <2>5
  <1> QED BY <1>1, <1>2, <1>3, <1>4 DEF Reading

\* s is r after a call that may also begin items, at most k of them more than it ends.
Goes(r, s, n, k) ==
    /\ Reading(s)
    /\ s.data = r.data /\ s.list = r.list
    /\ s.at >= r.at
    /\ s.thrown \/ s.at >= r.at + n
    /\ Len(s.stack) <= Len(r.stack) + k

LEMMA ReadsGoes ==
    ASSUME NEW r, NEW s, NEW n \in Int, Reading(r), Reads(r, s, n)
    PROVE  Goes(r, s, n, 0)
  <1>1. s.stack = r.stack /\ Len(r.stack) \in Nat
    BY SeqHas DEF Reads, Keeps, Reading
  <1> QED BY <1>1 DEF Goes, Reads, Keeps

LEMMA GoesOn ==
    ASSUME NEW r, NEW s, NEW t, NEW m \in Nat, NEW n \in Nat, NEW j \in Int, NEW k \in Int,
           Reading(r), Goes(r, s, m, j), Goes(s, t, n, k), ~s.thrown
    PROVE  Goes(r, t, m + n, j + k)
  <1>1. Reading(s) /\ Reading(t)
    BY DEF Goes
  <1>2. r.at \in Nat /\ s.at \in Nat /\ t.at \in Nat
    BY <1>1, ReadingIs
  <1>a. s.at >= r.at + m /\ t.at >= s.at /\ (t.thrown \/ t.at >= s.at + n) /\ s.at >= r.at
    BY DEF Goes
  <1>3. t.at >= r.at /\ (t.thrown \/ t.at >= r.at + (m + n))
    <2> DEFINE x == r.at
               y == s.at
               z == t.at
    <2>1. /\ x \in Nat /\ y \in Nat /\ z \in Nat /\ y >= x + m /\ z >= y /\ y >= x
          /\ t.thrown \/ z >= y + n
      BY <1>2, <1>a
    <2> HIDE DEF x, y, z
    <2>2. z >= x /\ (z >= y + n => z >= x + (m + n))
      BY <2>1
    <2> QED BY <2>1, <2>2 DEF x, z
  <1>4. Len(r.stack) \in Nat /\ Len(s.stack) \in Nat /\ Len(t.stack) \in Nat
    BY <1>1, SeqHas DEF Reading
  <1>5. Len(t.stack) <= Len(r.stack) + (j + k)
    <2> DEFINE a == Len(r.stack)
               b == Len(s.stack)
               c == Len(t.stack)
    <2>1. a \in Nat /\ b \in Nat /\ c \in Nat /\ b <= a + j /\ c <= b + k
      BY <1>4 DEF Goes
    <2> HIDE DEF a, b, c
    <2>2. c <= a + (j + k)
      BY ONLY <2>1, j \in Int, k \in Int
    <2> QED BY <2>2 DEF a, c
  <1>6. t.data = r.data /\ t.list = r.list
    BY DEF Goes
  <1> QED BY <1>1, <1>3, <1>5, <1>6 DEF Goes

\* An exception on the way is the end of it.
LEMMA GoesEnds ==
    ASSUME NEW r, NEW s, NEW m \in Nat, NEW n \in Nat, NEW j \in Int, NEW k \in Int,
           Reading(r), Goes(r, s, m, j), s.thrown, j <= k
    PROVE  Goes(r, s, n, k)
  <1>1. Len(r.stack) \in Nat /\ Len(s.stack) \in Nat
    BY SeqHas DEF Reading, Goes
  <1> QED BY <1>1 DEF Goes

LEMMA GoesLess ==
    ASSUME NEW r, NEW s, NEW m \in Nat, NEW n \in Nat, NEW j \in Int, NEW k \in Int,
           Reading(r), Goes(r, s, m, j), n <= m, j <= k
    PROVE  Goes(r, s, n, k)
  <1>1. Len(r.stack) \in Nat /\ Len(s.stack) \in Nat /\ r.at \in Nat /\ s.at \in Nat
    BY SeqHas, ReadingIs DEF Reading, Goes
  <1>2. /\ Reading(s) /\ s.data = r.data /\ s.list = r.list /\ s.at >= r.at
        /\ s.thrown \/ s.at >= r.at + m
        /\ Len(s.stack) <= Len(r.stack) + j
    BY DEF Goes
  <1>3. s.thrown \/ s.at >= r.at + n
    BY <1>1, <1>2
  <1>4. Len(s.stack) <= Len(r.stack) + k
    BY <1>1, <1>2
  <1> QED BY <1>2, <1>3, <1>4 DEF Goes

LEMMA RefuseGoes ==
    ASSUME NEW r, Reading(r), NEW n \in Nat, NEW k \in Nat
    PROVE  Goes(r, Refuse(r), n, k)
  <1>1. Reads(r, Refuse(r), n) /\ Refuse(r).thrown
    BY RefuseReads
  <1>2. Goes(r, Refuse(r), n, 0)
    BY <1>1, ReadsGoes
  <1> QED BY <1>1, <1>2, GoesEnds

\* A change of what is not looked at here.
LEMMA ChangeGoes ==
    ASSUME NEW r, NEW s, Reading(r), DOMAIN s = Fields, s.data = r.data, s.list = r.list,
           s.at = r.at, s.strings = r.strings, s.str = r.str, s.num = r.num,
           s.thrown = r.thrown, NEW k \in Int, IsSeq(s.stack), Len(s.stack) <= Len(r.stack) + k
    PROVE  Goes(r, s, 0, k)
  <1>1. Reading(s)
    BY DEF Reading
  <1>2. s.at >= r.at /\ s.at >= r.at + 0
    BY ReadingIs
  <1> QED BY <1>1, <1>2 DEF Goes

LEMMA GoOnGoes ==
    ASSUME NEW r, Reading(r), NEW w, NEW x
    PROVE  Goes(r, GoOn(r, w, x), 0, 0)
  <1> DEFINE s == GoOn(r, w, x)
             n == Len(r.stack)
             f == [r.stack[n] EXCEPT !.wants = w]
             st == [r.stack EXCEPT ![n] = f]
             ob == [r.objects EXCEPT ![r.stack[n].slot] = x]
  <1>1. s = [r EXCEPT !.stack = st, !.objects = ob]
    BY DEF GoOn
  <1>a. IsSeq(r.stack) /\ n \in Nat
    BY SeqHas DEF Reading
  <1> HIDE DEF f
  <1>2. IsSeq(st) /\ Len(st) = n /\ n \in Nat
    BY <1>a, SeqPut
  <1> HIDE DEF st, ob
  <1>3. /\ DOMAIN s = Fields /\ s.data = r.data /\ s.list = r.list
        /\ s.at = r.at /\ s.strings = r.strings /\ s.str = r.str /\ s.num = r.num
        /\ s.thrown = r.thrown /\ s.stack = st
    BY <1>1, FieldsAre DEF Reading
  <1> HIDE DEF s, n
  <1>4. Len(s.stack) <= Len(r.stack) + 0
    BY <1>2, <1>3 DEF n
  <1> QED BY <1>2, <1>3, <1>4, ChangeGoes DEF s

LEMMA DeliverGoes ==
    ASSUME NEW r, Reading(r)
    PROVE  Goes(r, Deliver(r), 0, 0)
  <1>1. CASE r.stack = <<>>
    <2>1. Deliver(r) = r
      BY <1>1 DEF Deliver
    <2>2. Len(r.stack) \in Nat /\ Len(r.stack) <= Len(r.stack) + 0 /\ DOMAIN r = Fields /\ IsSeq(r.stack)
      BY SeqHas DEF Reading
    <2> QED BY <2>1, <2>2, ChangeGoes
  <1>2. CASE r.stack # <<>>
    <2>1. \E w, x : Deliver(r) = GoOn(r, w, x)
      BY <1>2, Zenon DEF Deliver
    <2> QED BY <2>1, GoOnGoes
  <1> QED BY <1>1, <1>2

LEMMA ReturnGoes ==
    ASSUME NEW r, Reading(r), NEW x
    PROVE  Goes(r, Return(r, x), 0, 0)
  <1> DEFINE s == [r EXCEPT !.item = x]
  <1>1. /\ DOMAIN s = Fields /\ s.data = r.data /\ s.list = r.list
        /\ s.at = r.at /\ s.strings = r.strings /\ s.str = r.str /\ s.num = r.num
        /\ s.thrown = r.thrown /\ s.stack = r.stack
    BY FieldsAre DEF Reading
  <1>2. Return(r, x) = Deliver(s)
    BY DEF Return
  <1> HIDE DEF s
  <1>3. Len(r.stack) \in Nat /\ IsSeq(r.stack)
    BY SeqHas DEF Reading
  <1>4. Goes(r, s, 0, 0)
    BY <1>1, <1>3, ChangeGoes
  <1>5. Goes(s, Deliver(s), 0, 0)
    BY <1>4, DeliverGoes DEF Goes
  <1>6. CASE ~s.thrown
    <2>1. Goes(r, Deliver(s), 0 + 0, 0 + 0)
      BY <1>4, <1>5, <1>6, GoesOn
    <2> QED BY <2>1, <1>2
  <1>7. CASE s.thrown
    <2>1. r.at \in Nat /\ Len(r.stack) \in Nat /\ Deliver(s).at \in Nat /\ Len(Deliver(s).stack) \in Nat
      BY <1>5, ReadingIs, SeqHas DEF Goes, Reading
    <2> QED BY <1>1, <1>2, <1>5, <2>1 DEF Goes
  <1> QED BY <1>4, <1>6, <1>7 DEF Goes, Reading

LEMMA KeepGoes ==
    ASSUME NEW r, Reading(r), NEW x
    PROVE  Goes(r, Keep(r, x), 0, 0)
  <1> DEFINE o == Append(r.objects, x)
             s == [r EXCEPT !.objects = o]
  <1>2. Keep(r, x) = Return(s, x)
    BY DEF Keep
  <1> HIDE DEF o
  <1>1. /\ DOMAIN s = Fields /\ s.data = r.data /\ s.list = r.list
        /\ s.at = r.at /\ s.strings = r.strings /\ s.str = r.str /\ s.num = r.num
        /\ s.thrown = r.thrown /\ s.stack = r.stack
    BY FieldsAre DEF Reading
  <1> HIDE DEF s
  <1>3. Reading(s)
    BY <1>1 DEF Reading
  <1>4. Goes(s, Return(s, x), 0, 0)
    BY <1>3, ReturnGoes
  <1> QED BY <1>1, <1>2, <1>4 DEF Goes

LEMMA OpenGoes ==
    ASSUME NEW r, Reading(r), NEW x, NEW w
    PROVE  Goes(r, Open(r, x, w), 0, 1)
  <1> DEFINE o == Append(r.objects, x)
             st == Append(r.stack, [slot |-> Len(r.objects) + 1, wants |-> w])
             s == Open(r, x, w)
  <1>1. IsSeq(st) /\ Len(st) = Len(r.stack) + 1 /\ Len(r.stack) \in Nat
    BY SeqAppend, SeqHas DEF Reading
  <1>2. s = [r EXCEPT !.objects = o, !.stack = st]
    BY DEF Open
  <1> HIDE DEF o, st
  <1>3. /\ DOMAIN s = Fields /\ s.data = r.data /\ s.list = r.list
        /\ s.at = r.at /\ s.strings = r.strings /\ s.str = r.str /\ s.num = r.num
        /\ s.thrown = r.thrown /\ s.stack = st
    BY <1>2, FieldsAre DEF Reading
  <1> HIDE DEF s
  <1> QED BY <1>1, <1>3, ChangeGoes DEF s

LEMMA GetPointerGoes ==
    ASSUME NEW r, Reading(r), NEW type
    PROVE  Goes(r, GetPointer(r, type), 0, 0)
  <1>1. CASE GetPointer(r, type) = Refuse(r)
    BY <1>1, RefuseGoes
  <1>2. CASE \E x : GetPointer(r, type) = Return(r, x)
    BY <1>2, ReturnGoes
  <1> QED BY <1>1, <1>2, Zenon DEF GetPointer

-----------------------------------------------------------------------------

\* What comes after a call
LEMMA ThenGoes ==
    ASSUME NEW r, NEW s, NEW t, NEW m \in Nat, NEW n \in Nat, NEW k \in Nat,
           Reading(r), Reads(r, s, m), 
           s.thrown => t = s,
           ~s.thrown => Goes(s, t, n, k)
    PROVE  Goes(r, t, m + n, k)
  <1>1. Goes(r, s, m, 0)
    BY ReadsGoes
  <1>2. CASE s.thrown
    BY <1>1, <1>2, GoesEnds
  <1>3. CASE ~s.thrown
    <2>1. Goes(r, t, m + n, 0 + k)
      BY <1>1, <1>3, GoesOn
    <2> QED BY <2>1
  <1> QED BY <1>2, <1>3 DEF Goes, Reading

LEMMA ReadTextGoes ==
    ASSUME NEW r, Reading(r), NEW type, NEW n \in Int
    PROVE  Goes(r, ReadText(r, type, n), 0, 0)
  <1> DEFINE s == ReadBytes(r, n)
             t == ReadText(r, type, n)
  <1>1. Reads(r, s, n) /\ Reading(s) /\ r.at \in Nat
    BY ReadBytesReads, ReadingIs DEF Reads
  <1>2. Reads(r, s, 0)
    BY <1>1 DEF Reads
  <1>3. s.thrown => t = s
    BY DEF ReadText, Then
  <1>4. ~s.thrown => \E x : t = Keep(s, x)
    BY Zenon DEF ReadText, Then
  <1> HIDE DEF s, t
  <1>5. ~s.thrown => Goes(s, t, 0, 0)
    BY <1>1, <1>4, KeepGoes
  <1>6. Goes(r, t, 0 + 0, 0)
    BY <1>2, <1>3, <1>5, ThenGoes
  <1> QED BY <1>6 DEF t

\* The same with a call that changes more.
LEMMA ThenGoesOn ==
    ASSUME NEW r, NEW s, NEW t, NEW m \in Nat, NEW n \in Nat, NEW j \in Nat, NEW k \in Nat,
           Reading(r), Goes(r, s, m, j),
           s.thrown => t = s,
           ~s.thrown => Goes(s, t, n, k)
    PROVE  Goes(r, t, m + n, j + k)
  <1>2. CASE s.thrown
    BY <1>2, GoesEnds
  <1>3. CASE ~s.thrown
    BY <1>3, GoesOn
  <1> QED BY <1>2, <1>3 DEF Goes, Reading

LEMMA ReadVectorGoes ==
    ASSUME NEW r, Reading(r), NEW type \in Vectors, NEW n \in Int
    PROVE  Goes(r, ReadVector(r, type, n), 0, 0)
  <1> DEFINE f == ReadBytes(r, 1)
             m == n * Stride[type]
             v == ReadBytes(f, m)
             t == ReadVector(r, type, n)
  <1>1. Reads(r, f, 1) /\ Reading(f)
    BY ReadBytesReads DEF Reads
  <1>2. m \in Int
    BY DEF Stride, Vectors
  <1> HIDE DEF m
  <1>3. f.thrown => t = f
    BY DEF ReadVector, Then
  <1>4. ~f.thrown => IF v.thrown THEN t = v ELSE \E x : t = Keep(v, x)
    BY Zenon DEF ReadVector, Then, m
  <1> HIDE DEF t, f
  <1>5. Reads(f, v, m) /\ Reading(v)
    BY <1>1, <1>2, ReadBytesReads DEF Reads
  <1>6. Reads(f, v, 0)
    BY <1>1, <1>5, ReadingIs DEF Reads
  <1> HIDE DEF v
  <1>7. ~v.thrown => \A x : Goes(v, Keep(v, x), 0, 0)
    BY <1>5, KeepGoes
  <1>8. ~f.thrown => Goes(f, t, 0, 0)
    <2> HAVE ~f.thrown
    <2>1. v.thrown => t = v
      BY <1>4
    <2>2. ~v.thrown => Goes(v, t, 0, 0)
      BY <1>4, <1>7
    <2>3. Goes(f, t, 0 + 0, 0)
      BY <1>1, <1>6, <2>1, <2>2, ThenGoes
    <2> QED BY <2>3
  <1>9. Goes(r, t, 1 + 0, 0)
    BY <1>1, <1>3, <1>8, ThenGoes
  <1>10. Goes(r, t, 0, 0)
    BY <1>9, GoesLess
  <1> QED BY <1>10 DEF t

LEMMA ReadDateGoes ==
    ASSUME NEW r, Reading(r)
    PROVE  Goes(r, ReadDate(r), 0, 0)
  <1> DEFINE s == ReadBytes(r, 8)
             t == ReadDate(r)
  <1>1. Reads(r, s, 8) /\ Reading(s)
    BY ReadBytesReads DEF Reads
  <1>3. s.thrown => t = s
    BY DEF ReadDate, Then
  <1>4. ~s.thrown => \E x : t = Keep(s, x)
    BY Zenon DEF ReadDate, Then
  <1> HIDE DEF s, t
  <1>5. ~s.thrown => Goes(s, t, 0, 0)
    BY <1>1, <1>4, KeepGoes
  <1>6. Goes(r, t, 8 + 0, 0)
    BY <1>1, <1>3, <1>5, ThenGoes
  <1>7. Goes(r, t, 0, 0)
    BY <1>6, GoesLess
  <1> QED BY <1>7 DEF t

LEMMA ReadArrayGoes ==
    ASSUME NEW r, Reading(r), NEW n \in Int
    PROVE  Goes(r, ReadArray(r, n), 0, 1)
  BY OpenGoes DEF ReadArray

LEMMA ReadObjectVectorGoes ==
    ASSUME NEW r, Reading(r), NEW n \in Int
    PROVE  Goes(r, ReadObjectVector(r, n), 0, 1)
  <1> DEFINE f == ReadBytes(r, 1)
             v == ReadString(f)
             t == ReadObjectVector(r, n)
  <1>1. Reads(r, f, 1) /\ Reading(f)
    BY ReadBytesReads DEF Reads
  <1>3. f.thrown => t = f
    BY DEF ReadObjectVector, Then
  <1>4. ~f.thrown => IF v.thrown THEN t = v ELSE t = Refuse(v) \/ \E x, w : t = Open(v, x, w)
    BY Zenon DEF ReadObjectVector, Then
  <1> HIDE DEF t, f
  <1>5. Reads(f, v, 1) /\ Reading(v)
    BY <1>1, ReadStringReads DEF Reads
  <1> HIDE DEF v
  <1>7. Goes(v, Refuse(v), 0, 1) /\ \A x, w : Goes(v, Open(v, x, w), 0, 1)
    BY <1>5, OpenGoes, RefuseGoes
  <1>8. ~f.thrown => Goes(f, t, 1, 1)
    <2> HAVE ~f.thrown
    <2>1. v.thrown => t = v
      BY <1>4
    <2>2. ~v.thrown => Goes(v, t, 0, 1)
      BY <1>4, <1>7
    <2>3. Goes(f, t, 1 + 0, 1)
      BY <1>1, <1>5, <2>1, <2>2, ThenGoes
    <2> QED BY <2>3
  <1>9. Goes(r, t, 1 + 1, 1)
    BY <1>1, <1>3, <1>8, ThenGoes
  <1>10. Goes(r, t, 0, 1)
    BY <1>9, GoesLess
  <1> QED BY <1>10 DEF t

LEMMA ReadDictionaryGoes ==
    ASSUME NEW r, Reading(r), NEW n \in Int
    PROVE  Goes(r, ReadDictionary(r, n), 0, 1)
  <1> DEFINE s == ReadBytes(r, 1)
             t == ReadDictionary(r, n)
  <1>1. Reads(r, s, 1) /\ Reading(s)
    BY ReadBytesReads DEF Reads
  <1>3. s.thrown => t = s
    BY DEF ReadDictionary, Then
  <1>4. ~s.thrown => \E x, w : t = Open(s, x, w)
    BY Zenon DEF ReadDictionary, Then
  <1> HIDE DEF s, t
  <1>5. ~s.thrown => Goes(s, t, 0, 1)
    BY <1>1, <1>4, OpenGoes
  <1>6. Goes(r, t, 1 + 0, 1)
    BY <1>1, <1>3, <1>5, ThenGoes
  <1>7. Goes(r, t, 0, 1)
    BY <1>6, GoesLess
  <1> QED BY <1>7 DEF t

-----------------------------------------------------------------------------
(* Traits.                                                                 *)

LEMMA ReadAttributeGoes ==
    ASSUME NEW r, Reading(r)
    PROVE  Goes(r, ReadAttribute(r), 0, 0)
  <1> DEFINE s == ReadString(r)
             t == ReadAttribute(r)
  <1>1. Reads(r, s, 1) /\ Reading(s)
    BY ReadStringReads DEF Reads
  <1>2. CASE r.thrown
    <2>1. t = r
      BY <1>2 DEF ReadAttribute, Then
    <2>2. Len(r.stack) \in Nat /\ Len(r.stack) <= Len(r.stack) + 0 /\ DOMAIN r = Fields /\ IsSeq(r.stack)
      BY SeqHas DEF Reading
    <2> QED BY <2>1, <2>2, ChangeGoes
  <1>3. CASE ~r.thrown
    <2>1. s.thrown => t = s
      BY <1>3 DEF ReadAttribute, Then
    <2>2. ~s.thrown => \E x : t = [s EXCEPT !.trait = x]
      <3> DEFINE x == [s.trait EXCEPT !.attrs = Append(@, s.str)]
      <3>1. ~s.thrown => t = [s EXCEPT !.trait = x]
        BY <1>3 DEF ReadAttribute, Then
      <3> QED BY <3>1
    <2> HIDE DEF s, t
    <2>3. ~s.thrown => Goes(s, t, 0, 0)
      <3> HAVE ~s.thrown
      <3>1. PICK x : t = [s EXCEPT !.trait = x]
        BY <2>2
      <3>2. /\ DOMAIN t = Fields /\ t.data = s.data /\ t.list = s.list
            /\ t.at = s.at /\ t.strings = s.strings /\ t.str = s.str /\ t.num = s.num
            /\ t.thrown = s.thrown /\ t.stack = s.stack
        BY <3>1, <1>1, FieldsAre DEF Reading
      <3>3. Len(s.stack) \in Nat /\ IsSeq(s.stack)
        BY <1>1, SeqHas DEF Reading
      <3> QED BY <3>2, <3>3, <1>1, ChangeGoes
    <2>4. Goes(r, t, 1 + 0, 0)
      BY <1>1, <2>1, <2>3, ThenGoes
    <2>5. Goes(r, t, 0, 0)
      BY <2>4, GoesLess
    <2> QED BY <2>5 DEF t
  <1> QED BY <1>2, <1>3 DEF Reading

\* The readers on the way through n attribute names.
AttributeRun(r, n, read) == /\ read[0] = r
                            /\ \A i \in 1 .. n : read[i] = ReadAttribute(read[i - 1])
                            /\ ReadAttributes(r, n) = read[n]

\* ReadAttributes is the last of them.
LEMMA AttributesComputed ==
    ASSUME NEW r, NEW n \in Nat, n <= Left(r), n > 0, Left(r) \in Nat
    PROVE  \E read : AttributeRun(r, n, read)
  <1> DEFINE F(f, m) == f = [i \in 0 .. m |-> IF i = 0 THEN r ELSE ReadAttribute(f[i - 1])]
             T == {m \in Nat : \E f : F(f, m)}
  <1>1. 0 \in T
    <2> DEFINE f == [i \in 0 .. 0 |-> r]
    <2>1. F(f, 0)
      OBVIOUS
    <2> QED BY <2>1
  <1>2. ASSUME NEW m \in Nat, m \in T PROVE m + 1 \in T
    <2>1. PICK f : F(f, m)
      BY <1>2
    <2> DEFINE g == [i \in 0 .. m + 1 |-> IF i <= m THEN f[i] ELSE ReadAttribute(f[m])]
    <2>2. \A i \in 0 .. m : g[i] = f[i]
      OBVIOUS
    <2>3. g[m + 1] = ReadAttribute(f[m])
      OBVIOUS
    <2>4. ASSUME NEW i \in 0 .. m + 1
          PROVE  g[i] = IF i = 0 THEN r ELSE ReadAttribute(g[i - 1])
      <3>1. CASE i <= m
        <4>1. f[i] = IF i = 0 THEN r ELSE ReadAttribute(f[i - 1])
          BY <2>1, <3>1
        <4>2. i # 0 => i - 1 \in 0 .. m
          BY <3>1
        <4> HIDE DEF g
        <4> QED BY <2>2, <3>1, <4>1, <4>2
      <3>2. CASE i = m + 1
        <4>1. i # 0 /\ i - 1 = m /\ m \in 0 .. m
          BY <3>2
        <4> HIDE DEF g
        <4> QED BY <2>2, <2>3, <3>2, <4>1
      <3> QED BY <3>1, <3>2
    <2>5. F(g, m + 1)
      BY <2>4
    <2> HIDE DEF F, g
    <2>6. \E h : F(h, m + 1)
      BY <2>5
    <2> QED BY <2>6
  <1> HIDE DEF T
  <1>3. Nat \subseteq T
    BY <1>1, <1>2, Induct
  <1>4. \E f : F(f, n)
    BY <1>3 DEF T
  <1> DEFINE read == CHOOSE f : F(f, n)
  <1>5. F(read, n)
    BY <1>4
  <1>6. read[0] = r /\ \A i \in 1 .. n : read[i] = ReadAttribute(read[i - 1])
    <2> HIDE DEF read
    <2>1. 0 \in 0 .. n /\ \A i \in 1 .. n : i \in 0 .. n /\ i # 0
      OBVIOUS
    <2> QED BY <1>5, <2>1
  <1>7. ReadAttributes(r, n) = read[n]
    BY DEF ReadAttributes
  <1> HIDE DEF read
  <1>8. AttributeRun(r, n, read)
    BY <1>6, <1>7 DEF AttributeRun
  <1> QED BY <1>8

LEMMA AttributesGo ==
    ASSUME NEW r, Reading(r), NEW n \in Int
    PROVE  Goes(r, ReadAttributes(r, n), 0, 0)
  <1>0. Len(r.stack) \in Nat /\ Len(r.stack) <= Len(r.stack) + 0 /\ DOMAIN r = Fields /\ IsSeq(r.stack)
    BY SeqHas DEF Reading
  <1>1. Goes(r, r, 0, 0)
    BY <1>0, ChangeGoes
  <1>2. CASE n > Left(r)
    BY <1>2, RefuseGoes DEF ReadAttributes
  <1>3. CASE n <= Left(r) /\ n <= 0
    <2>1. ReadAttributes(r, n) = r
      BY <1>3, ReadingIs DEF ReadAttributes
    <2> QED BY <1>1, <2>1
  <1>4. CASE n <= Left(r) /\ n > 0
    <2>0. n \in Nat
      BY <1>4
    <2>1. PICK read : AttributeRun(r, n, read)
      BY <2>0, <1>4, ReadingIs, AttributesComputed
    <2>2. /\ read[0] = r
          /\ \A i \in 1 .. n : read[i] = ReadAttribute(read[i - 1])
          /\ ReadAttributes(r, n) = read[n]
      BY <2>1 DEF AttributeRun
    <2> DEFINE T == {i \in Nat : i <= n => Goes(r, read[i], 0, 0)}
    <2>3. 0 \in T
      BY <1>1, <2>2
    <2>4. ASSUME NEW i \in Nat, i \in T PROVE i + 1 \in T
      <3>1. SUFFICES ASSUME i + 1 <= n PROVE Goes(r, read[i + 1], 0, 0)
        OBVIOUS
      <3>2. i + 1 \in 1 .. n /\ (i + 1) - 1 = i /\ Goes(r, read[i], 0, 0)
        BY <2>4, <3>1, <2>0
      <3>3. read[i + 1] = ReadAttribute(read[i])
        BY <2>2, <3>2
      <3>a. Reading(read[i])
        BY <3>2 DEF Goes
      <3>4. Goes(read[i], read[i + 1], 0, 0)
        BY <3>a, <3>3, ReadAttributeGoes
      <3>5. read[i].thrown => read[i + 1] = read[i]
        BY <3>3 DEF ReadAttribute, Then
      <3>6. Goes(r, read[i + 1], 0 + 0, 0 + 0)
        BY <3>2, <3>4, <3>5, ThenGoesOn
      <3> QED BY <3>6
    <2> HIDE DEF T
    <2>5. Nat \subseteq T
      BY <2>3, <2>4, Induct
    <2> QED BY <2>0, <2>2, <2>5 DEF T
  <1> QED BY <1>2, <1>3, <1>4, ReadingIs

LEMMA TraitGoes ==
    ASSUME NEW r, Reading(r), NEW x, NEW ts
    PROVE  /\ Goes(r, [r EXCEPT !.trait = x], 0, 0)
           /\ Goes(r, [r EXCEPT !.traits = ts], 0, 0)
  <1>0. Len(r.stack) \in Nat /\ Len(r.stack) <= Len(r.stack) + 0 /\ IsSeq(r.stack)
    BY SeqHas DEF Reading
  <1>1. ASSUME NEW t, t = [r EXCEPT !.trait = x] PROVE Goes(r, t, 0, 0)
    <2>1. /\ DOMAIN t = Fields /\ t.data = r.data /\ t.list = r.list
          /\ t.at = r.at /\ t.strings = r.strings /\ t.str = r.str /\ t.num = r.num
          /\ t.thrown = r.thrown /\ t.stack = r.stack
      BY <1>1, FieldsAre DEF Reading
    <2> QED BY <2>1, <1>0, ChangeGoes
  <1>2. ASSUME NEW t, t = [r EXCEPT !.traits = ts] PROVE Goes(r, t, 0, 0)
    <2>1. /\ DOMAIN t = Fields /\ t.data = r.data /\ t.list = r.list
          /\ t.at = r.at /\ t.strings = r.strings /\ t.str = r.str /\ t.num = r.num
          /\ t.thrown = r.thrown /\ t.stack = r.stack
      BY <1>2, FieldsAre DEF Reading
    <2> QED BY <2>1, <1>0, ChangeGoes
  <1> QED BY <1>1, <1>2

LEMMA ReadTraitsGoes ==
    ASSUME NEW r, Reading(r)
    PROVE  Goes(r, ReadTraits(r), 0, 0)
  <1>1. CASE r.num % 4 = 1
    <2>1. ReadTraits(r) = GetTraits(r)
      BY <1>1 DEF ReadTraits
    <2>2. GetTraits(r) = Refuse(r) \/ \E x : GetTraits(r) = [r EXCEPT !.trait = x]
      BY Zenon DEF GetTraits
    <2>3. CASE GetTraits(r) = Refuse(r)
      BY <2>1, <2>3, RefuseGoes
    <2>4. CASE \E x : GetTraits(r) = [r EXCEPT !.trait = x]
      <3>1. PICK x : GetTraits(r) = [r EXCEPT !.trait = x]
        BY <2>4
      <3>2. Goes(r, [r EXCEPT !.trait = x], 0, 0)
        BY TraitGoes
      <3> QED BY <2>1, <3>1, <3>2, Zenon
    <2> QED BY <2>2, <2>3, <2>4
  <1>2. CASE r.num % 4 # 1
    <2> DEFINE n == ReadString(r)
               t == ReadTraits(r)
    <2>1. Reads(r, n, 1) /\ Reading(n)
      BY ReadStringReads DEF Reads
    <2>2. n.thrown => t = n
      BY <1>2 DEF ReadTraits, Then
    <2>3. ~n.thrown =>
            \E x : \E k \in Int :
               LET a == ReadAttributes([n EXCEPT !.trait = x], k)
               IN IF a.thrown THEN t = a ELSE \E ts : t = [a EXCEPT !.traits = ts]
      <3> HAVE ~n.thrown
      <3> DEFINE ext   == r.num % 8 = 7
                 flags == IF ext THEN {"externalizable"}
                          ELSE IF (r.num \div 8) % 2 = 1 THEN {"dynamic"} ELSE {}
                 x == [name |-> n.str, flags |-> flags, attrs |-> <<>>]
                 k == IF ext THEN 0 ELSE r.num \div 16
                 a == ReadAttributes([n EXCEPT !.trait = x], k)
      <3>1. r.num \in Int
        BY DEF Reading
      <3>2. k \in Int
        <4> HIDE DEF ext
        <4> QED BY <3>1
      <3>3. t = IF a.thrown THEN a ELSE [a EXCEPT !.traits = Append(@, a.trait)]
        BY <1>2 DEF ReadTraits, Then
      <3> HIDE DEF x, k
      <3>4. IF a.thrown THEN t = a ELSE \E ts : t = [a EXCEPT !.traits = ts]
        <4> HIDE DEF a, t
        <4>1. CASE a.thrown
          BY <4>1, <3>3
        <4>2. CASE ~a.thrown
          BY <4>2, <3>3, Zenon
        <4> QED BY <4>1, <4>2
      <3> QED BY <3>2, <3>4
    <2> HIDE DEF n, t
    <2>4. ~n.thrown => Goes(n, t, 0, 0)
      <3> HAVE ~n.thrown
      <3>1. PICK x : \E k \in Int :
               LET a == ReadAttributes([n EXCEPT !.trait = x], k)
               IN IF a.thrown THEN t = a ELSE \E ts : t = [a EXCEPT !.traits = ts]
        BY <2>3
      <3>2. PICK k \in Int :
               LET a == ReadAttributes([n EXCEPT !.trait = x], k)
               IN IF a.thrown THEN t = a ELSE \E ts : t = [a EXCEPT !.traits = ts]
        BY <3>1
      <3> DEFINE m == [n EXCEPT !.trait = x]
                 a == ReadAttributes(m, k)
      <3>3. Goes(n, m, 0, 0)
        BY <2>1, TraitGoes
      <3>4. ~m.thrown
        BY <2>1, FieldsAre DEF Reading
      <3>a. a.thrown => t = a
        BY <3>2
      <3>b. ~a.thrown => \E ts : t = [a EXCEPT !.traits = ts]
        BY <3>2
      <3> HIDE DEF m
      <3>5. Goes(m, a, 0, 0)
        BY <3>3, AttributesGo DEF Goes
      <3> HIDE DEF a
      <3>6. Goes(n, a, 0 + 0, 0 + 0)
        BY <2>1, <3>3, <3>4, <3>5, GoesOn
      <3>7. ~a.thrown => Goes(a, t, 0, 0)
        <4>1. Reading(a)
          BY <3>6 DEF Goes
        <4>2. \A ts : Goes(a, [a EXCEPT !.traits = ts], 0, 0)
          BY <4>1, TraitGoes
        <4> QED BY <3>b, <4>2
      <3>8. Goes(n, t, 0 + 0, 0 + 0)
        BY <2>1, <3>a, <3>6, <3>7, ThenGoesOn
      <3> QED BY <3>8
    <2>5. Goes(r, t, 1 + 0, 0)
      BY <2>1, <2>2, <2>4, ThenGoes
    <2>6. Goes(r, t, 0, 0)
      BY <2>5, GoesLess
    <2> QED BY <2>6 DEF t
  <1> QED BY <1>1, <1>2

LEMMA ReadExternalGoes ==
    ASSUME NEW r, Reading(r), NEW x
    PROVE  Goes(r, ReadExternal(r, x), 0, 0)
  <1> DEFINE s == ReadBytes(r, 1)
             t == ReadExternal(r, x)
  <1>1. Reads(r, s, 1) /\ Reading(s)
    BY ReadBytesReads DEF Reads
  <1>2. CASE x.name \notin Registered
    BY <1>2, RefuseGoes DEF ReadExternal
  <1>0. CASE x.name \in Registered
    <2>3. s.thrown => t = s
      BY <1>0 DEF ReadExternal, Then
    <2>4. ~s.thrown => \E y : t = Keep(s, y)
      BY <1>0, Zenon DEF ReadExternal, Then
    <2> HIDE DEF s, t
    <2>5. ~s.thrown => Goes(s, t, 0, 0)
      BY <1>1, <2>4, KeepGoes
    <2>6. Goes(r, t, 1 + 0, 0)
      BY <1>1, <2>3, <2>5, ThenGoes
    <2>7. Goes(r, t, 0, 0)
      BY <2>6, GoesLess
    <2> QED BY <2>7 DEF t
  <1> QED BY <1>2, <1>0

LEMMA ReadObjectGoes ==
    ASSUME NEW r, Reading(r)
    PROVE  Goes(r, ReadObject(r), 0, 1)
  <1> DEFINE s == ReadTraits(r)
             t == ReadObject(r)
  <1>1. Goes(r, s, 0, 0) /\ Reading(s)
    BY ReadTraitsGoes DEF Goes
  <1>2. s.thrown => t = s
    BY DEF ReadObject, Then
  <1>3. ~s.thrown => \/ \E x : t = ReadExternal(s, x)
                     \/ \E x, w : t = Open(s, x, w)
    BY Zenon DEF ReadObject, Then
  <1> HIDE DEF s, t
  <1>4. ASSUME NEW x PROVE Goes(s, ReadExternal(s, x), 0, 1)
    BY <1>1, ReadExternalGoes, GoesLess
  <1>5. ~s.thrown => Goes(s, t, 0, 1)
    BY <1>1, <1>3, <1>4, OpenGoes
  <1>6. Goes(r, t, 0 + 0, 0 + 1)
    BY <1>1, <1>2, <1>5, ThenGoesOn
  <1> QED BY <1>6 DEF t

LEMMA ReadReferableGoes ==
    ASSUME NEW r, Reading(r), NEW type \in Referable
    PROVE  Goes(r, ReadReferable(r, type), 0, 1)
  <1> DEFINE u == ReadInteger(r)
             t == ReadReferable(r, type)
             n == u.num \div 2
  <1>1. Reads(r, u, 1) /\ Reading(u)
    BY ReadIntegerReads DEF Reads
  <1>2. u.thrown => t = u
    BY DEF ReadReferable, Then
  <1>3. u.num \in Int
    BY <1>1 DEF Reading
  <1>4. n \in Int
    BY <1>3
  <1>5. ~u.thrown =>
            t = IF u.num % 2 = 0 THEN GetPointer(u, type)
                ELSE CASE type \in Texts   -> ReadText(u, type, n)
                       [] type \in Vectors -> ReadVector(u, type, n)
                       [] type = "date"    -> ReadDate(u)
                       [] type = "array"   -> ReadArray(u, n)
                       [] type = "object"  -> ReadObject(u)
                       [] type = "vectorObject" -> ReadObjectVector(u, n)
                       [] type = "dictionary"   -> ReadDictionary(u, n)
    BY DEF ReadReferable, Then
  <1> HIDE DEF u, n, t
  <1>6. ~u.thrown /\ u.num % 2 # 0 =>
            \/ t = ReadText(u, type, n)
            \/ type \in Vectors /\ t = ReadVector(u, type, n)
            \/ t = ReadDate(u)
            \/ t = ReadArray(u, n)
            \/ t = ReadObject(u)
            \/ t = ReadObjectVector(u, n)
            \/ t = ReadDictionary(u, n)
    BY <1>5 DEF Referable, Texts, Vectors
  <1>7. ~u.thrown /\ u.num % 2 = 0 => t = GetPointer(u, type)
    BY <1>5
  <1>8. ~u.thrown => Goes(u, t, 0, 1)
    <2> HAVE ~u.thrown
    <2>1. CASE t = GetPointer(u, type)
      BY <2>1, <1>1, GetPointerGoes, GoesLess
    <2>2. CASE t = ReadText(u, type, n)
      BY <2>2, <1>1, <1>4, ReadTextGoes, GoesLess
    <2>3. CASE type \in Vectors /\ t = ReadVector(u, type, n)
      BY <2>3, <1>1, <1>4, ReadVectorGoes, GoesLess
    <2>4. CASE t = ReadDate(u)
      BY <2>4, <1>1, <1>4, ReadDateGoes, GoesLess
    <2>5. CASE t = ReadArray(u, n)
      BY <2>5, <1>1, <1>4, ReadArrayGoes
    <2>6. CASE t = ReadObject(u)
      BY <2>6, <1>1, <1>4, ReadObjectGoes
    <2>7. CASE t = ReadObjectVector(u, n)
      BY <2>7, <1>1, <1>4, ReadObjectVectorGoes
    <2>8. CASE t = ReadDictionary(u, n)
      BY <2>8, <1>1, <1>4, ReadDictionaryGoes
    <2> QED BY <1>6, <1>7, <2>1, <2>2, <2>3, <2>4, <2>5, <2>6, <2>7, <2>8
  <1>9. Goes(r, t, 1 + 0, 1)
    BY <1>1, <1>2, <1>8, ThenGoes
  <1>10. Goes(r, t, 0, 1)
    BY <1>9, GoesLess
  <1> QED BY <1>10 DEF t

LEMMA ReadMarkedGoes ==
    ASSUME NEW r, Reading(r)
    PROVE  Goes(r, ReadMarked(r), 0, 1)
  <1> DEFINE known == {t \in DOMAIN Marker : <<Marker[t]>> = r.str}
             type  == CHOOSE t \in known : TRUE
             t == ReadMarked(r)
             i == ReadInteger(r)
             s == ReadString(r)
             b == ReadBytes(r, 8)
             x(v) == [Item EXCEPT !.type = type, !.value = v]
  <1>1. CASE known = {}
    <2>1. t = Refuse(r)
      BY <1>1 DEF ReadMarked
    <2> QED BY <2>1, RefuseGoes
  <1>2. CASE known # {}
    <2>1. type \in DOMAIN Marker
      BY <1>2
    <2>2. t = CASE type \in {"undefined", "null", "false", "true"} -> Return(r, x(<<>>))
                [] type = "integer" -> IF i.thrown THEN i ELSE Return(i, x(<<i.num>>))
                [] type = "string"  -> IF s.thrown THEN s ELSE Return(s, x(s.str))
                [] type = "double"  -> IF b.thrown THEN b ELSE Return(b, x(b.str))
                [] OTHER -> ReadReferable(r, type)
      BY <1>2 DEF ReadMarked, Then
    <2> SUFFICES Goes(r, t, 0, 1)
      OBVIOUS
    <2> HIDE DEF type, t, x, i, s, b
    <2>3. \/ t = Return(r, x(<<>>))
          \/ t = IF i.thrown THEN i ELSE Return(i, x(<<i.num>>))
          \/ t = IF s.thrown THEN s ELSE Return(s, x(s.str))
          \/ t = IF b.thrown THEN b ELSE Return(b, x(b.str))
          \/ type \in Referable /\ t = ReadReferable(r, type)
      <3>1. CASE type \in {"undefined", "null", "false", "true"}
        BY <2>2, <3>1
      <3>2. CASE type \in {"integer", "string", "double"}
        BY <2>2, <3>2
      <3>3. CASE type \notin {"undefined", "null", "false", "true", "integer", "string", "double"}
        <4>1. type \in Referable
          BY <2>1, <3>3 DEF Marker, Referable
        <4>2. t = ReadReferable(r, type)
          BY <2>2, <3>3
        <4> QED BY <4>1, <4>2
      <3> QED BY <3>1, <3>2, <3>3
    <2>4. CASE t = Return(r, x(<<>>))
      BY <2>4, ReturnGoes, GoesLess
    <2>5. ASSUME NEW u, NEW n \in Nat, Reads(r, u, n), NEW y, t = IF u.thrown THEN u ELSE Return(u, y)
          PROVE  Goes(r, t, 0, 1)
      <3>1. u.thrown => t = u
        BY <2>5
      <3>2. ~u.thrown => Goes(u, t, 0, 0)
        BY <2>5, ReturnGoes DEF Reads
      <3>3. Goes(r, t, n + 0, 0)
        BY <2>5, <3>1, <3>2, ThenGoes
      <3> QED BY <3>3, GoesLess
    <2>6. CASE t = IF i.thrown THEN i ELSE Return(i, x(<<i.num>>))
      BY <2>5, <2>6, ReadIntegerReads DEF i
    <2>7. CASE t = IF s.thrown THEN s ELSE Return(s, x(s.str))
      BY <2>5, <2>7, ReadStringReads DEF s
    <2>8. CASE t = IF b.thrown THEN b ELSE Return(b, x(b.str))
      BY <2>5, <2>8, ReadBytesReads DEF b
    <2>9. CASE type \in Referable /\ t = ReadReferable(r, type)
      BY <2>9, ReadReferableGoes
    <2> QED BY <2>3, <2>4, <2>6, <2>7, <2>8, <2>9
  <1> QED BY <1>1, <1>2

LEMMA DeserializeGoes ==
    ASSUME NEW r, Reading(r)
    PROVE  Goes(r, Deserialize(r), 1, 1)
  <1> DEFINE s == ReadBytes(r, 1)
             t == Deserialize(r)
  <1>1. Reads(r, s, 1) /\ Reading(s)
    BY ReadBytesReads DEF Reads
  <1>2. s.thrown => t = s
    BY DEF Deserialize, Then
  <1>3. ~s.thrown => t = ReadMarked(s)
    BY DEF Deserialize, Then
  <1> HIDE DEF s, t
  <1>4. ~s.thrown => Goes(s, t, 0, 1)
    BY <1>1, <1>3, ReadMarkedGoes
  <1>5. Goes(r, t, 1 + 0, 1)
    BY <1>1, <1>2, <1>4, ThenGoes
  <1> QED BY <1>5 DEF t

LEMMA ReadMemberGoes ==
    ASSUME NEW r, Reading(r)
    PROVE  Goes(r, ReadMember(r), 1, 0)
  <1> DEFINE s == ReadString(r)
             t == ReadMember(r)
             k == Len(r.stack)
             w == IF s.str = <<>> THEN Tail(s.stack[k].wants) ELSE Want("member", s.str, 1) \o s.stack[k].wants
             f == [s.stack[k] EXCEPT !.wants = w]
             st == [s.stack EXCEPT ![k] = f]
  <1>1. Reads(r, s, 1) /\ Reading(s)
    BY ReadStringReads DEF Reads
  <1>2. s.thrown => t = s
    BY DEF ReadMember, Then
  <1>3. ~s.thrown => t = [s EXCEPT !.stack = st]
    BY DEF ReadMember, Then
  <1>4. IsSeq(s.stack)
    BY <1>1 DEF Reading
  <1> HIDE DEF f
  <1>5. IsSeq(st) /\ Len(st) = Len(s.stack) /\ Len(s.stack) \in Nat
    BY <1>4, SeqPut, SeqHas
  <1> HIDE DEF s, t, st
  <1>6. ~s.thrown => Goes(s, t, 0, 0)
    <2> HAVE ~s.thrown
    <2>1. /\ DOMAIN t = Fields /\ t.data = s.data /\ t.list = s.list
          /\ t.at = s.at /\ t.strings = s.strings /\ t.str = s.str /\ t.num = s.num
          /\ t.thrown = s.thrown /\ t.stack = st
      BY <1>1, <1>3, FieldsAre DEF Reading
    <2> QED BY <1>1, <1>5, <2>1, ChangeGoes
  <1>7. Goes(r, t, 1 + 0, 0)
    BY <1>1, <1>2, <1>6, ThenGoes
  <1> QED BY <1>7 DEF t

-----------------------------------------------------------------------------
(* The reader comes to an end.                                             *)

\* How many steps are left at most
Ahead(r) == 2 * Left(r) + Len(r.stack)

\* s is r some steps later, j at least if it has not ended.
Nears(r, s, j) ==
    /\ Reading(s)
    /\ s.data = r.data /\ s.list = r.list
    /\ s.at >= r.at
    /\ Finished(s) \/ Ahead(s) + j <= Ahead(r)

LEMMA AheadIs ==
    ASSUME NEW r, Reading(r)
    PROVE  Ahead(r) \in Nat /\ Left(r) \in Nat /\ Len(r.stack) \in Nat
           /\ Ahead(r) = 2 * Left(r) + Len(r.stack)
  <1>1. Len(r.stack) \in Nat
    BY SeqHas DEF Reading
  <1>2. Left(r) \in Nat
    BY ReadingIs
  <1> QED BY <1>1, <1>2 DEF Ahead

LEMMA GoesNears ==
    ASSUME NEW r, NEW s, NEW n \in Nat, NEW k \in Int, Reading(r), Goes(r, s, n, k)
    PROVE  Nears(r, s, 2 * n - k)
  <1>1. Reading(s) /\ s.data = r.data /\ s.list = r.list /\ s.at >= r.at
    BY DEF Goes
  <1>2. ASSUME ~s.thrown PROVE Ahead(s) + (2 * n - k) <= Ahead(r)
    <2> DEFINE a == Len(r.stack)
               b == Len(s.stack)
               p == r.at
               q == s.at
               m == Len(r.data)
    <2>1. a \in Nat /\ b \in Nat /\ b <= a + k /\ p \in Nat /\ q \in Nat /\ q >= p + n /\ m \in Nat
      BY <1>1, <1>2, ReadingIs, AheadIs DEF Goes
    <2>2. Ahead(r) = 2 * (m - p + 1) + a /\ Ahead(s) = 2 * (m - q + 1) + b
      BY <1>1 DEF Ahead, Left
    <2> HIDE DEF a, b, p, q, m
    <2>3. 2 * (m - q + 1) + b + (2 * n - k) <= 2 * (m - p + 1) + a
      BY ONLY <2>1, n \in Nat, k \in Int
    <2> QED BY <2>2, <2>3
  <1> QED BY <1>1, <1>2 DEF Nears, Finished

LEMMA ReadStepNears ==
    ASSUME NEW r, Reading(r), ~Finished(r)
    PROVE  Nears(r, ReadStep(r), 1)
  <1> DEFINE s == ReadStep(r)
  <1>1. CASE Wants(r) = <<>>
    <2> DEFINE st == Front(r.stack)
               u  == [r EXCEPT !.stack = st]
               x  == r.objects[r.stack[Len(r.stack)].slot]
    <2>1. s = Return(u, x)
      BY <1>1 DEF ReadStep
    <2>2. IsSeq(r.stack) /\ r.stack # <<>>
      BY DEF Reading, Finished
    <2>3. IsSeq(st) /\ Len(st) = Len(r.stack) - 1 /\ Len(r.stack) \in Nat
      BY <2>2, SeqFront, SeqHas
    <2> HIDE DEF st, x
    <2>4. /\ DOMAIN u = Fields /\ u.data = r.data /\ u.list = r.list
          /\ u.at = r.at /\ u.strings = r.strings /\ u.str = r.str /\ u.num = r.num
          /\ u.thrown = r.thrown /\ u.stack = st
      BY FieldsAre DEF Reading
    <2> HIDE DEF u, s
    <2>5. Goes(r, u, 0, -1)
      BY <2>3, <2>4, ChangeGoes
    <2>6. Goes(u, s, 0, 0)
      BY <2>1, <2>5, ReturnGoes DEF Goes
    <2>7. ~u.thrown
      BY <2>4 DEF Finished
    <2>8. Goes(r, s, 0 + 0, -1 + 0)
      BY <2>5, <2>6, <2>7, GoesOn
    <2>9. Nears(r, s, 2 * 0 - (-1))
      BY <2>8, GoesNears
    <2> QED BY <2>9 DEF s
  <1>2. CASE Wants(r) # <<>> /\ Head(Wants(r)).op = "members"
    <2>1. s = ReadMember(r)
      BY <1>2 DEF ReadStep
    <2> HIDE DEF s
    <2>2. Goes(r, s, 1, 0)
      BY <2>1, ReadMemberGoes
    <2>3. Goes(r, s, 1, 1)
      BY <2>2, GoesLess
    <2>4. Nears(r, s, 2 * 1 - 1)
      BY <2>3, GoesNears
    <2> QED BY <2>4 DEF s
  <1>3. CASE Wants(r) # <<>> /\ Head(Wants(r)).op # "members"
    <2>1. s = Deserialize(r)
      BY <1>3 DEF ReadStep
    <2> HIDE DEF s
    <2>3. Goes(r, s, 1, 1)
      BY <2>1, DeserializeGoes
    <2>4. Nears(r, s, 2 * 1 - 1)
      BY <2>3, GoesNears
    <2> QED BY <2>4 DEF s
  <1> QED BY <1>1, <1>2, <1>3

LEMMA NearsOn ==
    ASSUME NEW r, NEW s, NEW t, NEW i \in Int, NEW j \in Int, Reading(r), Nears(r, s, i),
           Finished(s) => t = s,
           ~Finished(s) => Nears(s, t, j)
    PROVE  Nears(r, t, i + j)
  <1>1. CASE Finished(s)
    BY <1>1 DEF Nears
  <1>2. CASE ~Finished(s)
    <2>1. Reading(s) /\ Reading(t) /\ Nears(s, t, j)
      BY <1>2 DEF Nears
    <2>2. Ahead(r) \in Nat /\ Ahead(s) \in Nat /\ Ahead(t) \in Nat
      BY <2>1, AheadIs
    <2>3. Finished(t) \/ Ahead(t) + (i + j) <= Ahead(r)
      BY <1>2, <2>1, <2>2 DEF Nears
    <2>4. r.at \in Nat /\ s.at \in Nat /\ t.at \in Nat
      BY <2>1, ReadingIs
    <2>5. t.at >= r.at /\ t.data = r.data /\ t.list = r.list
      BY <2>1, <2>4 DEF Nears
    <2> QED BY <2>1, <2>3, <2>5 DEF Nears
  <1> QED BY <1>1, <1>2

LEMMA ReadOnNears ==
    ASSUME NEW r, NEW s, NEW i \in Int, Reading(r), Nears(r, s, i)
    PROVE  Nears(r, ReadOn(s), i + 1)
  <1>1. Finished(s) => ReadOn(s) = s
    BY DEF ReadOn
  <1>2. ~Finished(s) => Nears(s, ReadOn(s), 1)
    BY ReadStepNears DEF ReadOn, Nears
  <1> DEFINE t == ReadOn(s)
  <1>3. (Finished(s) => t = s) /\ (~Finished(s) => Nears(s, t, 1)) /\ 1 \in Int
    BY <1>1, <1>2
  <1> HIDE DEF t
  <1>4. Nears(r, t, i + 1)
    BY <1>3, NearsOn
  <1> QED BY <1>4 DEF t

LEMMA NearsSelf ==
    ASSUME NEW r, Reading(r)
    PROVE  Nears(r, r, 0)
  <1>1. r.at >= r.at /\ Ahead(r) + 0 <= Ahead(r)
    BY ReadingIs, AheadIs
  <1> QED BY <1>1 DEF Nears

\* The function that ReadSome defines
LEMMA ReadSomeComputed ==
    ASSUME NEW r, ~Finished(r)
    PROVE  \E run : /\ run[0] = r
                    /\ \A i \in 1 .. 8 : run[i] = ReadOn(run[i - 1])
                    /\ ReadSome(r) = run[8]
  <1> DEFINE n == 8
             F(f, m) == f = [i \in 0 .. m |-> IF i = 0 THEN r ELSE ReadOn(f[i - 1])]
             T == {m \in Nat : \E f : F(f, m)}
  <1>0. n \in Nat
    OBVIOUS
  <1>1. 0 \in T
    <2> DEFINE f == [i \in 0 .. 0 |-> r]
    <2>1. F(f, 0)
      OBVIOUS
    <2> QED BY <2>1
  <1>2. ASSUME NEW m \in Nat, m \in T PROVE m + 1 \in T
    <2>1. PICK f : F(f, m)
      BY <1>2
    <2> DEFINE g == [i \in 0 .. m + 1 |-> IF i <= m THEN f[i] ELSE ReadOn(f[m])]
    <2>2. \A i \in 0 .. m : g[i] = f[i]
      OBVIOUS
    <2>3. g[m + 1] = ReadOn(f[m])
      OBVIOUS
    <2>4. ASSUME NEW i \in 0 .. m + 1
          PROVE  g[i] = IF i = 0 THEN r ELSE ReadOn(g[i - 1])
      <3>1. CASE i <= m
        <4>1. f[i] = IF i = 0 THEN r ELSE ReadOn(f[i - 1])
          BY <2>1, <3>1
        <4>2. i # 0 => i - 1 \in 0 .. m
          BY <3>1
        <4> HIDE DEF g
        <4> QED BY <2>2, <3>1, <4>1, <4>2
      <3>2. CASE i = m + 1
        <4>1. i # 0 /\ i - 1 = m /\ m \in 0 .. m
          BY <3>2
        <4> HIDE DEF g
        <4> QED BY <2>2, <2>3, <3>2, <4>1
      <3> QED BY <3>1, <3>2
    <2>5. F(g, m + 1)
      BY <2>4
    <2> HIDE DEF F, g
    <2>6. \E h : F(h, m + 1)
      BY <2>5
    <2> QED BY <2>6
  <1> HIDE DEF T
  <1>3. Nat \subseteq T
    BY <1>1, <1>2, Induct
  <1>4. \E f : F(f, n)
    BY <1>0, <1>3 DEF T
  <1> DEFINE run == CHOOSE f : F(f, n)
  <1>5. F(run, n)
    BY <1>4
  <1>6. ReadSome(r) = run[n]
    BY DEF ReadSome
  <1>7. run[0] = r /\ \A i \in 1 .. n : run[i] = ReadOn(run[i - 1])
    <2> HIDE DEF run, n
    <2>1. 0 \in 0 .. n /\ \A i \in 1 .. n : i \in 0 .. n /\ i # 0
      BY <1>0
    <2> QED BY <1>5, <2>1
  <1> HIDE DEF run
  <1> QED BY <1>6, <1>7

LEMMA ReadSomeIs ==
    ASSUME NEW r, ~Finished(r)
    PROVE  ReadSome(r) = ReadOn(ReadOn(ReadOn(ReadOn(ReadOn(ReadOn(ReadOn(ReadOn(r))))))))
  <1>1. PICK run : /\ run[0] = r
                   /\ \A i \in 1 .. 8 : run[i] = ReadOn(run[i - 1])
                   /\ ReadSome(r) = run[8]
    BY ReadSomeComputed
  <1>2. /\ run[1] = ReadOn(run[0]) /\ run[2] = ReadOn(run[1]) /\ run[3] = ReadOn(run[2])
        /\ run[4] = ReadOn(run[3]) /\ run[5] = ReadOn(run[4]) /\ run[6] = ReadOn(run[5])
        /\ run[7] = ReadOn(run[6]) /\ run[8] = ReadOn(run[7])
    BY <1>1
  <1> QED BY <1>1, <1>2

LEMMA ReadSomeNears ==
    ASSUME NEW r, Reading(r)
    PROVE  /\ ~Finished(r) => Nears(r, ReadSome(r), 8)
           /\ Finished(r) => ReadSome(r) = r
  <1> DEFINE a == ReadOn(r)
             b == ReadOn(a)
             c == ReadOn(b)
             d == ReadOn(c)
             e == ReadOn(d)
             f == ReadOn(e)
             g == ReadOn(f)
             h == ReadOn(g)
  <1>1. ~Finished(r) => ReadSome(r) = h
    BY ReadSomeIs
  <1>2. Finished(r) => ReadSome(r) = r
    BY DEF ReadSome
  <1> HIDE DEF a, b, c, d, e, f, g, h
  <1>3. Nears(r, a, 0 + 1) /\ Nears(r, b, 0 + 1 + 1)
    BY NearsSelf, ReadOnNears DEF a, b
  <1>4. Nears(r, c, 0 + 1 + 1 + 1) /\ Nears(r, d, 0 + 1 + 1 + 1 + 1)
    BY <1>3, ReadOnNears DEF c, d
  <1>5. Nears(r, e, 0 + 1 + 1 + 1 + 1 + 1) /\ Nears(r, f, 0 + 1 + 1 + 1 + 1 + 1 + 1)
    BY <1>4, ReadOnNears DEF e, f
  <1>6. Nears(r, g, 0 + 1 + 1 + 1 + 1 + 1 + 1 + 1) /\ Nears(r, h, 0 + 1 + 1 + 1 + 1 + 1 + 1 + 1 + 1)
    BY <1>5, ReadOnNears DEF g, h
  <1> QED BY <1>1, <1>2, <1>6

\* The function that DeserializeItem defines.
LEMMA ItemComputed ==
    ASSUME NEW r, Left(r) \in Nat
    PROVE  LET n == Left(r) \div 4 + 1
           IN \E run : /\ run[0] = Deserialize(r)
                       /\ \A i \in 1 .. n : run[i] = ReadSome(run[i - 1])
                       /\ DeserializeItem(r) = run[n]
  <1> DEFINE n == Left(r) \div 4 + 1
             F(f, m) == f = [k \in 0 .. m |-> IF k = 0 THEN Deserialize(r) ELSE ReadSome(f[k - 1])]
             T == {m \in Nat : \E f : F(f, m)}
  <1>0. n \in Nat
    OBVIOUS
  <1>1. 0 \in T
    <2> DEFINE f == [i \in 0 .. 0 |-> Deserialize(r)]
    <2>1. F(f, 0)
      OBVIOUS
    <2> QED BY <2>1
  <1>2. ASSUME NEW m \in Nat, m \in T PROVE m + 1 \in T
    <2>1. PICK f : F(f, m)
      BY <1>2
    <2> DEFINE g == [i \in 0 .. m + 1 |-> IF i <= m THEN f[i] ELSE ReadSome(f[m])]
    <2>2. \A i \in 0 .. m : g[i] = f[i]
      OBVIOUS
    <2>3. g[m + 1] = ReadSome(f[m])
      OBVIOUS
    <2>4. ASSUME NEW i \in 0 .. m + 1
          PROVE  g[i] = IF i = 0 THEN Deserialize(r) ELSE ReadSome(g[i - 1])
      <3>1. CASE i <= m
        <4>1. f[i] = IF i = 0 THEN Deserialize(r) ELSE ReadSome(f[i - 1])
          BY <2>1, <3>1
        <4>2. i # 0 => i - 1 \in 0 .. m
          BY <3>1
        <4> HIDE DEF g
        <4> QED BY <2>2, <3>1, <4>1, <4>2
      <3>2. CASE i = m + 1
        <4>1. i # 0 /\ i - 1 = m /\ m \in 0 .. m
          BY <3>2
        <4> HIDE DEF g
        <4> QED BY <2>2, <2>3, <3>2, <4>1
      <3> QED BY <3>1, <3>2
    <2>5. F(g, m + 1)
      BY <2>4
    <2> HIDE DEF F, g
    <2>6. \E h : F(h, m + 1)
      BY <2>5
    <2> QED BY <2>6
  <1> HIDE DEF T
  <1>3. Nat \subseteq T
    BY <1>1, <1>2, Induct
  <1>4. \E f : F(f, n)
    BY <1>0, <1>3 DEF T
  <1> DEFINE run == CHOOSE f : F(f, n)
  <1>5. F(run, n)
    BY <1>4
  <1>7. DeserializeItem(r) = run[n]
    BY DEF DeserializeItem
  <1>6. run[0] = Deserialize(r) /\ \A i \in 1 .. n : run[i] = ReadSome(run[i - 1])
    <2> HIDE DEF run, n
    <2>1. 0 \in 0 .. n /\ \A i \in 1 .. n : i \in 0 .. n /\ i # 0
      BY <1>0
    <2> QED BY <1>5, <2>1
  <1> HIDE DEF run
  <1> QED BY <1>6, <1>7

\* Reading an item ends: it is read to its end, or there is an exception.
THEOREM ReaderEnds ==
    ASSUME NEW r, Reading(r), r.stack = <<>>
    PROVE  LET s == DeserializeItem(r)
           IN /\ Finished(s)
              /\ Reading(s) /\ s.data = r.data /\ s.list = r.list /\ s.at >= r.at
              /\ s.thrown \/ (s.at >= r.at + 1 /\ s.stack = <<>>)
  <1> DEFINE L == Left(r)
             n == L \div 4 + 1
             d == Deserialize(r)
  <1>0. L \in Nat /\ Len(r.stack) = 0 /\ Ahead(r) = 2 * L
    BY AheadIs, SeqNone
  <1>n. n \in Nat /\ 8 * n > 2 * L
    <2> HIDE DEF L
    <2> QED BY <1>0
  <1>1. PICK run : /\ run[0] = d
                   /\ \A i \in 1 .. n : run[i] = ReadSome(run[i - 1])
                   /\ DeserializeItem(r) = run[n]
    BY <1>0, ItemComputed
  <1>2. Goes(r, d, 1, 1) /\ Reading(d)
    BY DeserializeGoes DEF Goes
  <1>3. Nears(r, d, 2 * 1 - 1)
    BY <1>2, GoesNears
  <1> HIDE DEF d, n, L
  <1> DEFINE T == {i \in Nat : i <= n => Nears(d, run[i], 8 * i)}
  <1>4. 0 \in T
    <2>1. Nears(d, d, 0) /\ 8 * 0 = 0
      BY <1>2, NearsSelf
    <2> QED BY <1>1, <2>1
  <1>5. ASSUME NEW i \in Nat, i \in T PROVE i + 1 \in T
    <2>1. SUFFICES ASSUME i + 1 <= n PROVE Nears(d, run[i + 1], 8 * (i + 1))
      OBVIOUS
    <2>2. i + 1 \in 1 .. n /\ (i + 1) - 1 = i /\ Nears(d, run[i], 8 * i)
      BY <1>5, <1>n, <2>1
    <2>3. run[i + 1] = ReadSome(run[i]) /\ Reading(run[i])
      BY <1>1, <2>2 DEF Nears
    <2> DEFINE a == run[i]
               b == run[i + 1]
               w == 8 * i
    <2>4. (~Finished(a) => Nears(a, b, 8)) /\ (Finished(a) => b = a)
      BY <2>3, ReadSomeNears
    <2>5. Nears(d, a, w) /\ w \in Int /\ 8 \in Int
      BY <2>2
    <2>6. w + 8 = 8 * (i + 1)
      OBVIOUS
    <2> HIDE DEF a, b, w
    <2>7. Nears(d, b, w + 8)
      BY <1>2, <2>4, <2>5, NearsOn
    <2> QED BY <2>6, <2>7 DEF b
  <1> HIDE DEF T
  <1>6. Nat \subseteq T
    BY <1>4, <1>5, Induct
  <1> DEFINE s == run[n]
  <1>7. Nears(d, s, 8 * n)
    BY <1>6, <1>n DEF T
  <1> HIDE DEF s
  <1>8. Reading(s) /\ Ahead(s) \in Nat /\ Ahead(d) \in Nat
    BY <1>2, <1>7, AheadIs DEF Nears
  <1>a. Finished(d) => s = d
    <2>1. SUFFICES ASSUME Finished(d) PROVE s = d
      OBVIOUS
    <2> DEFINE U == {i \in Nat : i <= n => run[i] = d}
    <2>2. 0 \in U
      BY <1>1
    <2>3. ASSUME NEW i \in Nat, i \in U PROVE i + 1 \in U
      <3>1. SUFFICES ASSUME i + 1 <= n PROVE run[i + 1] = d
        OBVIOUS
      <3>2. i + 1 \in 1 .. n /\ (i + 1) - 1 = i /\ run[i] = d
        BY <2>3, <1>n, <3>1
      <3> QED BY <3>2, <1>1, <1>2, <2>1, ReadSomeNears
    <2> HIDE DEF U
    <2>4. Nat \subseteq U
      BY <2>2, <2>3, Induct
    <2> QED BY <2>4, <1>n DEF U, s
  <1>9. Finished(s)
    <2>1. CASE Finished(d)
      BY <2>1, <1>a
    <2>2. CASE ~Finished(d)
      <3>1. Ahead(d) + 1 <= 2 * L
        BY <1>0, <1>3, <2>2 DEF Nears
      <3>2. Finished(s) \/ Ahead(s) + 8 * n <= Ahead(d)
        BY <1>7 DEF Nears
      <3> QED BY <3>1, <3>2, <1>n, <1>8, <1>0
    <2> QED BY <2>1, <2>2
  <1>10. s.data = r.data /\ s.list = r.list /\ s.at >= r.at
    <2>1. r.at \in Nat /\ d.at \in Nat /\ s.at \in Nat
      BY <1>2, <1>8, ReadingIs
    <2> QED BY <2>1, <1>2, <1>7 DEF Nears, Goes
  <1>11. s.thrown \/ s.at >= r.at + 1
    <2>1. r.at \in Nat /\ d.at \in Nat /\ s.at \in Nat
      BY <1>2, <1>8, ReadingIs
    <2>2. s.at >= d.at
      BY <1>7 DEF Nears
    <2>3. d.thrown \/ d.at >= r.at + 1
      BY <1>2 DEF Goes
    <2>4. CASE d.thrown
      BY <2>4, <1>a DEF Finished
    <2> QED BY <2>1, <2>2, <2>3, <2>4
  <1>12. DeserializeItem(r) = s
    BY <1>1, Zenon DEF s
  <1>13. s.thrown \/ (s.at >= r.at + 1 /\ s.stack = <<>>)
    BY <1>9, <1>11 DEF Finished
  <1>14. Reading(s)
    BY <1>8
  <1> QED BY <1>9, <1>10, <1>12, <1>13, <1>14, Zenon

-----------------------------------------------------------------------------
(* Packets, and all that a call reads.                                     *)

\* s is r after a call that reads at least n bytes with all that is inside, or throws.
Parses(r, s, n) ==
    /\ Reading(s) /\ s.data = r.data /\ s.at >= r.at
    /\ s.thrown \/ (s.at >= r.at + n /\ s.stack = r.stack)

LEMMA ReadsParses ==
    ASSUME NEW r, NEW s, NEW n \in Int, Reads(r, s, n)
    PROVE  Parses(r, s, n)
  BY DEF Reads, Keeps, Parses

LEMMA ParsesOn ==
    ASSUME NEW r, NEW s, NEW t, NEW m \in Nat, NEW n \in Nat, Reading(r), Parses(r, s, m),
           s.thrown => t = s,
           ~s.thrown => Parses(s, t, n)
    PROVE  Parses(r, t, m + n)
  <1>0. r.at \in Nat /\ s.at \in Nat /\ Reading(s)
    BY ReadingIs DEF Parses
  <1>1. CASE s.thrown
    BY <1>1 DEF Parses
  <1>2. CASE ~s.thrown
    <2>1. Parses(s, t, n) /\ t.at \in Nat
      BY <1>2, ReadingIs DEF Parses
    <2> QED BY <2>1, <1>0, <1>2 DEF Parses
  <1> QED BY <1>1, <1>2

LEMMA ParsesLess ==
    ASSUME NEW r, NEW s, NEW m \in Nat, NEW n \in Nat, Reading(r), Parses(r, s, m), n <= m
    PROVE  Parses(r, s, n)
  <1>0. r.at \in Nat /\ s.at \in Nat
    BY ReadingIs DEF Parses
  <1> QED BY <1>0 DEF Parses

LEMMA ParsesSelf ==
    ASSUME NEW r, Reading(r)
    PROVE  Parses(r, r, 0)
  BY ReadingIs DEF Parses

LEMMA RefuseParses ==
    ASSUME NEW r, Reading(r), NEW n \in Nat
    PROVE  Parses(r, Refuse(r), n)
  BY RefuseReads, ReadsParses

LEMMA ItemParses ==
    ASSUME NEW r, Reading(r), r.stack = <<>>
    PROVE  Parses(r, DeserializeItem(r), 1)
  <1> DEFINE s == DeserializeItem(r)
  <1>1. /\ Reading(s) /\ s.data = r.data /\ s.at >= r.at
        /\ s.thrown \/ (s.at >= r.at + 1 /\ s.stack = <<>>)
    BY ReaderEnds
  <1> HIDE DEF s
  <1> QED BY <1>1 DEF Parses, s

\* A change of what is not looked at here
LEMMA ChangeParses ==
    ASSUME NEW r, NEW s, Reading(r), DOMAIN s = Fields, s.data = r.data,
           s.at = r.at, s.strings = r.strings, s.str = r.str, s.num \in Int,
           s.thrown = r.thrown, s.stack = r.stack
    PROVE  Parses(r, s, 0)
  <1>1. Reading(s)
    BY DEF Reading
  <1>2. s.at >= r.at /\ s.at >= r.at + 0
    BY ReadingIs
  <1> QED BY <1>1, <1>2 DEF Parses

\* The bytes that were read are as many as were asked for.
LEMMA ReadBytesHas ==
    ASSUME NEW r, Reading(r), NEW n \in Nat, ~ReadBytes(r, n).thrown
    PROVE  Len(ReadBytes(r, n).str) = n
  <1>1. ~(n < 0 \/ n > Left(r))
    <2>1. SUFFICES ASSUME n < 0 \/ n > Left(r) PROVE FALSE
      OBVIOUS
    <2>2. ReadBytes(r, n) = Refuse(r)
      BY <2>1 DEF ReadBytes
    <2> QED BY <2>2, RefuseReads
  <1> DEFINE b == SubSeq(r.data, r.at, r.at + n - 1)
  <1>2. ReadBytes(r, n) = [r EXCEPT !.str = b, !.at = r.at + n]
    BY <1>1 DEF ReadBytes
  <1>3. ReadBytes(r, n).str = b
    <2> HIDE DEF b
    <2> QED BY <1>2, FieldsAre DEF Reading
  <1> HIDE DEF b
  <1>4. r.at \in Nat /\ r.at >= 1 /\ r.at + n <= Len(r.data) + 1 /\ Len(r.data) \in Nat
    <2>1. r.at \in Nat /\ r.at >= 1 /\ Left(r) = Len(r.data) - r.at + 1 /\ Len(r.data) \in Nat
      BY ReadingIs
    <2> QED BY <1>1, <2>1
  <1> USE DEF b
  <1>5. \A i \in r.at .. r.at + n - 1 : r.data[i] \in Bytes
    BY <1>4 DEF Reading, Strings
  <1> DEFINE k == r.at + n - 1
  <1>6. r.at \in Int /\ k \in Int
    BY <1>4
  <1>a. \A i \in r.at .. k : r.data[i] \in Bytes
    BY <1>5
  <1>b. (r.at <= k => k - r.at + 1 = n) /\ (~(r.at <= k) => n = 0)
    BY <1>4
  <1>7. Len(b) = n
    <2> HIDE DEF k
    <2>1. Len(SubSeq(r.data, r.at, k)) = IF r.at <= k THEN k - r.at + 1 ELSE 0
      BY <1>6, <1>a, SubSeqProperties
    <2> QED BY <2>1, <1>b DEF k
  <1> QED BY <1>3, <1>7

LEMMA NumberIs ==
    ASSUME NEW b \in Strings, Len(b) \in {2, 4}
    PROVE  Number(b) \in Nat
  <1>1. \A i \in 1 .. Len(b) : b[i] \in Nat
    <2>1. \A i \in 1 .. Len(b) : b[i] \in Bytes
      BY DEF Strings
    <2> QED BY <2>1, ByteIsInt
  <1>2. CASE b = <<255, 255, 255, 255>>
    BY <1>2 DEF Number
  <1>3. CASE b # <<255, 255, 255, 255>> /\ Len(b) = 2
    <2>1. b[1] \in Nat /\ b[2] \in Nat
      BY <1>1, <1>3
    <2>2. Number(b) = b[1] * 256 + b[2]
      BY <1>3 DEF Number
    <2> QED BY <2>1, <2>2
  <1>4. CASE b # <<255, 255, 255, 255>> /\ Len(b) = 4 /\ b[1] < 128
    <2>1. b[1] \in Nat /\ b[2] \in Nat /\ b[3] \in Nat /\ b[4] \in Nat
      <3>1. 1 \in 1 .. 4 /\ 2 \in 1 .. 4 /\ 3 \in 1 .. 4 /\ 4 \in 1 .. 4
        OBVIOUS
      <3> QED BY <1>1, <1>4, <3>1
    <2>2. Number(b) = b[1] * 16777216 + b[2] * 65536 + b[3] * 256 + b[4]
      BY <1>4, <2>1 DEF Number
    <2> QED BY <2>1, <2>2
  <1>5. CASE b # <<255, 255, 255, 255>> /\ Len(b) = 4 /\ ~(b[1] < 128)
    <2>1. b[1] \in Nat
      BY <1>1, <1>5
    <2>2. b[1] >= 128
      BY <1>5, <2>1
    <2>3. Number(b) = MaxInt
      BY <1>5, <2>2 DEF Number
    <2> QED BY <2>3 DEF MaxInt
  <1> QED BY <1>2, <1>3, <1>4, <1>5

LEMMA ReadNumberParses ==
    ASSUME NEW r, Reading(r), NEW size \in {2, 4}
    PROVE  /\ Parses(r, ReadNumber(r, size), size)
           /\ ~ReadNumber(r, size).thrown => ReadNumber(r, size).num \in Nat
  <1> DEFINE b == ReadBytes(r, size)
             s == [b EXCEPT !.num = Number(b.str)]
  <1>1. Parses(r, b, size) /\ Reading(b)
    BY ReadBytesReads, ReadsParses DEF Parses
  <1>2. ReadNumber(r, size) = IF b.thrown THEN b ELSE s
    BY DEF ReadNumber, Then
  <1>3. ~b.thrown => Number(b.str) \in Nat
    BY <1>1, ReadBytesHas, NumberIs DEF Reading
  <1> HIDE DEF b
  <1>4. CASE b.thrown
    BY <1>1, <1>2, <1>4
  <1>5. CASE ~b.thrown
    <2> DEFINE k == Number(b.str)
    <2>0. k \in Nat
      BY <1>3, <1>5
    <2> HIDE DEF k
    <2>1. /\ DOMAIN s = Fields /\ s.data = b.data /\ s.at = b.at /\ s.strings = b.strings
          /\ s.str = b.str /\ s.num = k /\ s.thrown = b.thrown /\ s.stack = b.stack
      BY <1>1, FieldsAre DEF Reading, k
    <2>2. ReadNumber(r, size) = s
      BY <1>2, <1>5
    <2> HIDE DEF s
    <2>3. Parses(b, s, 0)
      BY <2>0, <2>1, <1>1, ChangeParses
    <2>4. Parses(r, s, size + 0)
      BY <1>1, <1>5, <2>3, ParsesOn
    <2> QED BY <2>0, <2>1, <2>2, <2>4
  <1> QED BY <1>4, <1>5

LEMMA ReadNameParses ==
    ASSUME NEW r, Reading(r)
    PROVE  Parses(r, ReadName(r), 2)
  <1> DEFINE n == ReadNumber(r, 2)
             s == ReadBytes(n, n.num)
  <1>1. Parses(r, n, 2) /\ Reading(n) /\ (~n.thrown => n.num \in Nat)
    BY ReadNumberParses DEF Parses
  <1>2. ReadName(r) = IF n.thrown THEN n ELSE s
    BY DEF ReadName, Then
  <1> HIDE DEF n
  <1>3. CASE n.thrown
    BY <1>1, <1>2, <1>3
  <1>4. CASE ~n.thrown
    <2>1. Parses(n, s, n.num)
      BY <1>1, <1>4, ReadBytesReads, ReadsParses
    <2>2. Parses(n, s, 0)
      BY <1>1, <1>4, <2>1, ParsesLess
    <2>3. Parses(r, s, 2 + 0)
      BY <1>1, <1>4, <2>2, ParsesOn
    <2> QED BY <1>2, <1>4, <2>3
  <1> QED BY <1>3, <1>4

-----------------------------------------------------------------------------
(* A value of length 0 where no byte is left.                              *)

LEMMA TimesZero ==
    ASSUME NEW a \in Nat, NEW m \in Nat, m > 0
    PROVE  a * m \in Nat /\ (a * m = 0 => a = 0)
  <1>1. a * m \in Nat
    OBVIOUS
  <1>2. ASSUME a # 0 PROVE a * m > 0
    BY <1>2
  <1> QED BY <1>1, <1>2

LEMMA SumZero ==
    ASSUME NEW a \in Nat, NEW b \in Nat, NEW c \in Nat, NEW d \in Nat,
           a * 16777216 + b * 65536 + c * 256 + d = 0
    PROVE  a = 0 /\ b = 0 /\ c = 0 /\ d = 0
  <1> DEFINE x == a * 16777216
             y == b * 65536
             z == c * 256
  <1>1. x \in Nat /\ y \in Nat /\ z \in Nat /\ x + y + z + d = 0
    BY TimesZero
  <1>2. (x = 0 => a = 0) /\ (y = 0 => b = 0) /\ (z = 0 => c = 0)
    BY TimesZero
  <1> HIDE DEF x, y, z
  <1>3. x = 0 /\ y = 0 /\ z = 0 /\ d = 0
    BY <1>1
  <1> QED BY <1>2, <1>3

\* The four bytes of the number 0
LEMMA NumberZero ==
    ASSUME NEW b \in Strings, Len(b) = 4, Number(b) = 0
    PROVE  \A i \in 1 .. 4 : b[i] = 0
  <1>1. b[1] \in Nat /\ b[2] \in Nat /\ b[3] \in Nat /\ b[4] \in Nat
    <2>1. b \in Seq(Bytes)
      BY DEF Strings
    <2>2. \A i \in 1 .. Len(b) : b[i] \in Bytes
      BY ONLY <2>1
    <2>3. 1 \in 1 .. Len(b) /\ 2 \in 1 .. Len(b) /\ 3 \in 1 .. Len(b) /\ 4 \in 1 .. Len(b)
      OBVIOUS
    <2> QED BY <2>2, <2>3, ByteIsInt
  <1>2. CASE b = <<255, 255, 255, 255>>
    <2>1. Number(b) = 1
      BY <1>2 DEF Number
    <2> QED BY <2>1
  <1>3. CASE b # <<255, 255, 255, 255>> /\ ~(b[1] < 128)
    <2>2. b[1] >= 128
      BY <1>1, <1>3
    <2>3. Number(b) = MaxInt
      BY <1>3, <2>2 DEF Number
    <2> QED BY <2>3 DEF MaxInt
  <1>4. CASE b # <<255, 255, 255, 255>> /\ b[1] < 128
    <2>1. Number(b) = b[1] * 16777216 + b[2] * 65536 + b[3] * 256 + b[4]
      BY <1>1, <1>4 DEF Number
    <2> DEFINE p == b[1]
               q == b[2]
               u == b[3]
               v == b[4]
    <2>2. p \in Nat /\ q \in Nat /\ u \in Nat /\ v \in Nat
      BY <1>1
    <2>3. p * 16777216 + q * 65536 + u * 256 + v = 0
      BY <2>1
    <2> HIDE DEF p, q, u, v
    <2>4. p = 0 /\ q = 0 /\ u = 0 /\ v = 0
      BY <2>2, <2>3, SumZero
    <2>5. b[1] = 0 /\ b[2] = 0 /\ b[3] = 0 /\ b[4] = 0
      BY <2>4 DEF p, q, u, v
    <2>6. \A i \in 1 .. 4 : i = 1 \/ i = 2 \/ i = 3 \/ i = 4
      OBVIOUS
    <2> QED BY <2>5, <2>6
  <1> QED BY <1>2, <1>3, <1>4

\* What is read is what is there.
LEMMA ReadBytesIs ==
    ASSUME NEW r, Reading(r), NEW n \in Nat, ~ReadBytes(r, n).thrown
    PROVE  /\ r.at + n <= Len(r.data) + 1
           /\ ReadBytes(r, n).at = r.at + n
           /\ \A i \in 1 .. n : ReadBytes(r, n).str[i] = r.data[r.at + i - 1]
  <1>1. ~(n < 0 \/ n > Left(r))
    <2>1. SUFFICES ASSUME n < 0 \/ n > Left(r) PROVE FALSE
      OBVIOUS
    <2>2. ReadBytes(r, n) = Refuse(r)
      BY <2>1 DEF ReadBytes
    <2> QED BY <2>2, RefuseReads
  <1> DEFINE b == SubSeq(r.data, r.at, r.at + n - 1)
  <1>2. ReadBytes(r, n) = [r EXCEPT !.str = b, !.at = r.at + n]
    BY <1>1 DEF ReadBytes
  <1>3. ReadBytes(r, n).str = b /\ ReadBytes(r, n).at = r.at + n
    <2> HIDE DEF b
    <2> QED BY <1>2, FieldsAre DEF Reading
  <1> HIDE DEF b
  <1>4. r.at \in Nat /\ r.at >= 1 /\ r.at + n <= Len(r.data) + 1 /\ Len(r.data) \in Nat
    <2>1. r.at \in Nat /\ r.at >= 1 /\ Left(r) = Len(r.data) - r.at + 1 /\ Len(r.data) \in Nat
      BY ReadingIs
    <2> QED BY <1>1, <2>1
  <1>5. \A i \in r.at .. r.at + n - 1 : r.data[i] \in Bytes
    BY <1>4 DEF Reading, Strings
  <1> DEFINE k == r.at + n - 1
  <1>6. r.at \in Int /\ k \in Int /\ k - r.at + 1 = n
    BY <1>4
  <1>7. \A i \in r.at .. k : r.data[i] \in Bytes
    BY <1>5
  <1>8. \A i \in 1 .. n : b[i] = r.data[r.at + i - 1]
    <2> HIDE DEF k
    <2>1. \A i \in 1 .. k - r.at + 1 : SubSeq(r.data, r.at, k)[i] = r.data[r.at + i - 1]
      BY <1>6, <1>7, SubSeqProperties
    <2> QED BY <1>6, <2>1 DEF b, k
  <1> QED BY <1>3, <1>4, <1>8

\* The reader is one behind the bytes, and the last four say 0.
Astray(s) ==
    /\ DOMAIN s = Fields
    /\ s.strings \in Seq(Strings \ {<<>>})
    /\ s.thrown = TRUE
    /\ Strayed(s.at, s.data)

LEMMA StrayIs ==
    ASSUME NEW r, Reading(r), NEW n, n = ReadNumber(r, 4), ~n.thrown, ~(n.num > Left(n)), Left(n) = 0
    PROVE  Astray(Stray(n)) /\ Stray(n).data = r.data
  <1> DEFINE b == ReadBytes(r, 4)
             s == [b EXCEPT !.num = Number(b.str)]
  <1>1. Parses(r, n, 4) /\ Reading(n) /\ n.num \in Nat
    BY ReadNumberParses DEF Parses
  <1>2. Reading(b)
    BY ReadBytesReads DEF Reads
  <1>3. n = IF b.thrown THEN b ELSE s
    BY DEF ReadNumber, Then
  <1>4. ~b.thrown
    BY <1>3
  <1>5. /\ r.at + 4 <= Len(r.data) + 1
        /\ b.at = r.at + 4
        /\ \A i \in 1 .. 4 : b.str[i] = r.data[r.at + i - 1]
        /\ Len(b.str) = 4 /\ b.str \in Strings
    <2>1. b.str \in Strings
      BY <1>2 DEF Reading
    <2>2. 4 \in Nat
      OBVIOUS
    <2> QED BY <1>4, <2>1, <2>2, ReadBytesIs, ReadBytesHas
  <1> HIDE DEF b
  <1>6. n.num = Number(b.str) /\ n.at = b.at
    <2> DEFINE k == Number(b.str)
    <2> HIDE DEF k
    <2>1. n = [b EXCEPT !.num = k]
      BY <1>3, <1>4 DEF k
    <2> QED BY <1>2, <2>1, FieldsAre DEF Reading, k
  <1>7. Number(b.str) = 0
    BY <1>1, <1>6
  <1>8. \A i \in 1 .. 4 : r.data[r.at + i - 1] = 0
    BY <1>5, <1>7, NumberZero
  <1>9. r.at \in Nat /\ r.at >= 1 /\ Len(r.data) \in Nat /\ n.data = r.data /\ Left(n) = Len(r.data) - n.at + 1
    BY <1>1, ReadingIs DEF Parses
  <1> DEFINE l == Len(r.data)
             a == r.at
             e == n.at
             d == r.data
  <1>a. a \in Nat /\ a >= 1 /\ l \in Nat /\ e = a + 4 /\ 0 = l - e + 1
    BY <1>5, <1>6, <1>9
  <1>10. l = a + 3 /\ e + 1 = l + 2 /\ l >= 4
    <2> HIDE DEF l, a, e
    <2> QED BY <1>a
  <1>b. \A j \in 1 .. 4 : d[a + j - 1] = 0
    BY <1>8
  <1>11. ASSUME NEW i \in (l - 3) .. l PROVE d[i] = 0
    <2> HIDE DEF l, a, e, d
    <2>1. i - a + 1 \in 1 .. 4 /\ a + (i - a + 1) - 1 = i
      BY <1>a, <1>10
    <2> QED BY <1>b, <2>1
  <1>12. Strayed(n.at + 1, r.data)
    BY <1>10, <1>11 DEF Strayed
  <1>13. /\ DOMAIN Stray(n) = Fields /\ Stray(n).strings = n.strings /\ Stray(n).thrown = TRUE
         /\ Stray(n).at = n.at + 1 /\ Stray(n).data = n.data
    BY <1>1, FieldsAre DEF Reading, Stray
  <1> QED BY <1>1, <1>9, <1>12, <1>13 DEF Astray, Reading

\* Between r and s there is a call that reads at least n bytes, throws, or strays.
Outcome(r, s, n) == Parses(r, s, n) \/ (Astray(s) /\ s.data = r.data)

LEMMA OutcomeOn ==
    ASSUME NEW r, NEW s, NEW t, NEW m \in Nat, NEW n \in Nat, Reading(r), Outcome(r, s, m),
           s.thrown => t = s,
           ~s.thrown => Outcome(s, t, n)
    PROVE  Outcome(r, t, m + n)
  <1>1. CASE Astray(s) /\ s.data = r.data
    BY <1>1 DEF Outcome, Astray
  <1>2. CASE Parses(r, s, m) /\ ~s.thrown /\ Astray(t) /\ t.data = s.data
    BY <1>2 DEF Outcome, Parses
  <1>3. CASE Parses(r, s, m) /\ (s.thrown \/ Parses(s, t, n))
    <2>1. ~s.thrown => Parses(s, t, n)
      BY <1>3
    <2>2. Parses(r, t, m + n)
      BY <1>3, <2>1, ParsesOn
    <2> QED BY <2>2 DEF Outcome
  <1> QED BY <1>1, <1>2, <1>3 DEF Outcome

LEMMA OutcomeLess ==
    ASSUME NEW r, NEW s, NEW m \in Nat, NEW n \in Nat, Reading(r), Outcome(r, s, m), n <= m
    PROVE  Outcome(r, s, n)
  BY ParsesLess DEF Outcome

\* A call that did not throw has not strayed.
LEMMA OutcomeReads ==
    ASSUME NEW r, NEW s, NEW n, Outcome(r, s, n), ~s.thrown
    PROVE  Parses(r, s, n) /\ Reading(s)
  BY DEF Outcome, Astray, Parses

LEMMA ReadValueOutcome ==
    ASSUME NEW r, Reading(r), r.stack = <<>>
    PROVE  Outcome(r, ReadValue(r), 4)
  <1> DEFINE n == ReadNumber(r, 4)
             m == ReadBytes(n, 1)
             v == IF m.str # <<17>> THEN Refuse(m) ELSE DeserializeItem(m)
             w == IF m.thrown THEN m ELSE v
             y == IF Left(n) = 0 THEN Stray(n) ELSE w
             x == IF n.num > Left(n) THEN Refuse(n) ELSE y
  <1>1. Parses(r, n, 4) /\ Reading(n)
    BY ReadNumberParses DEF Parses
  <1>2. ReadValue(r) = IF n.thrown THEN n ELSE x
    BY DEF ReadValue, ReadLengthy, ReadTyped
  <1>a. ~n.thrown /\ ~(n.num > Left(n)) /\ Left(n) = 0 => Astray(Stray(n)) /\ Stray(n).data = r.data
    BY StrayIs
  <1> HIDE DEF n
  <1>3. Parses(n, m, 1) /\ Reading(m)
    BY <1>1, ReadBytesReads, ReadsParses DEF Parses
  <1> HIDE DEF m
  <1>4. ~n.thrown /\ ~m.thrown => Parses(m, v, 0)
    <2>1. SUFFICES ASSUME ~n.thrown, ~m.thrown PROVE Parses(m, v, 0)
      OBVIOUS
    <2>2. m.stack = <<>>
      BY <1>1, <1>3, <2>1 DEF Parses
    <2>3. Parses(m, Refuse(m), 0)
      BY <1>3, RefuseParses
    <2>4. Parses(m, DeserializeItem(m), 0)
      BY <1>3, <2>2, ItemParses, ParsesLess
    <2> QED BY <2>3, <2>4
  <1> HIDE DEF v
  <1>5. ~n.thrown => Parses(n, w, 1 + 0)
    BY <1>1, <1>3, <1>4, ParsesOn
  <1> HIDE DEF w
  <1>6. ~n.thrown => Outcome(n, x, 0)
    <2>1. Parses(n, Refuse(n), 0)
      BY <1>1, RefuseParses
    <2>2. ~n.thrown => Parses(n, w, 0)
      BY <1>1, <1>5, ParsesLess
    <2>3. n.data = r.data
      BY <1>1 DEF Parses
    <2>4. ~n.thrown /\ ~(n.num > Left(n)) /\ Left(n) = 0 => Outcome(n, Stray(n), 0)
      BY <1>a, <2>3 DEF Outcome
    <2>5. ~n.thrown /\ ~(n.num > Left(n)) => Outcome(n, y, 0)
      BY <2>2, <2>4 DEF Outcome
    <2> QED BY <2>1, <2>5 DEF Outcome
  <1> HIDE DEF x
  <1>7. CASE n.thrown
    BY <1>1, <1>2, <1>7 DEF Outcome
  <1>8. CASE ~n.thrown
    <2>1. Outcome(r, x, 4 + 0)
      <3>1. Outcome(r, n, 4)
        BY <1>1 DEF Outcome
      <3> QED BY <3>1, <1>6, <1>8, OutcomeOn
    <2> QED BY <1>2, <1>8, <2>1
  <1> QED BY <1>7, <1>8

LEMMA ReadPartOutcome ==
    ASSUME NEW r, Reading(r), r.stack = <<>>, NEW kind
    PROVE  Outcome(r, ReadPart(r, kind), 1)
  <1> DEFINE n == ReadName(r)
             s == ReadSecond(n, kind)
             v == ReadValue(s)
             e == PartOf(kind, n.str, s, v.item)
             l == Append(v.list, e)
             x == [v EXCEPT !.list = l]
             y == IF v.thrown THEN v ELSE x
             z == IF s.thrown THEN s ELSE y
  <1>1. Parses(r, n, 2) /\ Reading(n)
    BY ReadNameParses DEF Parses
  <1>2. ReadPart(r, kind) = IF n.thrown THEN n ELSE z
    BY DEF ReadPart, ReadRest, ReadLast, EndPart
  <1> HIDE DEF e, l
  <1> HIDE DEF n
  <1>3. Parses(n, s, 1) /\ Reading(s)
    <2>1. Parses(n, ReadBytes(n, 1), 1)
      BY <1>1, ReadBytesReads, ReadsParses
    <2>2. Parses(n, ReadName(n), 1)
      BY <1>1, ReadNameParses, ParsesLess
    <2> QED BY <2>1, <2>2 DEF Parses, ReadSecond
  <1> HIDE DEF s
  <1>4. ~n.thrown /\ ~s.thrown => Outcome(s, v, 4)
    <2>1. SUFFICES ASSUME ~n.thrown, ~s.thrown PROVE Outcome(s, v, 4)
      OBVIOUS
    <2>2. s.stack = <<>>
      BY <1>1, <1>3, <2>1 DEF Parses
    <2> QED BY <2>2, <1>3, ReadValueOutcome
  <1> HIDE DEF v
  <1>5. Reading(v) => Parses(v, x, 0)
    <2>1. SUFFICES ASSUME Reading(v) PROVE Parses(v, x, 0)
      OBVIOUS
    <2>2. /\ DOMAIN x = Fields /\ x.data = v.data /\ x.at = v.at /\ x.strings = v.strings
          /\ x.str = v.str /\ x.num = v.num /\ x.thrown = v.thrown /\ x.stack = v.stack
      BY <2>1, FieldsAre DEF Reading
    <2>3. x.num \in Int
      BY <2>1, <2>2 DEF Reading
    <2> HIDE DEF x
    <2> QED BY <2>1, <2>2, <2>3, ChangeParses
  <1> HIDE DEF x
  <1>a. ~n.thrown /\ ~s.thrown => Outcome(s, y, 4 + 0)
    <2>1. ~n.thrown /\ ~s.thrown /\ ~v.thrown => Outcome(v, x, 0)
      BY <1>4, <1>5, OutcomeReads DEF Outcome
    <2> QED BY <1>3, <1>4, <2>1, OutcomeOn
  <1>6. ~n.thrown /\ ~s.thrown => Outcome(s, y, 4)
    BY <1>a
  <1> HIDE DEF y
  <1>b. (s.thrown => z = s) /\ (~s.thrown => z = y)
    OBVIOUS
  <1> HIDE DEF z
  <1>7. ~n.thrown => Outcome(n, z, 1 + 4)
    <2>1. SUFFICES ASSUME ~n.thrown PROVE Outcome(n, z, 1 + 4)
      OBVIOUS
    <2>2. ~s.thrown => Outcome(s, z, 4)
      BY <2>1, <1>6, <1>b
    <2>3. Outcome(n, s, 1)
      BY <1>3 DEF Outcome
    <2> QED BY <1>1, <2>3, <1>b, <2>2, OutcomeOn
  <1> HIDE DEF z
  <1>c. Outcome(r, n, 2)
    BY <1>1 DEF Outcome
  <1>8. CASE n.thrown
    BY <1>c, <1>2, <1>8, OutcomeLess
  <1>9. CASE ~n.thrown
    <2>1. Outcome(r, z, 2 + 5)
      BY <1>c, <1>7, <1>9, OutcomeOn
    <2>2. Outcome(r, z, 1)
      BY <2>1, OutcomeLess
    <2> QED BY <1>2, <1>9, <2>2
  <1> QED BY <1>8, <1>9

\* How many parts are looked at, and the readers on the way
PartCount(u) == IF u.num > Left(u) THEN Left(u) + 1 ELSE u.num

PartRun(r, u, kind, k, run) ==
    /\ run[0] = u
    /\ \A i \in 1 .. k : run[i] = ReadNext(run[i - 1], kind)
    /\ ReadParts(r, kind) = run[k]

\* The function that ReadParts defines.
LEMMA PartsComputed ==
    ASSUME NEW r, NEW kind, NEW u, u = ReadNumber(r, 2), ~u.thrown,
           NEW k \in Nat, k = PartCount(u)
    PROVE  \E run : PartRun(r, u, kind, k, run)
  <1> DEFINE n == k
             F(f, m) == f = [i \in 0 .. m |-> IF i = 0 THEN u ELSE ReadNext(f[i - 1], kind)]
             T == {m \in Nat : \E f : F(f, m)}
  <1>0. n \in Nat
    OBVIOUS
  <1>1. 0 \in T
    <2> DEFINE f == [i \in 0 .. 0 |-> u]
    <2>1. F(f, 0)
      OBVIOUS
    <2> QED BY <2>1
  <1>2. ASSUME NEW m \in Nat, m \in T PROVE m + 1 \in T
    <2>1. PICK f : F(f, m)
      BY <1>2
    <2> DEFINE g == [i \in 0 .. m + 1 |-> IF i <= m THEN f[i] ELSE ReadNext(f[m], kind)]
    <2>2. \A i \in 0 .. m : g[i] = f[i]
      OBVIOUS
    <2>3. g[m + 1] = ReadNext(f[m], kind)
      OBVIOUS
    <2>4. ASSUME NEW i \in 0 .. m + 1
          PROVE  g[i] = IF i = 0 THEN u ELSE ReadNext(g[i - 1], kind)
      <3>1. CASE i <= m
        <4>1. f[i] = IF i = 0 THEN u ELSE ReadNext(f[i - 1], kind)
          BY <2>1, <3>1
        <4>2. i # 0 => i - 1 \in 0 .. m
          BY <3>1
        <4> HIDE DEF g
        <4> QED BY <2>2, <3>1, <4>1, <4>2
      <3>2. CASE i = m + 1
        <4>1. i # 0 /\ i - 1 = m /\ m \in 0 .. m
          BY <3>2
        <4> HIDE DEF g
        <4> QED BY <2>2, <2>3, <3>2, <4>1
      <3> QED BY <3>1, <3>2
    <2>5. F(g, m + 1)
      BY <2>4
    <2> HIDE DEF F, g
    <2>6. \E h : F(h, m + 1)
      BY <2>5
    <2> QED BY <2>6
  <1> HIDE DEF T
  <1>3. Nat \subseteq T
    BY <1>1, <1>2, Induct
  <1>4. \E f : F(f, n)
    BY <1>0, <1>3 DEF T
  <1> DEFINE run == CHOOSE f : F(f, n)
  <1>5. F(run, n)
    BY <1>4
  <1>6. ReadParts(r, kind) = run[n]
    BY DEF ReadParts, ReadCounted, PartCount
  <1>7. run[0] = u /\ \A i \in 1 .. n : run[i] = ReadNext(run[i - 1], kind)
    <2> HIDE DEF run, n
    <2>1. 0 \in 0 .. n /\ \A i \in 1 .. n : i \in 0 .. n /\ i # 0
      BY <1>0
    <2> QED BY <1>5, <2>1
  <1> HIDE DEF run
  <1> QED BY <1>6, <1>7 DEF PartRun

LEMMA ReadPartsOutcome ==
    ASSUME NEW r, Reading(r), r.stack = <<>>, NEW kind
    PROVE  Outcome(r, ReadParts(r, kind), 2)
  <1> DEFINE n == ReadNumber(r, 2)
             k == PartCount(n)
  <1>1. Parses(r, n, 2) /\ Reading(n) /\ (~n.thrown => n.num \in Nat)
    BY ReadNumberParses DEF Parses
  <1>2. CASE n.thrown
    <2>1. ReadParts(r, kind) = n
      BY <1>2 DEF ReadParts, ReadCounted
    <2> HIDE DEF n
    <2> QED BY <2>1, <1>1 DEF Outcome
  <1>3. CASE ~n.thrown
    <2>0. k \in Nat
      <3> HIDE DEF n
      <3> QED BY <1>1, <1>3, ReadingIs DEF PartCount
    <2>a. n = ReadNumber(r, 2) /\ k = PartCount(n)
      OBVIOUS
    <2> HIDE DEF n, k
    <2>b. PICK run : PartRun(r, n, kind, k, run)
      BY <2>0, <2>a, <1>3, PartsComputed
    <2>1. /\ run[0] = n
          /\ \A i \in 1 .. k : run[i] = ReadNext(run[i - 1], kind)
          /\ ReadParts(r, kind) = run[k]
      BY <2>b DEF PartRun
    <2>2. n.stack = <<>>
      BY <1>1, <1>3 DEF Parses
    <2> DEFINE T == {i \in Nat : i <= k => Outcome(n, run[i], 0)}
    <2>3. 0 \in T
      BY <2>1, <1>1, ParsesSelf DEF Outcome
    <2>4. ASSUME NEW i \in Nat, i \in T PROVE i + 1 \in T
      <3>1. SUFFICES ASSUME i + 1 <= k PROVE Outcome(n, run[i + 1], 0)
        OBVIOUS
      <3> DEFINE a == run[i]
                 b == run[i + 1]
      <3>2. i + 1 \in 1 .. k /\ (i + 1) - 1 = i /\ Outcome(n, a, 0)
        BY <2>4, <3>1, <2>0
      <3>3. b = IF a.thrown THEN a ELSE ReadPart(a, kind)
        BY <2>1, <3>2 DEF ReadNext
      <3> HIDE DEF a, b
      <3>4. ~a.thrown => Outcome(a, b, 0)
        <4>1. SUFFICES ASSUME ~a.thrown PROVE Outcome(a, b, 0)
          OBVIOUS
        <4>2. Reading(a) /\ a.stack = <<>>
          BY <2>2, <3>2, <4>1, OutcomeReads DEF Parses
        <4>3. Outcome(a, b, 1)
          BY <3>3, <4>1, <4>2, ReadPartOutcome
        <4> QED BY <4>2, <4>3, OutcomeLess
      <3>5. Outcome(n, b, 0 + 0)
        BY <1>1, <3>2, <3>3, <3>4, OutcomeOn
      <3> QED BY <3>5 DEF b
    <2> HIDE DEF T
    <2>5. Nat \subseteq T
      BY <2>3, <2>4, Induct
    <2>6. Outcome(n, run[k], 0)
      BY <2>5, <2>0 DEF T
    <2> DEFINE x == run[k]
    <2> HIDE DEF x
    <2>8. Outcome(r, n, 2)
      BY <1>1 DEF Outcome
    <2>7. Outcome(r, x, 2 + 0)
      BY <2>8, <1>3, <2>6, OutcomeOn DEF x
    <2> QED BY <2>1, <2>7 DEF x
  <1> QED BY <1>2, <1>3

LEMMA ReadBothOutcome ==
    ASSUME NEW r, Reading(r), r.stack = <<>>
    PROVE  Outcome(r, ReadBoth(r), 0)
  <1> DEFINE h == ReadParts(r, "header")
             m == ReadParts(h, "message")
             p == IF h.thrown THEN h ELSE m
  <1>1. ReadBoth(r) = p
    BY DEF ReadBoth, ReadMessages
  <1>2. Outcome(r, h, 0)
    <2>1. Outcome(r, h, 2)
      BY ReadPartsOutcome
    <2> HIDE DEF h
    <2> QED BY <2>1, OutcomeLess
  <1> HIDE DEF h
  <1>3. ~h.thrown => Outcome(h, m, 0)
    <2>1. SUFFICES ASSUME ~h.thrown PROVE Outcome(h, m, 0)
      OBVIOUS
    <2>2. h.stack = <<>> /\ Reading(h)
      BY <1>2, <2>1, OutcomeReads DEF Parses
    <2>3. Outcome(h, m, 2)
      BY <2>2, ReadPartsOutcome
    <2> HIDE DEF m
    <2> QED BY <2>2, <2>3, OutcomeLess
  <1> HIDE DEF m
  <1>4. Outcome(r, p, 0 + 0)
    BY <1>2, <1>3, OutcomeOn
  <1> HIDE DEF p
  <1> QED BY <1>1, <1>4

LEMMA PacketOutcome ==
    ASSUME NEW r, Reading(r), r.stack = <<>>
    PROVE  Outcome(r, ReadPacket(r), 0)
  <1> DEFINE c == [r EXCEPT !.list = <<>>]
             b == ReadBytes(c, 2)
             p == ReadBoth(b)
             i == [Item EXCEPT !.type = "packet", !.items = p.list]
             x == [p EXCEPT !.item = i]
             y == IF p.thrown THEN p ELSE x
             z == IF b.str # <<0, 3>> THEN Refuse(b) ELSE y
             w == IF b.thrown THEN b ELSE z
  <1>1. ReadPacket(r) = IF r.at + 5 > Len(r.data) THEN Refuse(r) ELSE w
    BY DEF ReadPacket, ReadVersioned, EndPacket
  <1>2. Parses(r, c, 0) /\ Reading(c)
    <2>1. /\ DOMAIN c = Fields /\ c.data = r.data /\ c.at = r.at /\ c.strings = r.strings
          /\ c.str = r.str /\ c.num = r.num /\ c.thrown = r.thrown /\ c.stack = r.stack
      BY FieldsAre DEF Reading
    <2>2. c.num \in Int
      BY <2>1 DEF Reading
    <2> HIDE DEF c
    <2>3. Parses(r, c, 0)
      BY <2>1, <2>2, ChangeParses
    <2> QED BY <2>3 DEF Parses
  <1>0. c.data = r.data /\ c.at = r.at /\ c.stack = r.stack
    BY FieldsAre DEF Reading
  <1> HIDE DEF c
  <1>3. Parses(c, b, 0) /\ Reading(b)
    <2>1. Parses(c, b, 2)
      BY <1>2, ReadBytesReads, ReadsParses
    <2> QED BY <1>2, <2>1, ParsesLess DEF Parses
  <1> HIDE DEF b
  <1>4. ~b.thrown => b.stack = <<>>
    BY <1>0, <1>3 DEF Parses
  <1>5. ~b.thrown => Outcome(b, p, 0)
    BY <1>3, <1>4, ReadBothOutcome
  <1> HIDE DEF p, i
  <1>8. Reading(p) => Parses(p, x, 0)
    <2>1. SUFFICES ASSUME Reading(p) PROVE Parses(p, x, 0)
      OBVIOUS
    <2>2. /\ DOMAIN x = Fields /\ x.data = p.data /\ x.at = p.at /\ x.strings = p.strings
          /\ x.str = p.str /\ x.num = p.num /\ x.thrown = p.thrown /\ x.stack = p.stack
      BY <2>1, FieldsAre DEF Reading
    <2>3. x.num \in Int
      BY <2>1, <2>2 DEF Reading
    <2> HIDE DEF x
    <2> QED BY <2>1, <2>2, <2>3, ChangeParses
  <1> HIDE DEF x
  <1>9. ~b.thrown => Outcome(b, y, 0 + 0)
    <2>1. ~b.thrown /\ ~p.thrown => Outcome(p, x, 0)
      BY <1>5, <1>8, OutcomeReads DEF Outcome
    <2> QED BY <1>3, <1>5, <2>1, OutcomeOn
  <1> HIDE DEF y
  <1>10. ~b.thrown => Outcome(b, z, 0)
    <2>1. Outcome(b, Refuse(b), 0)
      BY <1>3, RefuseParses DEF Outcome
    <2> QED BY <1>9, <2>1
  <1> HIDE DEF z
  <1>14. Outcome(c, b, 0)
    BY <1>3 DEF Outcome
  <1>11. Outcome(c, w, 0 + 0)
    BY <1>2, <1>14, <1>10, OutcomeOn
  <1> HIDE DEF w
  <1>12. Outcome(r, w, 0)
    BY <1>0, <1>11 DEF Parses, Outcome
  <1>13. Outcome(r, Refuse(r), 0)
    BY RefuseParses DEF Outcome
  <1> QED BY <1>1, <1>12, <1>13

-----------------------------------------------------------------------------
(* The order of strings, and sets in order.                                *)

\* Byte by byte: what is in a string
LEMMA StringHas ==
    ASSUME NEW s \in Strings
    PROVE  IsSeq(s) /\ Len(s) \in Nat /\ \A i \in 1 .. Len(s) : s[i] \in Int /\ s[i] \in Bytes
  <1>1. \A i \in 1 .. Len(s) : s[i] \in Bytes
    BY DEF Strings
  <1> QED BY <1>1, ByteIsInt DEF IsSeq, Strings

LEMMA BeforeIsStrict ==
    ASSUME NEW s \in Strings, NEW t \in Strings
    PROVE  ~(Before(s, t) /\ Before(t, s)) /\ ~Before(s, s)
  <1>0. /\ Len(s) \in Nat /\ Len(t) \in Nat
        /\ \A i \in 1 .. Len(s) : s[i] \in Int
        /\ \A i \in 1 .. Len(t) : t[i] \in Int
    BY StringHas
  <1>1. ASSUME Before(s, t), Before(t, s) PROVE FALSE
    <2>1. PICK i \in 1 .. Len(t) : /\ \A k \in 1 .. (i - 1) : k <= Len(s) /\ s[k] = t[k]
                                   /\ Len(s) < i \/ s[i] < t[i]
      BY <1>1 DEF Before
    <2>2. PICK j \in 1 .. Len(s) : /\ \A k \in 1 .. (j - 1) : k <= Len(t) /\ t[k] = s[k]
                                   /\ Len(t) < j \/ t[j] < s[j]
      BY <1>1 DEF Before
    <2>3. CASE i < j
      <3>1. i \in 1 .. (j - 1) /\ i \in 1 .. Len(s) /\ i \in 1 .. Len(t)
        BY <1>0, <2>3
      <3> QED BY <1>0, <2>1, <2>2, <3>1
    <2>4. CASE j < i
      <3>1. j \in 1 .. (i - 1) /\ j \in 1 .. Len(s) /\ j \in 1 .. Len(t)
        BY <1>0, <2>4
      <3> QED BY <1>0, <2>1, <2>2, <3>1
    <2>5. CASE i = j
      BY <1>0, <2>1, <2>2, <2>5
    <2> QED BY <1>0, <2>3, <2>4, <2>5
  <1>2. ASSUME Before(s, s) PROVE FALSE
    <2>1. PICK i \in 1 .. Len(s) : Len(s) < i \/ s[i] < s[i]
      BY <1>2 DEF Before
    <2> QED BY <1>0, <2>1
  <1> QED BY <1>1, <1>2

LEMMA BeforeIsTotal ==
    ASSUME NEW s \in Strings, NEW t \in Strings, s # t
    PROVE  Before(s, t) \/ Before(t, s)
  <1>0. /\ Len(s) \in Nat /\ Len(t) \in Nat /\ IsSeq(s) /\ IsSeq(t)
        /\ \A i \in 1 .. Len(s) : s[i] \in Int
        /\ \A i \in 1 .. Len(t) : t[i] \in Int
    BY StringHas
  <1> DEFINE T == {i \in Nat : i >= 1 /\ ~(i <= Len(s) /\ i <= Len(t) /\ s[i] = t[i])}
  <1>1. T # {} /\ T \subseteq Nat
    <2>1. Len(s) + 1 \in T
      BY <1>0
    <2> QED BY <2>1
  <1>2. PICK i \in T : \A k \in T : i <= k
    BY <1>1, Least
  <1>3. ASSUME NEW k \in 1 .. (i - 1) PROVE k <= Len(s) /\ k <= Len(t) /\ s[k] = t[k]
    <2>1. k \in Nat /\ k >= 1 /\ ~(i <= k)
      OBVIOUS
    <2>2. k \notin T
      BY <1>2, <2>1
    <2> QED BY <2>1, <2>2
  <1>4. i \in Nat /\ i >= 1 /\ ~(i <= Len(s) /\ i <= Len(t) /\ s[i] = t[i])
    OBVIOUS
  <1> HIDE DEF T
  <1>5. CASE i <= Len(s) /\ i <= Len(t)
    <2>1. i \in 1 .. Len(s) /\ i \in 1 .. Len(t)
      BY <1>0, <1>4, <1>5
    <2>2. s[i] < t[i] \/ t[i] < s[i]
      BY <1>0, <1>4, <1>5, <2>1
    <2>3. CASE s[i] < t[i]
      BY <1>3, <2>1, <2>3 DEF Before
    <2>4. CASE t[i] < s[i]
      BY <1>3, <2>1, <2>4 DEF Before
    <2> QED BY <2>2, <2>3, <2>4
  <1>6. CASE ~(i <= Len(s)) /\ i <= Len(t)
    <2>1. i \in 1 .. Len(t) /\ Len(s) < i
      BY <1>0, <1>4, <1>6
    <2> QED BY <1>3, <2>1 DEF Before
  <1>7. CASE i <= Len(s) /\ ~(i <= Len(t))
    <2>1. i \in 1 .. Len(s) /\ Len(t) < i
      BY <1>0, <1>4, <1>7
    <2> QED BY <1>3, <2>1 DEF Before
  <1>8. CASE ~(i <= Len(s)) /\ ~(i <= Len(t))
    <2>1. Len(s) = Len(t)
      <3>1. CASE Len(s) < Len(t)
        <4>1. Len(s) + 1 <= Len(t) /\ Len(s) + 1 \in 1 .. i
          BY <1>0, <1>4, <1>8, <3>1
        <4>2. Len(s) + 1 # i
          BY <1>0, <1>8, <4>1
        <4>3. Len(s) + 1 \in 1 .. (i - 1)
          BY <1>0, <1>4, <4>1, <4>2
        <4> QED BY <1>0, <1>3, <4>3
      <3>2. CASE Len(t) < Len(s)
        <4>1. Len(t) + 1 <= Len(s) /\ Len(t) + 1 \in 1 .. i
          BY <1>0, <1>4, <1>8, <3>2
        <4>2. Len(t) + 1 # i
          BY <1>0, <1>8, <4>1
        <4>3. Len(t) + 1 \in 1 .. (i - 1)
          BY <1>0, <1>4, <4>1, <4>2
        <4> QED BY <1>0, <1>3, <4>3
      <3> QED BY <1>0, <3>1, <3>2
    <2>2. \A k \in 1 .. Len(s) : s[k] = t[k]
      <3>1. ASSUME NEW k \in 1 .. Len(s) PROVE s[k] = t[k]
        <4>1. k \in 1 .. (i - 1)
          BY <1>0, <1>4, <1>8
        <4> QED BY <1>3, <4>1
      <3> QED BY <3>1
    <2> QED BY <1>0, <2>1, <2>2, SeqSame
  <1> QED BY <1>5, <1>6, <1>7, <1>8

LEMMA BeforeIsTransitive ==
    ASSUME NEW s \in Strings, NEW t \in Strings, NEW u \in Strings, Before(s, t), Before(t, u)
    PROVE  Before(s, u)
  <1>0. /\ Len(s) \in Nat /\ Len(t) \in Nat /\ Len(u) \in Nat
        /\ \A i \in 1 .. Len(s) : s[i] \in Int
        /\ \A i \in 1 .. Len(t) : t[i] \in Int
        /\ \A i \in 1 .. Len(u) : u[i] \in Int
    BY StringHas
  <1>1. PICK i \in 1 .. Len(t) : /\ \A k \in 1 .. (i - 1) : k <= Len(s) /\ s[k] = t[k]
                                 /\ Len(s) < i \/ s[i] < t[i]
    BY DEF Before
  <1>2. PICK j \in 1 .. Len(u) : /\ \A k \in 1 .. (j - 1) : k <= Len(t) /\ t[k] = u[k]
                                 /\ Len(t) < j \/ t[j] < u[j]
    BY DEF Before
  <1>3. CASE i < j
    <2>1. i \in 1 .. (j - 1) /\ i \in 1 .. Len(u) /\ t[i] = u[i]
      BY <1>0, <1>2, <1>3
    <2>2. \A k \in 1 .. (i - 1) : k <= Len(s) /\ s[k] = u[k]
      <3>1. ASSUME NEW k \in 1 .. (i - 1) PROVE k <= Len(s) /\ s[k] = u[k]
        <4>1. k \in 1 .. (j - 1)
          BY <1>3
        <4> QED BY <1>1, <1>2, <4>1
      <3> QED BY <3>1
    <2> QED BY <1>1, <2>1, <2>2 DEF Before
  <1>4. CASE ~(i < j)
    <2>1. \A k \in 1 .. (j - 1) : k <= Len(s) /\ s[k] = u[k]
      <3>1. ASSUME NEW k \in 1 .. (j - 1) PROVE k <= Len(s) /\ s[k] = u[k]
        <4>1. k \in 1 .. (i - 1)
          BY <1>4
        <4> QED BY <1>1, <1>2, <4>1
      <3> QED BY <3>1
    <2>2. t[j] < u[j] /\ j <= Len(t)
      BY <1>0, <1>2, <1>4
    <2>3. Len(s) < j \/ s[j] < u[j]
      <3>1. CASE i = j
        <4>1. t[j] \in Int /\ u[j] \in Int
          BY <1>0, <3>1
        <4>2. CASE Len(s) < j
          BY <4>2
        <4>3. CASE ~(Len(s) < j)
          <5>1. s[j] \in Int /\ s[j] < t[j]
            BY <1>0, <1>1, <3>1, <4>3
          <5> QED BY <2>2, <4>1, <5>1
        <4> QED BY <4>2, <4>3
      <3>2. CASE i # j
        <4>1. j \in 1 .. (i - 1)
          BY <1>4, <3>2
        <4> QED BY <1>1, <2>2, <4>1
      <3> QED BY <3>1, <3>2
    <2> QED BY <1>2, <2>1, <2>3 DEF Before
  <1> QED BY <1>3, <1>4

\* A set of strings has a last one.
LEMMA LastIs ==
    ASSUME NEW S \in SUBSET Strings, IsFiniteSet(S), S # {}
    PROVE  \E m \in S : \A y \in S : y # m => Before(y, m)
  <1> DEFINE Has(U) == \E m \in U : \A y \in U : y # m => Before(y, m)
             T == {k \in Nat : \A U \in SUBSET Strings :
                      IsFiniteSet(U) /\ Cardinality(U) = k /\ U # {} => Has(U)}
  <1>1. 0 \in T
    BY FS_EmptySet
  <1>2. ASSUME NEW k \in Nat, k \in T PROVE k + 1 \in T
    <2>1. SUFFICES ASSUME NEW U \in SUBSET Strings, IsFiniteSet(U), Cardinality(U) = k + 1, U # {}
                   PROVE  Has(U)
      OBVIOUS
    <2>2. PICK x : x \in U
      BY <2>1
    <2> DEFINE V == U \ {x}
    <2>3. IsFiniteSet(V) /\ Cardinality(V) = k /\ V \in SUBSET Strings
      <3>1. IsFiniteSet(U \ {x}) /\ Cardinality(U \ {x}) = Cardinality(U) - 1
        BY <2>1, <2>2, FS_RemoveElement
      <3>2. (k + 1) - 1 = k /\ V \in SUBSET Strings
        BY <2>1
      <3> QED BY <2>1, <3>1, <3>2
    <2>4. CASE V = {}
      BY <2>2, <2>4
    <2>5. CASE V # {}
      <3>1. Has(V)
        BY <1>2, <2>3, <2>5
      <3>2. PICK m \in V : \A y \in V : y # m => Before(y, m)
        BY <3>1
      <3>3. m \in Strings /\ x \in Strings /\ m # x /\ m \in U
        BY <2>1, <2>2
      <3>4. CASE Before(m, x)
        <4>1. ASSUME NEW y \in U, y # x PROVE Before(y, x)
          <5>1. y \in V /\ y \in Strings
            BY <4>1
          <5> QED BY <3>2, <3>3, <3>4, <5>1, BeforeIsTransitive
        <4> QED BY <2>2, <4>1
      <3>5. CASE Before(x, m)
        <4>1. ASSUME NEW y \in U, y # m PROVE Before(y, m)
          BY <3>2, <3>5, <4>1
        <4> QED BY <3>3, <4>1
      <3> QED BY <3>3, <3>4, <3>5, BeforeIsTotal
    <2> QED BY <2>4, <2>5
  <1> HIDE DEF T
  <1>3. Nat \subseteq T
    BY <1>1, <1>2, Induct
  <1>4. Cardinality(S) \in T
    BY <1>3, FS_CardinalityType
  <1> QED BY <1>4 DEF T

InOrder(f, n) == \A i, j \in 1 .. n : i < j => Before(f[i], f[j])

LEMMA OrderIs ==
    ASSUME NEW S \in SUBSET Strings, IsFiniteSet(S)
    PROVE  \E f \in [1 .. Cardinality(S) -> S] : InOrder(f, Cardinality(S))
  <1> DEFINE T == {k \in Nat : \A U \in SUBSET Strings :
                      IsFiniteSet(U) /\ Cardinality(U) = k => \E f \in [1 .. k -> U] : InOrder(f, k)}
  <1>1. 0 \in T
    <2>1. ASSUME NEW U \in SUBSET Strings PROVE \E f \in [1 .. 0 -> U] : InOrder(f, 0)
      <3> DEFINE f == [i \in 1 .. 0 |-> {}]
      <3>1. f \in [1 .. 0 -> U] /\ InOrder(f, 0)
        BY DEF InOrder
      <3> QED BY <3>1
    <2> QED BY <2>1
  <1>2. ASSUME NEW k \in Nat, k \in T PROVE k + 1 \in T
    <2>1. SUFFICES ASSUME NEW U \in SUBSET Strings, IsFiniteSet(U), Cardinality(U) = k + 1
                   PROVE  \E f \in [1 .. (k + 1) -> U] : InOrder(f, k + 1)
      OBVIOUS
    <2>2. U # {}
      BY <2>1, FS_EmptySet
    <2>3. PICK m \in U : \A y \in U : y # m => Before(y, m)
      BY <2>1, <2>2, LastIs
    <2> DEFINE V == U \ {m}
    <2>4. IsFiniteSet(V) /\ Cardinality(V) = k /\ V \in SUBSET Strings
      <3>1. IsFiniteSet(U \ {m}) /\ Cardinality(U \ {m}) = Cardinality(U) - 1
        BY <2>1, <2>3, FS_RemoveElement
      <3>2. (k + 1) - 1 = k /\ V \in SUBSET Strings
        BY <2>1
      <3> QED BY <2>1, <3>1, <3>2
    <2>5. PICK g \in [1 .. k -> V] : InOrder(g, k)
      BY <1>2, <2>4
    <2> DEFINE f == [i \in 1 .. (k + 1) |-> IF i = k + 1 THEN m ELSE g[i]]
    <2>6. \A i \in 1 .. k : f[i] = g[i] /\ g[i] \in V
      BY <2>5
    <2>7. f[k + 1] = m
      OBVIOUS
    <2>8. f \in [1 .. (k + 1) -> U]
      <3>1. ASSUME NEW i \in 1 .. (k + 1) PROVE (IF i = k + 1 THEN m ELSE g[i]) \in U
        <4>1. CASE i = k + 1
          BY <4>1
        <4>2. CASE i # k + 1
          <5>1. i \in 1 .. k
            BY <4>2
          <5> QED BY <4>2, <5>1, <2>6
        <4> QED BY <4>1, <4>2
      <3> QED BY <3>1
    <2> HIDE DEF f
    <2>9. ASSUME NEW i \in 1 .. (k + 1), NEW j \in 1 .. (k + 1), i < j PROVE Before(f[i], f[j])
      <3>1. i \in 1 .. k /\ f[i] = g[i] /\ g[i] \in V
        BY <2>6, <2>9
      <3>2. CASE j = k + 1
        BY <2>3, <2>7, <3>1, <3>2
      <3>3. CASE j # k + 1
        <4>1. j \in 1 .. k
          BY <3>3
        <4> QED BY <2>5, <2>6, <2>9, <3>1, <4>1 DEF InOrder
      <3> QED BY <3>2, <3>3
    <2> QED BY <2>8, <2>9 DEF InOrder
  <1> HIDE DEF T
  <1>3. Nat \subseteq T
    BY <1>1, <1>2, Induct
  <1>4. Cardinality(S) \in T
    BY <1>3, FS_CardinalityType
  <1> QED BY <1>4 DEF T

\* A set in order: each element at one place.
LEMMA SortedIs ==
    ASSUME NEW S \in SUBSET Strings, IsFiniteSet(S)
    PROVE  LET s == Sorted(S)
               n == Cardinality(S)
           IN /\ n \in Nat /\ s \in Seq(S) /\ IsSeq(s) /\ Len(s) = n /\ DOMAIN s = 1 .. n
              /\ \A i, j \in 1 .. n : s[i] = s[j] => i = j
              /\ \A i \in 1 .. n : s[i] \in S
              /\ \A x \in S : \E i \in 1 .. n : s[i] = x
              /\ ToSet(s) = S
  <1> DEFINE s == Sorted(S)
             n == Cardinality(S)
  <1>0. n \in Nat
    BY FS_CardinalityType
  <1>1. \E f \in [1 .. n -> S] : \A i, j \in DOMAIN f : i < j => Before(f[i], f[j])
    <2>1. PICK f \in [1 .. n -> S] : InOrder(f, n)
      BY OrderIs
    <2>2. DOMAIN f = 1 .. n
      OBVIOUS
    <2>3. \A i, j \in DOMAIN f : i < j => Before(f[i], f[j])
      BY <2>1, <2>2 DEF InOrder
    <2> QED BY <2>3
  <1>2. s \in [1 .. n -> S] /\ \A i, j \in DOMAIN s : i < j => Before(s[i], s[j])
    BY <1>1 DEF Sorted
  <1> HIDE DEF s, n
  <1>3. DOMAIN s = 1 .. n /\ \A i \in 1 .. n : s[i] \in S /\ s[i] \in Strings
    BY <1>2
  <1>4. ASSUME NEW i \in 1 .. n, NEW j \in 1 .. n, s[i] = s[j] PROVE i = j
    <2>1. ~Before(s[i], s[j]) /\ ~Before(s[j], s[i])
      BY <1>3, <1>4, BeforeIsStrict
    <2>2. ~(i < j) /\ ~(j < i)
      BY <1>2, <1>3, <2>1
    <2> QED BY <1>0, <2>2
  <1>5. s \in Injection(1 .. n, S)
    BY <1>2, <1>3, <1>4 DEF Injection, IsInjective
  <1>6. s \in Surjection(1 .. n, S)
    <2>1. IsFiniteSet(1 .. n) /\ Cardinality(1 .. n) = n
      BY <1>0, FS_Interval
    <2> QED BY <1>5, <2>1, FS_Injection DEF n
  <1>7. \A x \in S : \E i \in 1 .. n : s[i] = x
    BY <1>6 DEF Surjection
  <1>8. s \in Seq(S) /\ Len(s) = n
    BY <1>0, <1>2, SeqDef
  <1>9. ToSet(s) = S
    BY <1>3, <1>7 DEF ToSet
  <1> QED BY <1>0, <1>3, <1>4, <1>7, <1>8, <1>9 DEF s, n, IsSeq

-----------------------------------------------------------------------------
(* Places in the tables, and pairs in some order.                          *)

LEMMA MinIs ==
    ASSUME NEW n \in Nat, NEW I \in SUBSET (1 .. n)
    PROVE  LET i == IF I # {} THEN Min(I) ELSE 0
           IN i \in 0 .. n /\ (i # 0 => i \in I) /\ (i = 0 => I = {})
  <1>1. CASE I = {}
    BY <1>1
  <1>2. CASE I # {}
    <2>1. I \subseteq Nat
      OBVIOUS
    <2>2. \E x \in I : \A y \in I : x <= y
      BY <1>2, <2>1, Least
    <2>3. Min(I) \in I
      BY <2>2 DEF Min
    <2> DEFINE k == Min(I)
    <2>4. k \in I
      BY <2>3
    <2> HIDE DEF k
    <2>5. k \in 1 .. n
      BY <2>4
    <2>6. k \in 0 .. n /\ k # 0
      BY <2>5
    <2> QED BY <1>2, <2>4, <2>6 DEF k
  <1> QED BY <1>1, <1>2

LEMMA StringIndexIs ==
    ASSUME NEW s, NEW c, Len(c.strings) \in Nat
    PROVE  LET i == StringIndex(s, c)
               n == Len(c.strings)
           IN /\ i \in 0 .. n
              /\ i # 0 => c.strings[i] = s
              /\ i = 0 => \A j \in 1 .. n : c.strings[j] # s
  <1> DEFINE n == Len(c.strings)
             I == {i \in 1 .. n : c.strings[i] = s}
  <1>1. StringIndex(s, c) = IF I # {} THEN Min(I) ELSE 0
    BY DEF StringIndex, SelectInSeq
  <1>2. I \in SUBSET (1 .. n) /\ n \in Nat
    OBVIOUS
  <1>3. \A i \in I : c.strings[i] = s
    OBVIOUS
  <1>4. I = {} => \A j \in 1 .. n : c.strings[j] # s
    OBVIOUS
  <1> HIDE DEF I, n
  <1> QED BY <1>1, <1>2, <1>3, <1>4, MinIs DEF n

LEMMA TraitsIndexIs ==
    ASSUME NEW m, NEW c, Len(c.traits) \in Nat
    PROVE  LET i == TraitsIndex(m, c)
               n == Len(c.traits)
           IN /\ i \in 0 .. n
              /\ i # 0 => c.traits[i] = Traits(m)
              /\ i = 0 => \A j \in 1 .. n : c.traits[j] # Traits(m)
  <1> DEFINE n == Len(c.traits)
             I == {i \in 1 .. n : c.traits[i] = Traits(m)}
  <1>1. TraitsIndex(m, c) = IF I # {} THEN Min(I) ELSE 0
    BY DEF TraitsIndex, SelectInSeq
  <1>2. I \in SUBSET (1 .. n) /\ n \in Nat
    OBVIOUS
  <1>3. \A i \in I : c.traits[i] = Traits(m)
    OBVIOUS
  <1>4. I = {} => \A j \in 1 .. n : c.traits[j] # Traits(m)
    OBVIOUS
  <1> HIDE DEF I, n
  <1> QED BY <1>1, <1>2, <1>3, <1>4, MinIs DEF n

LEMMA ObjectIndexIs ==
    ASSUME NEW m, NEW c, Len(c.objects) \in Nat
    PROVE  LET i == ObjectIndex(m, c)
               n == Len(c.objects)
           IN /\ i \in 0 .. n
              /\ i # 0 => Same(c.objects[i].copy, m) \/ Uncomparable(c.objects[i].copy, m)
  <1> DEFINE n == Len(c.objects)
             I == {i \in 1 .. n : Same(c.objects[i].copy, m) \/ Uncomparable(c.objects[i].copy, m)}
  <1>1. ObjectIndex(m, c) = IF I # {} THEN Min(I) ELSE 0
    BY DEF ObjectIndex, SelectInSeq
  <1>2. I \in SUBSET (1 .. n) /\ n \in Nat
    OBVIOUS
  <1>3. \A i \in I : Same(c.objects[i].copy, m) \/ Uncomparable(c.objects[i].copy, m)
    OBVIOUS
  <1> HIDE DEF I, n
  <1> QED BY <1>1, <1>2, <1>3, MinIs DEF n

LEMMA SetToSeqIs ==
    ASSUME NEW S, IsFiniteSet(S)
    PROVE  LET s == SetToSeq(S)
               n == Cardinality(S)
           IN /\ n \in Nat /\ s \in Seq(S) /\ IsSeq(s) /\ Len(s) = n /\ DOMAIN s = 1 .. n
              /\ \A i, j \in 1 .. n : s[i] = s[j] => i = j
              /\ \A i \in 1 .. n : s[i] \in S
              /\ \A x \in S : \E i \in 1 .. n : s[i] = x
  <1> DEFINE s == SetToSeq(S)
             n == Cardinality(S)
  <1>0. n \in Nat
    BY FS_CardinalityType
  <1>1. \E f \in [1 .. n -> S] : IsInjective(f)
    <2>1. ExistsBijection(1 .. n, S)
      BY <1>0, FS_NatBijection, FS_CountingElements
    <2>2. PICK f : f \in Bijection(1 .. n, S)
      BY <2>1 DEF ExistsBijection
    <2> QED BY <2>2 DEF Bijection, Injection
  <1>2. s \in [1 .. n -> S] /\ IsInjective(s)
    BY <1>1 DEF SetToSeq
  <1> HIDE DEF s, n
  <1>3. DOMAIN s = 1 .. n /\ \A i \in 1 .. n : s[i] \in S
    BY <1>2
  <1>4. \A i, j \in 1 .. n : s[i] = s[j] => i = j
    BY <1>2, <1>3 DEF IsInjective
  <1>5. s \in Injection(1 .. n, S)
    BY <1>2 DEF Injection
  <1>6. s \in Surjection(1 .. n, S)
    <2>1. IsFiniteSet(1 .. n) /\ Cardinality(1 .. n) = n
      BY <1>0, FS_Interval
    <2> QED BY <1>5, <2>1, FS_Injection DEF n
  <1>7. \A x \in S : \E i \in 1 .. n : s[i] = x
    BY <1>6 DEF Surjection
  <1>8. s \in Seq(S) /\ Len(s) = n
    BY <1>0, <1>2, SeqDef
  <1> QED BY <1>0, <1>3, <1>4, <1>7, <1>8 DEF s, n, IsSeq

\* What begins a row is as long as it has elements.
LEMMA BeginningIs ==
    ASSUME NEW n \in Nat, NEW I \in SUBSET (1 .. n),
           \A i \in 1 .. n : \A j \in I : i < j => i \in I
    PROVE  LET k == Cardinality(I) IN k \in 0 .. n /\ I = 1 .. k
  <1>1. IsFiniteSet(1 .. n) /\ Cardinality(1 .. n) = n
    BY FS_Interval
  <1>2. CASE I = {}
    <2>1. Cardinality(I) = 0
      BY <1>2, FS_EmptySet
    <2> QED BY <1>2, <2>1
  <1>3. CASE I # {}
    <2>1. I \subseteq 0 .. n
      OBVIOUS
    <2>2. PICK m \in I : \A j \in I : j <= m
      BY <1>3, <2>1, Greatest
    <2>3. I = 1 .. m /\ m \in Nat /\ m <= n
      <3>1. ASSUME NEW i \in 1 .. m PROVE i \in I
        <4>1. CASE i = m
          BY <4>1
        <4>2. CASE i # m
          <5>1. i < m /\ i \in 1 .. n
            BY <4>2
          <5> QED BY <5>1
        <4> QED BY <4>1, <4>2
      <3>2. ASSUME NEW i \in I PROVE i \in 1 .. m
        BY <2>2
      <3>3. m \in 1 .. n
        OBVIOUS
      <3>4. m \in Nat /\ m <= n
        BY <3>3
      <3>5. I \subseteq 1 .. m
        BY <3>2
      <3>6. 1 .. m \subseteq I
        BY <3>1
      <3> QED BY <3>4, <3>5, <3>6
    <2>4. Cardinality(1 .. m) = m
      BY <2>3, FS_Interval
    <2> QED BY <2>3, <2>4
  <1> QED BY <1>2, <1>3

-----------------------------------------------------------------------------
(* Bytes.                                                                  *)

LEMMA StringOf ==
    ASSUME NEW s, IsSeq(s), \A i \in 1 .. Len(s) : s[i] \in Bytes
    PROVE  s \in Strings
  <1>1. Len(s) \in Nat /\ s = [i \in 1 .. Len(s) |-> s[i]]
    BY SeqHas
  <1>2. s \in [1 .. Len(s) -> Bytes]
    BY <1>1
  <1> QED BY <1>1, <1>2, SeqDef DEF Strings

LEMMA ConcatIsString ==
    ASSUME NEW s \in Strings, NEW t \in Strings
    PROVE  /\ s \o t \in Strings /\ Len(s \o t) = Len(s) + Len(t)
           /\ Len(s) \in Nat /\ Len(t) \in Nat
           /\ \A i \in 1 .. Len(s) : (s \o t)[i] = s[i]
           /\ \A i \in 1 .. Len(t) : (s \o t)[Len(s) + i] = t[i]
  <1>1. IsSeq(s) /\ IsSeq(t) /\ Len(s) \in Nat /\ Len(t) \in Nat
    BY StringHas
  <1>2. s \o t \in Strings
    BY DEF Strings
  <1> QED BY <1>1, <1>2, SeqConcat

LEMMA ByteIsString ==
    ASSUME NEW x \in Bytes
    PROVE  <<x>> \in Strings /\ Len(<<x>>) = 1 /\ <<x>>[1] = x
  BY DEF Strings

LEMMA SmallIsByte ==
    /\ \A x \in Int : x % 256 \in Bytes
    /\ \A x \in 0 .. 255 : x \in Bytes
  <1>1. \A x \in Int : x % 256 \in 0 .. 255
    OBVIOUS
  <1> QED BY <1>1 DEF Bytes

LEMMA IntegerIsString ==
    ASSUME NEW v \in Int, InRange(v)
    PROVE  IntegerBytes(v) \in Strings /\ Len(IntegerBytes(v)) \in 1 .. 4
  BY Shape DEF Strings

LEMMA LengthIsString ==
    ASSUME NEW n \in Nat, n < 134217728
    PROVE  /\ LengthBytes(n) \in Strings /\ Len(LengthBytes(n)) \in 1 .. 4
           /\ InRange(2 * n + 1) /\ 2 * n + 1 \in Int /\ LengthBytes(n) = IntegerBytes(2 * n + 1)
  <1>1. InRange(2 * n + 1) /\ 2 * n + 1 \in Int
    BY DEF InRange
  <1> QED BY <1>1, IntegerIsString DEF LengthBytes

LEMMA CountIsString ==
    ASSUME NEW n \in Nat
    PROVE  /\ Count16(n) \in Strings /\ Len(Count16(n)) = 2
           /\ Count32(n) \in Strings /\ Len(Count32(n)) = 4
  <1>1. n \div 256 \in Int /\ n \div 65536 \in Int /\ n \div 16777216 \in Int
    OBVIOUS
  <1> DEFINE a == (n \div 256) % 256
             b == n % 256
             x == (n \div 16777216) % 256
             y == (n \div 65536) % 256
  <1>2. a \in Bytes /\ b \in Bytes /\ x \in Bytes /\ y \in Bytes
    BY <1>1, SmallIsByte
  <1>3. Count16(n) = <<a, b>> /\ Count32(n) = <<x, y>> \o <<a, b>>
    BY DEF Count16, Count32
  <1> HIDE DEF a, b, x, y
  <1>4. <<a, b>> \in Strings /\ <<x, y>> \in Strings /\ Len(<<a, b>>) = 2 /\ Len(<<x, y>>) = 2
    BY <1>2 DEF Strings
  <1>5. <<x, y>> \o <<a, b>> \in Strings /\ Len(<<x, y>> \o <<a, b>>) = Len(<<x, y>>) + Len(<<a, b>>)
    BY <1>4, ConcatIsString
  <1> QED BY <1>3, <1>4, <1>5

LEMMA NetworkIsString ==
    ASSUME NEW s \in Strings
    PROVE  NetworkBytes(s) \in Strings /\ Len(NetworkBytes(s)) = Len(s)
  <1> DEFINE t == Reverse(s)
             n == Len(s)
  <1>0. n \in Nat /\ \A i \in 1 .. n : s[i] \in Bytes
    BY StringHas
  <1>1. t = [i \in 1 .. n |-> s[(n - i) + 1]]
    BY DEF Reverse
  <1> HIDE DEF t, n
  <1>2. \A i \in 1 .. n : t[i] \in Bytes
    <2>1. \A i \in 1 .. n : (n - i) + 1 \in 1 .. n
      BY <1>0
    <2> QED BY <1>0, <1>1, <2>1
  <1>3. DOMAIN t = 1 .. n /\ t = [i \in 1 .. n |-> t[i]]
    BY <1>1
  <1>4. IsSeq(t) /\ Len(t) = n
    BY <1>0, <1>3, SeqGiven
  <1>5. t \in Strings
    BY <1>2, <1>4, StringOf
  <1> QED BY <1>4, <1>5 DEF NetworkBytes, t, n

-----------------------------------------------------------------------------
(* What is known of the items of a program.                                *)

Containers == {"array", "vectorObject", "dictionary", "object"}

\* The heap has one of its versions in the place of each item that changes.
HeapOK == /\ DOMAIN heap = {c[1] : c \in Changes}
          /\ \A o \in DOMAIN heap : heap[o] \in Versions(o)

LEMMA AtIs ==
    ASSUME HeapOK, NEW o \in Names
    PROVE  At(o) \in Versions(o) /\ At(o) \in Nodes
  <1>1. At(o) \in Versions(o)
    BY DEF HeapOK, At, Versions
  <1> QED BY <1>1 DEF Nodes

LEMMA NodeIs ==
    ASSUME NEW n \in Nodes
    PROVE  ItemOf(n) /\ PartsFit(n)
  BY AMF3Assumption

LEMMA MapIs ==
    ASSUME NEW f, MapOf(f)
    PROVE  /\ IsFiniteSet(DOMAIN f) /\ DOMAIN f \in SUBSET Strings
           /\ \A k \in DOMAIN f : f[k] \in Names
           /\ f = [k \in DOMAIN f |-> f[k]]
  BY DEF MapOf

LEMMA PointsToIs ==
    ASSUME NEW n \in Nodes
    PROVE  /\ \A i \in DOMAIN n.items : n.items[i] \in PointsTo(n)
           /\ \A k \in DOMAIN n.members : n.members[k] \in PointsTo(n)
           /\ \A k \in DOMAIN n.sealed : n.sealed[k] \in PointsTo(n)
           /\ \A p \in n.pairs : p[1] \in PointsTo(n) /\ p[2] \in PointsTo(n) /\ p = <<p[1], p[2]>>
           /\ PointsTo(n) \subseteq Names
  <1>1. ItemOf(n)
    BY NodeIs
  <1>2. \A k \in DOMAIN n.members : n.members[k] \in Names
    BY <1>1, MapIs DEF ItemOf
  <1>3. \A k \in DOMAIN n.sealed : n.sealed[k] \in Names
    BY <1>1, MapIs DEF ItemOf
  <1>4. \A i \in DOMAIN n.items : n.items[i] \in Names
    BY <1>1 DEF ItemOf
  <1>5. \A p \in n.pairs : p[1] \in Names /\ p[2] \in Names /\ p = <<p[1], p[2]>>
    BY <1>1 DEF ItemOf
  <1> HIDE DEF Names
  <1>6. PointsTo(n) \subseteq Names
    BY <1>2, <1>3, <1>4, <1>5 DEF PointsTo, ToSet
  <1>7. \A p \in n.pairs : p[1] \in PointsTo(n) /\ p[2] \in PointsTo(n)
    <2>1. ASSUME NEW p \in n.pairs PROVE p[1] \in PointsTo(n) /\ p[2] \in PointsTo(n)
      <3>1. p[1] \in {p[1], p[2]} /\ p[2] \in {p[1], p[2]}
        OBVIOUS
      <3>2. {p[1], p[2]} \subseteq UNION {{q[1], q[2]} : q \in n.pairs}
        OBVIOUS
      <3> QED BY <3>1, <3>2 DEF PointsTo
    <2> QED BY <2>1
  <1> QED BY <1>5, <1>6, <1>7 DEF PointsTo, ToSet

\* What is inside of an item has a value's type.
LEMMA InsideIs ==
    ASSUME HeapOK, NEW n \in Nodes, n.type # "packet", NEW o \in PointsTo(n)
    PROVE  o \in Names /\ At(o) \in Nodes /\ At(o).type \in ValueTypes
  <1>1. o \in Names
    BY PointsToIs
  <1>2. At(o) \in Versions(o) /\ At(o) \in Nodes
    BY <1>1, AtIs
  <1>3. {m.type : m \in Versions(o)} \subseteq ValueTypes
    BY NodeIs DEF PartsFit
  <1> QED BY <1>1, <1>2, <1>3

-----------------------------------------------------------------------------
(* The pieces of an item, one by one.                                      *)

LEMMA HalfIs ==
    ASSUME NEW k \in Nat, NEW i \in 1 .. 2 * k
    PROVE  /\ (i + 1) \div 2 \in 1 .. k
           /\ i % 2 = 1 => i = 2 * ((i + 1) \div 2) - 1
           /\ i % 2 # 1 => i = 2 * ((i + 1) \div 2)
  OBVIOUS

LEMMA MembersAre ==
    ASSUME NEW f, MapOf(f)
    PROVE  LET names == Sorted(DOMAIN f)
               s == Members(f)
           IN /\ IsSeq(s) /\ Len(s) = 2 * Len(names) /\ Len(names) \in Nat
              /\ \A i \in 1 .. Len(s) :
                    LET k == names[(i + 1) \div 2]
                    IN /\ (i + 1) \div 2 \in 1 .. Len(names) /\ k \in DOMAIN f
                       /\ s[i] = IF i % 2 = 1 THEN Piece("name", k) ELSE Piece("item", f[k])
  <1> DEFINE names == Sorted(DOMAIN f)
             n == Len(names)
             s == Members(f)
             x(i) == LET k == names[(i + 1) \div 2]
                     IN IF i % 2 = 1 THEN Piece("name", k) ELSE Piece("item", f[k])
  <1>1. n \in Nat /\ \A i \in 1 .. n : names[i] \in DOMAIN f
    BY MapIs, SortedIs
  <1>2. s = [i \in 1 .. 2 * n |-> x(i)]
    BY DEF Members
  <1> HIDE DEF names, s, n
  <1>3. 2 * n \in Nat
    BY <1>1
  <1> DEFINE m == 2 * n
  <1> HIDE DEF m, x
  <1>4. DOMAIN s = 1 .. m /\ s = [i \in 1 .. m |-> s[i]] /\ m \in Nat
    BY <1>2, <1>3 DEF m
  <1>5. IsSeq(s) /\ Len(s) = m
    BY <1>4, SeqGiven
  <1>6. \A i \in 1 .. m : s[i] = x(i)
    BY <1>2 DEF m
  <1>7. \A i \in 1 .. m : (i + 1) \div 2 \in 1 .. n /\ names[(i + 1) \div 2] \in DOMAIN f
    BY <1>1, HalfIs DEF m
  <1> QED BY <1>1, <1>5, <1>6, <1>7 DEF m, x, s, n, names

LEMMA AttrsAreFinite ==
    ASSUME NEW s \in Seq(Strings)
    PROVE  /\ IsFiniteSet(ToSet(s)) /\ ToSet(s) \in SUBSET Strings
           /\ Cardinality(ToSet(s)) \in Nat /\ Cardinality(ToSet(s)) <= Len(s)
  <1> DEFINE n == Len(s)
             T == ToSet(s)
  <1>1. n \in Nat /\ DOMAIN s = 1 .. n
    OBVIOUS
  <1>2. IsFiniteSet(1 .. n) /\ Cardinality(1 .. n) = n
    BY <1>1, FS_Interval
  <1>3. s \in Surjection(1 .. n, T)
    BY <1>1 DEF ToSet, Surjection
  <1>4. IsFiniteSet(T) /\ Cardinality(T) <= n
    BY <1>2, <1>3, FS_Surjection
  <1>5. T \in SUBSET Strings
    BY <1>1 DEF ToSet
  <1> QED BY <1>4, <1>5, FS_CardinalityType

LEMMA SealedAre ==
    ASSUME NEW n \in Nodes
    PROVE  LET names == Sorted(ToSet(n.attrs))
               s == Sealed(n)
           IN /\ IsSeq(s) /\ Len(s) = Len(names) /\ Len(names) \in Nat
              /\ \A i \in 1 .. Len(s) :
                    s[i] = IF names[i] \in DOMAIN n.sealed THEN Piece("item", n.sealed[names[i]])
                                                           ELSE Piece("missing", <<>>)
  <1> DEFINE names == Sorted(ToSet(n.attrs))
             s == Sealed(n)
             x(i) == IF names[i] \in DOMAIN n.sealed THEN Piece("item", n.sealed[names[i]])
                                                     ELSE Piece("missing", <<>>)
  <1>1. n.attrs \in Seq(Strings)
    BY NodeIs DEF ItemOf
  <1>2. IsFiniteSet(ToSet(n.attrs)) /\ ToSet(n.attrs) \in SUBSET Strings
    BY <1>1, AttrsAreFinite
  <1>3. Len(names) \in Nat /\ DOMAIN names = 1 .. Len(names)
    BY <1>2, SortedIs
  <1>4. s = [i \in 1 .. Len(names) |-> x(i)]
    BY <1>3 DEF Sealed
  <1> HIDE DEF names, s, x
  <1> DEFINE m == Len(names)
  <1> HIDE DEF m
  <1>5. DOMAIN s = 1 .. m /\ s = [i \in 1 .. m |-> s[i]] /\ m \in Nat
    BY <1>3, <1>4 DEF m
  <1>6. IsSeq(s) /\ Len(s) = m
    BY <1>5, SeqGiven
  <1>7. \A i \in 1 .. m : s[i] = x(i)
    BY <1>4 DEF m
  <1> QED BY <1>5, <1>6, <1>7 DEF m, x, s, names

LEMMA PairsAre ==
    ASSUME NEW n \in Nodes
    PROVE  LET pairs == SetToSeq(n.pairs)
               s == Pairs(n)
           IN /\ IsSeq(s) /\ Len(s) = 2 * Len(pairs) /\ Len(pairs) \in Nat
              /\ Len(pairs) = Cardinality(n.pairs)
              /\ \A i \in 1 .. Len(s) :
                    LET p == pairs[(i + 1) \div 2]
                    IN /\ (i + 1) \div 2 \in 1 .. Len(pairs) /\ p \in n.pairs
                       /\ s[i] = IF i % 2 = 0 THEN Piece("item", p[2])
                                 ELSE Piece(IF IsWord(n, p[1]) THEN "word" ELSE "item", p[1])
  <1> DEFINE pairs == SetToSeq(n.pairs)
             k == Len(pairs)
             s == Pairs(n)
             x(i) == LET p == pairs[(i + 1) \div 2]
                     IN IF i % 2 = 0 THEN Piece("item", p[2])
                        ELSE Piece(IF IsWord(n, p[1]) THEN "word" ELSE "item", p[1])
  <1>0. IsFiniteSet(n.pairs)
    BY NodeIs DEF ItemOf
  <1>1. k \in Nat /\ k = Cardinality(n.pairs) /\ \A i \in 1 .. k : pairs[i] \in n.pairs
    BY <1>0, SetToSeqIs
  <1>2. s = [i \in 1 .. 2 * k |-> x(i)]
    BY DEF Pairs
  <1> HIDE DEF pairs, s, k
  <1>3. 2 * k \in Nat
    BY <1>1
  <1> DEFINE m == 2 * k
  <1> HIDE DEF m, x
  <1>4. DOMAIN s = 1 .. m /\ s = [i \in 1 .. m |-> s[i]] /\ m \in Nat
    BY <1>2, <1>3 DEF m
  <1>5. IsSeq(s) /\ Len(s) = m
    BY <1>4, SeqGiven
  <1>6. \A i \in 1 .. m : s[i] = x(i)
    BY <1>2 DEF m
  <1>7. \A i \in 1 .. m : (i + 1) \div 2 \in 1 .. k /\ pairs[(i + 1) \div 2] \in n.pairs
    BY <1>1, HalfIs DEF m
  <1> QED BY <1>1, <1>5, <1>6, <1>7 DEF m, x, s, k, pairs

LEMMA ItemsAre ==
    ASSUME NEW os, IsSeq(os)
    PROVE  LET s == Items(os)
           IN /\ IsSeq(s) /\ Len(s) = Len(os) /\ Len(os) \in Nat
              /\ \A i \in 1 .. Len(os) : s[i] = Piece("item", os[i])
  <1> DEFINE s == Items(os)
             m == Len(os)
  <1>1. m \in Nat /\ DOMAIN os = 1 .. m
    BY SeqHas
  <1>2. s = [i \in 1 .. m |-> Piece("item", os[i])]
    BY <1>1 DEF Items
  <1> HIDE DEF s, m
  <1>3. DOMAIN s = 1 .. m /\ s = [i \in 1 .. m |-> s[i]]
    BY <1>2
  <1>4. IsSeq(s) /\ Len(s) = m
    BY <1>1, <1>3, SeqGiven
  <1> QED BY <1>1, <1>2, <1>4 DEF s, m

LEMMA EndIs ==
    IsSeq(End) /\ Len(End) = 1 /\ End[1] = Piece("end", <<>>)
  BY SeqOne DEF End

-----------------------------------------------------------------------------
(* Every call of the serializer leaves a context, with more bytes.         *)

CFields == DOMAIN EmptyContext

Frame(c, e) == /\ e = [node |-> e.node, done |-> e.done, slot |-> e.slot]
               /\ e.node \in Nodes /\ e.node.type \in Containers
               /\ e.done \in 0 .. Len(Pieces(e.node))
               /\ e.slot \in 1 .. Len(c.objects)

\* What is so of a context at all times.
Writes(c) ==
    /\ DOMAIN c = CFields
    /\ c.buf \in Strings
    /\ c.strings \in Seq(Strings \ {<<>>})
    /\ IsSeq(c.traits)
    /\ \A i \in 1 .. Len(c.traits) :
          /\ \E n \in Nodes : c.traits[i] = Traits(n)
          /\ c.traits[i].name = <<>> \/ \E j \in 1 .. Len(c.strings) : c.strings[j] = c.traits[i].name
    /\ IsSeq(c.objects)
    /\ \A i \in 1 .. Len(c.objects) : c.objects[i].copy \in Nodes
    /\ IsSeq(c.todo)
    /\ \A i \in 1 .. Len(c.todo) : Frame(c, c.todo[i])
    /\ c.thrown \in BOOLEAN /\ c.drifted \in BOOLEAN /\ c.sound \in BOOLEAN

\* The bytes of c are the first of d's.
Begins(s, t) == Len(s) <= Len(t) /\ \A i \in 1 .. Len(s) : t[i] = s[i]

Grows(c, d) ==
    /\ d.thrown \/ Begins(c.buf, d.buf)
    /\ d.sound => c.sound
    /\ c.thrown => d.thrown
    /\ d.drifted = c.drifted

\* d is c after a call that begins no item.
Adds(c, d) == Writes(d) /\ Grows(c, d) /\ d.todo = c.todo /\ d.objects = c.objects

LEMMA CFieldsAre ==
    CFields = {"strings", "traits", "objects", "buf", "todo", "thrown", "drifted", "sound"}
  BY DEF CFields, EmptyContext

LEMMA WritesIs ==
    ASSUME NEW c, Writes(c)
    PROVE  /\ Len(c.buf) \in Nat /\ Len(c.strings) \in Nat /\ Len(c.traits) \in Nat
           /\ Len(c.objects) \in Nat /\ Len(c.todo) \in Nat
           /\ IsSeq(c.buf) /\ IsSeq(c.strings)
           /\ \A i \in 1 .. Len(c.strings) : c.strings[i] \in Strings /\ c.strings[i] # <<>>
  <1>1. Len(c.buf) \in Nat /\ IsSeq(c.buf)
    BY StringHas DEF Writes
  <1>2. Len(c.strings) \in Nat /\ IsSeq(c.strings)
    BY DEF Writes, IsSeq
  <1>3. \A i \in 1 .. Len(c.strings) : c.strings[i] \in Strings /\ c.strings[i] # <<>>
    BY DEF Writes
  <1>4. IsSeq(c.traits) /\ IsSeq(c.objects) /\ IsSeq(c.todo)
    BY DEF Writes
  <1> QED BY <1>1, <1>2, <1>3, <1>4, SeqHas

LEMMA BeginsSelf ==
    ASSUME NEW s \in Strings
    PROVE  Begins(s, s)
  BY StringHas DEF Begins

LEMMA BeginsOn ==
    ASSUME NEW s \in Strings, NEW t \in Strings, NEW u \in Strings, Begins(s, t), Begins(t, u)
    PROVE  Begins(s, u)
  <1>1. Len(s) \in Nat /\ Len(t) \in Nat /\ Len(u) \in Nat
    BY StringHas
  <1>2. Len(s) <= Len(u)
    BY <1>1 DEF Begins
  <1>3. \A i \in 1 .. Len(s) : u[i] = s[i]
    <2>1. ASSUME NEW i \in 1 .. Len(s) PROVE u[i] = s[i]
      <3>1. i \in 1 .. Len(t)
        BY <1>1 DEF Begins
      <3> QED BY <3>1 DEF Begins
    <2> QED BY <2>1
  <1> QED BY <1>2, <1>3 DEF Begins

LEMMA BeginsConcat ==
    ASSUME NEW s \in Strings, NEW t \in Strings
    PROVE  Begins(s, s \o t)
  <1>1. /\ Len(s \o t) = Len(s) + Len(t) /\ Len(s) \in Nat /\ Len(t) \in Nat
        /\ \A i \in 1 .. Len(s) : (s \o t)[i] = s[i]
    BY ConcatIsString
  <1> DEFINE u == s \o t
  <1> HIDE DEF u
  <1>2. Len(s) <= Len(u)
    BY <1>1 DEF u
  <1> QED BY <1>1, <1>2 DEF Begins, u

LEMMA GrowsOn ==
    ASSUME NEW c, NEW d, NEW e, Writes(c), Writes(d), Writes(e), Grows(c, d), Grows(d, e)
    PROVE  Grows(c, e)
  <1>1. c.buf \in Strings /\ d.buf \in Strings /\ e.buf \in Strings
    BY DEF Writes
  <1>2. e.thrown \/ Begins(c.buf, e.buf)
    BY <1>1, BeginsOn DEF Grows
  <1> QED BY <1>2 DEF Grows

LEMMA AddsOn ==
    ASSUME NEW c, NEW d, NEW e, Writes(c), Adds(c, d), Adds(d, e)
    PROVE  Adds(c, e)
  BY GrowsOn DEF Adds

LEMMA AddsSelf ==
    ASSUME NEW c, Writes(c)
    PROVE  Adds(c, c)
  <1>1. Begins(c.buf, c.buf)
    BY BeginsSelf DEF Writes
  <1> QED BY <1>1 DEF Adds, Grows

\* Bytes more, and history.
LEMMA ChangeAdds ==
    ASSUME NEW c, NEW d, Writes(c), DOMAIN d = CFields, d.buf \in Strings, Begins(c.buf, d.buf),
           d.strings = c.strings, d.traits = c.traits, d.objects = c.objects, d.todo = c.todo,
           d.thrown \in BOOLEAN, c.thrown => d.thrown, d.drifted = c.drifted,
           d.sound \in BOOLEAN, d.sound => c.sound
    PROVE  Adds(c, d)
  <1>1. \A i \in 1 .. Len(d.todo) : Frame(d, d.todo[i])
    BY DEF Writes, Frame
  <1>2. Writes(d)
    BY <1>1 DEF Writes
  <1> QED BY <1>2 DEF Adds, Grows

LEMMA EmitAdds ==
    ASSUME NEW c, Writes(c), NEW b \in Strings
    PROVE  LET d == Emit(c, b)
           IN /\ Adds(c, d)
              /\ d.buf = c.buf \o b /\ d.strings = c.strings /\ d.traits = c.traits
              /\ d.thrown = c.thrown /\ d.sound = c.sound
              /\ Len(d.buf) = Len(c.buf) + Len(b)
  <1> DEFINE d == Emit(c, b)
             s == c.buf \o b
  <1>1. s \in Strings /\ Begins(c.buf, s) /\ Len(s) = Len(c.buf) + Len(b)
    BY ConcatIsString, BeginsConcat DEF Writes
  <1>2. d = [c EXCEPT !.buf = s]
    BY DEF Emit
  <1> HIDE DEF s
  <1>3. /\ DOMAIN d = CFields /\ d.buf = s /\ d.strings = c.strings /\ d.traits = c.traits
        /\ d.objects = c.objects /\ d.todo = c.todo /\ d.thrown = c.thrown
        /\ d.drifted = c.drifted /\ d.sound = c.sound
    BY <1>2, CFieldsAre DEF Writes
  <1> HIDE DEF d
  <1>4. d.thrown \in BOOLEAN /\ d.sound \in BOOLEAN
    BY <1>3 DEF Writes
  <1>5. Adds(c, d)
    BY <1>1, <1>3, <1>4, ChangeAdds
  <1> QED BY <1>1, <1>3, <1>5 DEF d, s

LEMMA ThrowAdds ==
    ASSUME NEW c, Writes(c)
    PROVE  LET d == Throw(c)
           IN Adds(c, d) /\ d.thrown /\ d.strings = c.strings /\ d.traits = c.traits
  <1> DEFINE d == Throw(c)
  <1>1. /\ DOMAIN d = CFields /\ d.buf = c.buf /\ d.strings = c.strings /\ d.traits = c.traits
        /\ d.objects = c.objects /\ d.todo = c.todo /\ d.thrown = TRUE
        /\ d.drifted = c.drifted /\ d.sound = c.sound
    BY CFieldsAre DEF Writes, Throw
  <1> HIDE DEF d
  <1>2. d.buf \in Strings /\ d.sound \in BOOLEAN /\ Begins(c.buf, d.buf)
    BY <1>1, BeginsSelf DEF Writes
  <1>3. Adds(c, d)
    BY <1>1, <1>2, ChangeAdds
  <1> QED BY <1>1, <1>3 DEF d

\* A place where `sound` may be cleared
LEMMA DoubtAdds ==
    ASSUME NEW c, Writes(c), NEW x
    PROVE  LET d == [c EXCEPT !.sound = @ /\ x]
           IN /\ Adds(c, d) /\ d.buf = c.buf /\ d.strings = c.strings /\ d.traits = c.traits
              /\ d.thrown = c.thrown /\ d.sound = (c.sound /\ x)
  <1> DEFINE d == [c EXCEPT !.sound = @ /\ x]
  <1>1. /\ DOMAIN d = CFields /\ d.buf = c.buf /\ d.strings = c.strings /\ d.traits = c.traits
        /\ d.objects = c.objects /\ d.todo = c.todo /\ d.thrown = c.thrown
        /\ d.drifted = c.drifted /\ d.sound = (c.sound /\ x)
    BY CFieldsAre DEF Writes
  <1> HIDE DEF d
  <1>2. d.buf \in Strings /\ d.sound \in BOOLEAN /\ d.thrown \in BOOLEAN /\ Begins(c.buf, d.buf)
    BY <1>1, BeginsSelf DEF Writes
  <1>3. Adds(c, d)
    BY <1>1, <1>2, ChangeAdds
  <1> QED BY <1>1, <1>3 DEF d

LEMMA EmitIndexAdds ==
    ASSUME NEW c, Writes(c), NEW b \in Strings, NEW room
    PROVE  LET d == EmitIndex(c, b, room)
           IN /\ Adds(c, d)
              /\ d.buf = c.buf \o b /\ d.strings = c.strings /\ d.traits = c.traits
              /\ d.thrown = c.thrown /\ d.sound = (c.sound /\ room /\ ~c.drifted)
              /\ Len(d.buf) = Len(c.buf) + Len(b)
  <1> DEFINE e == Emit(c, b)
             x == room /\ ~c.drifted
             d == [e EXCEPT !.sound = @ /\ x]
  <1>1. EmitIndex(c, b, room) = d
    BY DEF EmitIndex
  <1>2. /\ Adds(c, e) /\ Writes(e)
        /\ e.buf = c.buf \o b /\ e.strings = c.strings /\ e.traits = c.traits
        /\ e.thrown = c.thrown /\ e.sound = c.sound
        /\ Len(e.buf) = Len(c.buf) + Len(b)
    BY EmitAdds DEF Adds
  <1> HIDE DEF e, x
  <1>3. /\ Adds(e, d) /\ d.buf = e.buf /\ d.strings = e.strings /\ d.traits = e.traits
        /\ d.thrown = e.thrown /\ d.sound = (e.sound /\ x)
    BY <1>2, DoubtAdds
  <1> HIDE DEF d
  <1>4. Adds(c, d)
    BY <1>2, <1>3, AddsOn
  <1> QED BY <1>1, <1>2, <1>3, <1>4 DEF x

LEMMA EmitLengthAdds ==
    ASSUME NEW c, Writes(c), NEW m \in Strings, NEW n \in Nat
    PROVE  LET d == EmitLength(c, m, n)
           IN /\ Adds(c, d) /\ d.strings = c.strings /\ d.traits = c.traits
              /\ d.sound = c.sound
              /\ n >= MaxLength => d.thrown
              /\ n < MaxLength => /\ d.buf = c.buf \o (m \o LengthBytes(n)) /\ d.thrown = c.thrown
                                  /\ n < LengthLimit
                                  /\ Len(d.buf) = Len(c.buf) + Len(m) + Len(LengthBytes(n))
  <1>0. MaxLength \in Int /\ MaxLength <= LengthLimit /\ LengthLimit \in Int
    <2>1. LengthLimit \in Int
      BY SMT DEF LengthLimit
    <2>2. MaxLength \in 0 .. LengthLimit
      BY AMF3Assumption
    <2> QED BY <2>1, <2>2
  <1>1. CASE n >= MaxLength
    <2>1. EmitLength(c, m, n) = Throw(c)
      BY <1>1 DEF EmitLength
    <2>2. Throw(c).sound = c.sound
      BY CFieldsAre DEF Throw, Writes
    <2>3. ~(n < MaxLength)
      BY <1>0, <1>1
    <2> QED BY <2>1, <2>2, <2>3, ThrowAdds
  <1>2. CASE ~(n >= MaxLength)
    <2> DEFINE l == LengthBytes(n)
    <2>1. EmitLength(c, m, n) = Emit(c, m \o l)
      BY <1>2 DEF EmitLength
    <2>2. n < LengthLimit
      BY <1>0, <1>2
    <2>3. l \in Strings
      BY <2>2, LengthIsString, SMT DEF LengthLimit
    <2> HIDE DEF l
    <2>4. m \o l \in Strings /\ Len(m \o l) = Len(m) + Len(l) /\ Len(m) \in Nat /\ Len(l) \in Nat
      BY <2>3, ConcatIsString
    <2> DEFINE b == m \o l
    <2> HIDE DEF b
    <2>5. /\ Adds(c, Emit(c, b)) /\ Emit(c, b).buf = c.buf \o b /\ Emit(c, b).strings = c.strings
          /\ Emit(c, b).traits = c.traits /\ Emit(c, b).thrown = c.thrown /\ Emit(c, b).sound = c.sound
          /\ Len(Emit(c, b).buf) = Len(c.buf) + Len(b)
      BY <2>4, EmitAdds DEF b
    <2>6. Len(c.buf) \in Nat
      BY WritesIs
    <2>7. Len(c.buf) + Len(b) = Len(c.buf) + Len(m) + Len(l)
      <3>1. Len(b) = Len(m) + Len(l)
        BY <2>4 DEF b
      <3> DEFINE x == Len(c.buf)
                 y == Len(m)
                 z == Len(l)
      <3>2. x \in Nat /\ y \in Nat /\ z \in Nat
        BY <2>4, <2>6
      <3> HIDE DEF x, y, z
      <3>3. x + (y + z) = x + y + z
        BY <3>2
      <3> QED BY <3>1, <3>3 DEF x, y, z
    <2> QED BY <1>2, <2>1, <2>2, <2>5, <2>7 DEF b, l
  <1> QED BY <1>1, <1>2

LEMMA ConcatThree ==
    ASSUME NEW s \in Strings, NEW t \in Strings, NEW u \in Strings
    PROVE  (s \o t) \o u = s \o (t \o u)
  <1>1. s \in Seq(Bytes) /\ t \in Seq(Bytes) /\ u \in Seq(Bytes)
    BY DEF Strings
  <1> QED BY <1>1, ConcatAssociative

\* A string that is written is known from then on, if it is not refused.
LEMMA AppendAdds ==
    ASSUME NEW c, Writes(c), NEW s \in Strings, s # <<>>
    PROVE  LET d == [c EXCEPT !.strings = Append(@, s)]
           IN /\ Adds(c, d) /\ d.buf = c.buf /\ d.traits = c.traits /\ d.thrown = c.thrown
              /\ d.sound = c.sound /\ d.strings = Append(c.strings, s)
              /\ Len(d.strings) = Len(c.strings) + 1
              /\ \A i \in 1 .. Len(c.strings) : d.strings[i] = c.strings[i]
              /\ d.strings[Len(c.strings) + 1] = s
  <1> DEFINE t == Append(c.strings, s)
             d == [c EXCEPT !.strings = Append(@, s)]
  <1>1. d = [c EXCEPT !.strings = t]
    OBVIOUS
  <1>2. /\ IsSeq(t) /\ Len(t) = Len(c.strings) + 1 /\ Len(c.strings) \in Nat
        /\ \A i \in 1 .. Len(c.strings) : t[i] = c.strings[i]
        /\ t[Len(c.strings) + 1] = s
    BY WritesIs, SeqAppend
  <1>3. t \in Seq(Strings \ {<<>>})
    BY DEF Writes
  <1> HIDE DEF t
  <1>4. /\ DOMAIN d = CFields /\ d.buf = c.buf /\ d.strings = t /\ d.traits = c.traits
        /\ d.objects = c.objects /\ d.todo = c.todo /\ d.thrown = c.thrown
        /\ d.drifted = c.drifted /\ d.sound = c.sound
    BY <1>1, CFieldsAre DEF Writes
  <1> HIDE DEF d
  <1>5. \A i \in 1 .. Len(d.todo) : Frame(d, d.todo[i])
    BY <1>4 DEF Writes, Frame
  <1>6. \A i \in 1 .. Len(d.traits) :
          /\ \E n \in Nodes : d.traits[i] = Traits(n)
          /\ d.traits[i].name = <<>> \/ \E j \in 1 .. Len(d.strings) : d.strings[j] = d.traits[i].name
    <2>1. ASSUME NEW i \in 1 .. Len(c.traits), c.traits[i].name # <<>>
          PROVE  \E j \in 1 .. Len(t) : t[j] = c.traits[i].name
      <3>1. PICK j \in 1 .. Len(c.strings) : c.strings[j] = c.traits[i].name
        BY <2>1 DEF Writes
      <3>2. j \in 1 .. Len(t)
        BY <1>2
      <3> QED BY <1>2, <3>1, <3>2
    <2>2. \A i \in 1 .. Len(c.traits) : \E n \in Nodes : c.traits[i] = Traits(n)
      BY DEF Writes
    <2> QED BY <1>4, <2>1, <2>2
  <1>7. Writes(d)
    BY <1>3, <1>4, <1>5, <1>6 DEF Writes
  <1>8. Grows(c, d)
    <2>1. Begins(c.buf, c.buf)
      BY BeginsSelf DEF Writes
    <2> QED BY <1>4, <2>1 DEF Grows
  <1> QED BY <1>2, <1>4, <1>7, <1>8 DEF Adds, t, d

\* The strings of d are those of c, and more.
Knows(c, d) == /\ Len(c.strings) <= Len(d.strings)
               /\ \A i \in 1 .. Len(c.strings) : d.strings[i] = c.strings[i]

LEMMA KnowsOn ==
    ASSUME NEW c, NEW d, NEW e, Writes(c), Writes(d), Writes(e), Knows(c, d), Knows(d, e)
    PROVE  Knows(c, e)
  <1>1. Len(c.strings) \in Nat /\ Len(d.strings) \in Nat /\ Len(e.strings) \in Nat
    BY WritesIs
  <1>2. Len(c.strings) <= Len(e.strings)
    BY <1>1 DEF Knows
  <1>3. \A i \in 1 .. Len(c.strings) : e.strings[i] = c.strings[i]
    <2>1. ASSUME NEW i \in 1 .. Len(c.strings) PROVE e.strings[i] = c.strings[i]
      <3>1. i \in 1 .. Len(d.strings)
        BY <1>1 DEF Knows
      <3> QED BY <3>1 DEF Knows
    <2> QED BY <2>1
  <1> QED BY <1>2, <1>3 DEF Knows

\* The byte of a reference to the place i, and a string behind its length
ByteOf(i)  == <<((i - 1) * 2) % 256>>
Spelled(s) == LengthBytes(Len(s)) \o s

LEMMA WriteStringEmpty ==
    ASSUME NEW c, Writes(c), ~c.thrown, NEW s, s = <<>>
    PROVE  LET d == WriteString(s, c)
           IN /\ Adds(c, d) /\ d.traits = c.traits /\ d.strings = c.strings
              /\ d.buf = c.buf \o <<1>> /\ ~d.thrown /\ d.sound = c.sound
              /\ Len(d.buf) = Len(c.buf) + 1
  <1>1. WriteString(s, c) = Emit(c, <<1>>)
    <2>1. /\ Len(c.strings) \in Nat
          /\ \A i \in 1 .. Len(c.strings) : c.strings[i] # s
      BY WritesIs
    <2>2. StringIndex(s, c) = 0
      BY <2>1, StringIndexIs
    <2> QED BY <2>2 DEF WriteString
  <1>2. <<1>> \in Strings /\ Len(<<1>>) = 1
    BY SmallIsByte, ByteIsString
  <1> DEFINE b == <<1>>
             e == Emit(c, b)
  <1>3. b \in Strings /\ Len(b) = 1
    BY <1>2
  <1> HIDE DEF b
  <1>4. /\ Adds(c, e) /\ e.traits = c.traits /\ e.strings = c.strings
        /\ e.buf = c.buf \o b /\ e.thrown = c.thrown /\ e.sound = c.sound
        /\ Len(e.buf) = Len(c.buf) + Len(b)
    BY <1>3, EmitAdds
  <1>5. WriteString(s, c) = e
    BY <1>1 DEF b
  <1> HIDE DEF e
  <1>6. e.buf = c.buf \o <<1>>
    BY <1>4 DEF b
  <1> QED BY <1>3, <1>4, <1>5, <1>6

LEMMA WriteStringOld ==
    ASSUME NEW c, Writes(c), ~c.thrown, NEW s \in Strings, s # <<>>, StringIndex(s, c) # 0,
           NEW d, d = WriteString(s, c)
    PROVE  LET i == StringIndex(s, c)
           IN /\ Adds(c, d) /\ d.traits = c.traits /\ d.strings = c.strings
              /\ i \in 1 .. Len(c.strings) /\ c.strings[i] = s
              /\ d.buf = c.buf \o ByteOf(i) /\ ~d.thrown
              /\ d.sound = (c.sound /\ i - 1 < 64 /\ ~c.drifted)
              /\ Len(d.buf) = Len(c.buf) + 1
  <1> DEFINE i == StringIndex(s, c)
             b == ByteOf(i)
             x == i - 1 < 64
  <1>1. i \in 1 .. Len(c.strings) /\ c.strings[i] = s /\ i \in Int
    <2>1. Len(c.strings) \in Nat
      BY WritesIs
    <2> QED BY <2>1, StringIndexIs
  <1> HIDE DEF i
  <1>2. WriteString(s, c) = EmitReference(c, <<>>, i - 1)
    <2>1. i - 1 >= 0
      BY <1>1
    <2>2. s # <<>>
      OBVIOUS
    <2> QED BY <2>1, <2>2 DEF WriteString, i
  <1>3. EmitReference(c, <<>>, i - 1) = EmitIndex(c, b, x)
    <2>1. <<>> \o <<((i - 1) * 2) % 256>> = <<((i - 1) * 2) % 256>>
      OBVIOUS
    <2> QED BY <2>1 DEF EmitReference, ByteOf
  <1>4. b \in Strings /\ Len(b) = 1
    <2>1. ((i - 1) * 2) % 256 \in Bytes
      BY <1>1, SmallIsByte
    <2> QED BY <2>1, ByteIsString DEF ByteOf
  <1> HIDE DEF b, x
  <1>6. d = EmitIndex(c, b, x)
    BY <1>2, <1>3
  <1>5. /\ Adds(c, d)
        /\ d.buf = c.buf \o b /\ d.strings = c.strings /\ d.traits = c.traits
        /\ d.thrown = c.thrown /\ (d.sound = (c.sound /\ x /\ ~c.drifted))
        /\ Len(d.buf) = Len(c.buf) + Len(b)
    <2>1. b \in Strings /\ Writes(c)
      BY <1>4
    <2> QED BY ONLY <1>6, <2>1, EmitIndexAdds
  <1> QED BY <1>1, <1>4, <1>5 DEF b, x, i

StringAdded(s, c, d) ==
    LET l == LengthBytes(Len(s))
    IN /\ Adds(c, d) /\ d.traits = c.traits /\ d.strings = Append(c.strings, s)
       /\ Knows(c, d)
       /\ \E j \in 1 .. Len(d.strings) : d.strings[j] = s
       /\ Len(d.strings) = Len(c.strings) + 1
       /\ \A i \in 1 .. Len(c.strings) : c.strings[i] # s
       /\ d.sound = c.sound
       /\ d.thrown = (Len(s) >= MaxLength)
       /\ ~d.thrown => /\ Len(s) < LengthLimit
                       /\ d.buf = c.buf \o Spelled(s)
                       /\ Len(d.buf) = Len(c.buf) + Len(l) + Len(s)
                       /\ Len(l) \in 1 .. 4 /\ l \in Strings

LEMMA WriteStringNew ==
    ASSUME NEW c, Writes(c), ~c.thrown, NEW s \in Strings, s # <<>>, StringIndex(s, c) = 0,
           NEW d, d = WriteString(s, c)
    PROVE  StringAdded(s, c, d)
  <1> DEFINE m == <<>>
             l == LengthBytes(Len(s))
             a == [c EXCEPT !.strings = Append(@, s)]
             e == EmitLength(a, m, Len(s))
             f == Emit(e, s)
  <1>1. d = f
    BY DEF WriteString
  <1>2. Len(s) \in Nat /\ m \in Strings /\ Len(m) = 0 /\ s \in Strings
    <2>1. m \in Strings /\ Len(m) = 0
      BY DEF Strings
    <2>2. s \in Strings
      OBVIOUS
    <2> QED BY <2>1, <2>2, StringHas
  <1>13. \A t : IsSeq(t) => m \o t = t
    BY DEF IsSeq
  <1> HIDE DEF m
  <1>3. /\ Adds(c, a) /\ a.buf = c.buf /\ a.traits = c.traits /\ a.thrown = c.thrown
        /\ a.sound = c.sound /\ a.strings = Append(c.strings, s)
        /\ Len(a.strings) = Len(c.strings) + 1
        /\ \A i \in 1 .. Len(c.strings) : a.strings[i] = c.strings[i]
        /\ a.strings[Len(c.strings) + 1] = s
    BY AppendAdds
  <1> HIDE DEF a
  <1>4. Writes(a)
    BY <1>3 DEF Adds
  <1>5. /\ Adds(a, e) /\ e.strings = a.strings /\ e.traits = a.traits
        /\ e.sound = a.sound
        /\ Len(s) >= MaxLength => e.thrown
        /\ Len(s) < MaxLength => /\ e.buf = a.buf \o (m \o LengthBytes(Len(s))) /\ e.thrown = a.thrown
                                 /\ Len(s) < LengthLimit
                                 /\ Len(e.buf) = Len(a.buf) + Len(m) + Len(LengthBytes(Len(s)))
    <2>1. m \in Strings /\ Len(s) \in Nat
      BY <1>2
    <2> QED BY ONLY <1>4, <2>1, EmitLengthAdds
  <1> HIDE DEF e
  <1>6. Writes(e)
    BY <1>5 DEF Adds
  <1>7. /\ Adds(e, f)
        /\ f.buf = e.buf \o s /\ f.strings = e.strings /\ f.traits = e.traits
        /\ f.thrown = e.thrown /\ f.sound = e.sound
        /\ Len(f.buf) = Len(e.buf) + Len(s)
    BY <1>2, <1>6, EmitAdds
  <1> HIDE DEF f
  <1> USE <1>1
  <1>8. Adds(c, d)
    <2>1. Adds(c, e)
      BY <1>3, <1>5, AddsOn
    <2> QED BY <2>1, <1>7, AddsOn
  <1>9. Len(c.strings) \in Nat /\ Len(c.buf) \in Nat /\ IsSeq(c.buf)
    BY WritesIs
  <1>10. Knows(c, d) /\ \E j \in 1 .. Len(d.strings) : d.strings[j] = s
    <2>1. Knows(c, d)
      BY <1>3, <1>5, <1>7, <1>9 DEF Knows
    <2>2. Len(c.strings) + 1 \in 1 .. Len(d.strings)
      BY <1>3, <1>5, <1>7, <1>9
    <2> QED BY <1>3, <1>5, <1>7, <2>1, <2>2
  <1>11. \A i \in 1 .. Len(c.strings) : c.strings[i] # s
    BY <1>9, StringIndexIs
  <1>14. d.thrown = (Len(s) >= MaxLength)
    <2>0. MaxLength \in Int
      <3>1. LengthLimit \in Int
        BY SMT DEF LengthLimit
      <3>2. MaxLength \in 0 .. LengthLimit
        BY AMF3Assumption
      <3> QED BY <3>1, <3>2
    <2>1. d.thrown \in BOOLEAN /\ d.thrown = e.thrown
      BY <1>7, <1>8 DEF Adds, Writes
    <2>2. CASE Len(s) >= MaxLength
      BY <1>5, <2>1, <2>2
    <2>3. CASE ~(Len(s) >= MaxLength)
      <3>1. Len(s) < MaxLength
        BY <1>2, <2>0, <2>3
      <3> QED BY <1>3, <1>5, <2>1, <2>3, <3>1
    <2> QED BY <2>2, <2>3
  <1>12. ASSUME ~d.thrown
         PROVE  /\ Len(s) < LengthLimit /\ d.buf = c.buf \o Spelled(s)
                /\ Len(d.buf) = Len(c.buf) + Len(l) + Len(s)
                /\ Len(l) \in 1 .. 4 /\ l \in Strings
    <2>0. MaxLength \in Int
      <3>1. LengthLimit \in Int
        BY SMT DEF LengthLimit
      <3>2. MaxLength \in 0 .. LengthLimit
        BY AMF3Assumption
      <3> QED BY <3>1, <3>2
    <2>1. Len(s) < MaxLength
      BY <1>2, <1>5, <1>7, <1>12, <2>0
    <2>2. Len(s) < LengthLimit
      BY <1>5, <2>1
    <2>3. l \in Strings /\ Len(l) \in 1 .. 4
      BY <1>2, <2>2, LengthIsString, SMT DEF LengthLimit
    <2> HIDE DEF l
    <2>4. IsSeq(l) /\ IsSeq(s) /\ Len(l) \in Nat /\ m \o l = l
      BY <2>3, <1>2, <1>13, StringHas
    <2>5. e.buf = c.buf \o l /\ Len(e.buf) = Len(c.buf) + Len(l)
      BY <1>2, <1>3, <1>5, <1>9, <2>1, <2>4 DEF l
    <2>6. (c.buf \o l) \o s = c.buf \o (l \o s)
      <3>1. c.buf \in Strings /\ l \in Strings /\ s \in Strings
        BY <1>2, <2>3 DEF Writes
      <3> QED BY <3>1, ConcatThree
    <2>7. l \o s = Spelled(s)
      BY DEF Spelled, l
    <2> QED BY <1>7, <2>2, <2>3, <2>5, <2>6, <2>7
  <1> QED BY <1>1, <1>3, <1>5, <1>7, <1>8, <1>10, <1>11, <1>12, <1>14 DEF l, StringAdded

LEMMA WriteStringAdds ==
    ASSUME NEW c, Writes(c), NEW s \in Strings, NEW d, d = WriteString(s, c)
    PROVE  /\ Adds(c, d) /\ d.traits = c.traits /\ Knows(c, d)
           /\ ~d.thrown => /\ Len(d.buf) >= Len(c.buf) + 1
                           /\ s = <<>> \/ \E j \in 1 .. Len(d.strings) : d.strings[j] = s
           /\ c.thrown => d = c
  <1>0. Len(c.buf) \in Nat /\ Len(c.strings) \in Nat
    BY WritesIs
  <1>1. CASE c.thrown
    <2>1. d = c
      BY <1>1 DEF WriteString
    <2>2. Knows(c, c)
      BY <1>0 DEF Knows
    <2> QED BY <1>1, <2>1, <2>2, AddsSelf
  <1>2. CASE ~c.thrown /\ s = <<>>
    <2>1. Adds(c, d) /\ d.traits = c.traits /\ d.strings = c.strings /\ Len(d.buf) = Len(c.buf) + 1
      BY <1>2, WriteStringEmpty
    <2>2. Knows(c, d)
      BY <1>0, <2>1 DEF Knows
    <2>3. Len(d.buf) >= Len(c.buf) + 1
      BY <1>0, <2>1
    <2> QED BY <1>2, <2>1, <2>2, <2>3
  <1>3. CASE ~c.thrown /\ s # <<>> /\ StringIndex(s, c) # 0
    <2>1. /\ Adds(c, d) /\ d.traits = c.traits /\ d.strings = c.strings /\ Len(d.buf) = Len(c.buf) + 1
          /\ \E i \in 1 .. Len(c.strings) : c.strings[i] = s
      <3>2. /\ Adds(c, d) /\ d.traits = c.traits /\ d.strings = c.strings
            /\ Len(d.buf) = Len(c.buf) + 1
            /\ StringIndex(s, c) \in 1 .. Len(c.strings) /\ c.strings[StringIndex(s, c)] = s
        BY <1>3, WriteStringOld
      <3> QED BY ONLY <3>2
    <2>2. Knows(c, d)
      BY <1>0, <2>1 DEF Knows
    <2>3. Len(d.buf) >= Len(c.buf) + 1
      BY <1>0, <2>1
    <2> QED BY <1>3, <2>1, <2>2, <2>3
  <1>4. CASE ~c.thrown /\ s # <<>> /\ StringIndex(s, c) = 0
    <2> DEFINE l == LengthBytes(Len(s))
    <2>1. /\ Adds(c, d) /\ d.traits = c.traits /\ Knows(c, d)
          /\ \E j \in 1 .. Len(d.strings) : d.strings[j] = s
          /\ ~d.thrown => /\ Len(d.buf) = Len(c.buf) + Len(l) + Len(s)
                          /\ Len(l) \in 1 .. 4
      <3>1. StringAdded(s, c, d)
        BY <1>4, WriteStringNew
      <3> QED BY <3>1 DEF StringAdded
    <2> HIDE DEF l
    <2>2. Len(s) \in Nat
      BY StringHas
    <2>3. ~d.thrown => Len(d.buf) >= Len(c.buf) + 1
      <3> DEFINE x == Len(d.buf)
                 y == Len(c.buf)
                 u == Len(l)
                 v == Len(s)
      <3>1. ~d.thrown => x = y + u + v /\ u \in 1 .. 4
        BY <2>1
      <3>2. y \in Nat /\ v \in Nat
        BY <1>0, <2>2
      <3> HIDE DEF x, y, u, v
      <3>3. ~d.thrown => x >= y + 1
        BY <3>1, <3>2
      <3> QED BY <3>3 DEF x, y
    <2> QED BY <1>4, <2>1, <2>3
  <1> QED BY <1>1, <1>2, <1>3, <1>4

-----------------------------------------------------------------------------
(* What the calls leave, under a name.                                     *)

Emitted(c, b, d) ==
    /\ Adds(c, d) /\ d.buf = c.buf \o b /\ d.strings = c.strings /\ d.traits = c.traits
    /\ d.thrown = c.thrown /\ d.sound = c.sound

LEMMA EmittedIs ==
    ASSUME NEW c, Writes(c), NEW b \in Strings, NEW d, d = Emit(c, b)
    PROVE  Emitted(c, b, d)
  BY EmitAdds DEF Emitted

Indexed(c, b, room, d) ==
    /\ Adds(c, d) /\ d.buf = c.buf \o b /\ d.strings = c.strings /\ d.traits = c.traits
    /\ d.thrown = c.thrown /\ (d.sound => c.sound /\ room /\ ~c.drifted)
    /\ d.sound = (c.sound /\ room /\ ~c.drifted)

LEMMA IndexedIs ==
    ASSUME NEW c, Writes(c), NEW b \in Strings, NEW room, NEW d, d = EmitIndex(c, b, room)
    PROVE  Indexed(c, b, room, d)
  <1>1. Adds(c, d) /\ d.buf = c.buf \o b /\ d.strings = c.strings /\ d.traits = c.traits
    BY EmitIndexAdds
  <1>2. d.thrown = c.thrown
    BY EmitIndexAdds
  <1>3. d.sound = (c.sound /\ room /\ ~c.drifted)
    BY EmitIndexAdds
  <1> QED BY <1>1, <1>2, <1>3 DEF Indexed

Measured(c, m, n, d) ==
    /\ Adds(c, d) /\ d.strings = c.strings /\ d.traits = c.traits /\ d.sound = c.sound
    /\ ~d.thrown => /\ d.buf = c.buf \o (m \o LengthBytes(n)) /\ ~c.thrown
                    /\ n < LengthLimit

LEMMA MaxLengthIs ==
    MaxLength \in Int /\ MaxLength <= LengthLimit /\ LengthLimit \in Int
  <1>1. LengthLimit \in Int
    BY SMT DEF LengthLimit
  <1>2. MaxLength \in 0 .. LengthLimit
    BY AMF3Assumption
  <1> QED BY <1>1, <1>2

LEMMA MeasuredIs ==
    ASSUME NEW c, Writes(c), NEW m \in Strings, NEW n \in Nat, NEW d, d = EmitLength(c, m, n)
    PROVE  Measured(c, m, n, d)
  <1>1. CASE n >= MaxLength
    BY <1>1, EmitLengthAdds DEF Measured
  <1>2. CASE n < MaxLength
    BY <1>2, EmitLengthAdds DEF Measured
  <1> QED BY <1>1, <1>2, MaxLengthIs

StringNone(c, d) ==
    /\ Adds(c, d) /\ d.traits = c.traits /\ d.strings = c.strings
    /\ d.buf = c.buf \o <<1>> /\ ~d.thrown /\ d.sound = c.sound

StringOld(s, c, i, d) ==
    /\ Adds(c, d) /\ d.traits = c.traits /\ d.strings = c.strings
    /\ i \in 1 .. Len(c.strings) /\ c.strings[i] = s
    /\ d.buf = c.buf \o ByteOf(i) /\ ~d.thrown
    /\ d.sound = (c.sound /\ i - 1 < 64 /\ ~c.drifted)

StringNew(s, c, d) ==
    /\ Adds(c, d) /\ d.traits = c.traits /\ d.strings = Append(c.strings, s)
    /\ \A i \in 1 .. Len(c.strings) : c.strings[i] # s
    /\ d.sound = c.sound
    /\ d.thrown = (Len(s) >= MaxLength)
    /\ ~d.thrown => /\ Len(s) < LengthLimit
                    /\ d.buf = c.buf \o Spelled(s)
                    /\ LengthBytes(Len(s)) \in Strings

\* A string is written in one of three ways.
LEMMA StringIsWritten ==
    ASSUME NEW c, Writes(c), ~c.thrown, NEW s \in Strings, NEW d, d = WriteString(s, c)
    PROVE  \/ s = <<>> /\ StringNone(c, d)
           \/ s # <<>> /\ StringIndex(s, c) # 0 /\ StringOld(s, c, StringIndex(s, c), d)
           \/ s # <<>> /\ StringIndex(s, c) = 0 /\ StringNew(s, c, d)
  <1>1. CASE s = <<>>
    <2>1. StringNone(c, WriteString(s, c))
      BY <1>1, WriteStringEmpty DEF StringNone
    <2> QED BY <1>1, <2>1
  <1>2. CASE s # <<>> /\ StringIndex(s, c) # 0
    <2>1. StringOld(s, c, StringIndex(s, c), d)
      BY <1>2, WriteStringOld DEF StringOld
    <2> QED BY <1>2, <2>1
  <1>3. CASE s # <<>> /\ StringIndex(s, c) = 0
    <2>1. StringNew(s, c, d)
      <3>1. StringAdded(s, c, d)
        BY <1>3, WriteStringNew
      <3> QED BY <3>1 DEF StringNew, StringAdded
    <2> QED BY <1>3, <2>1
  <1> QED BY <1>1, <1>2, <1>3

Stringed(s, c, d) ==
    /\ Adds(c, d) /\ d.traits = c.traits /\ Knows(c, d)
    /\ ~d.thrown => s = <<>> \/ \E j \in 1 .. Len(d.strings) : d.strings[j] = s

LEMMA StringedIs ==
    ASSUME NEW c, Writes(c), NEW s \in Strings, NEW d, d = WriteString(s, c)
    PROVE  Stringed(s, c, d)
  BY WriteStringAdds DEF Stringed

\* The strings are written one after the other.
LEMMA StringsComputed ==
    ASSUME NEW names, NEW c, NEW k \in Nat, k = Len(names)
    PROVE  \E run : /\ run[0] = c
                    /\ \A i \in 1 .. k : run[i] = WriteString(names[i], run[i - 1])
                    /\ WriteStrings(names, c) = run[k]
  <1> DEFINE n == k
             F(f, m) == f = [i \in 0 .. m |-> IF i = 0 THEN c ELSE WriteString(names[i], f[i - 1])]
             T == {m \in Nat : \E f : F(f, m)}
  <1>0. n \in Nat
    OBVIOUS
  <1>1. 0 \in T
    <2> DEFINE f == [i \in 0 .. 0 |-> c]
    <2>1. F(f, 0)
      OBVIOUS
    <2> QED BY <2>1
  <1>2. ASSUME NEW m \in Nat, m \in T PROVE m + 1 \in T
    <2>1. PICK f : F(f, m)
      BY <1>2
    <2> DEFINE g == [i \in 0 .. m + 1 |-> IF i <= m THEN f[i] ELSE WriteString(names[m + 1], f[m])]
    <2>2. \A i \in 0 .. m : g[i] = f[i]
      OBVIOUS
    <2>3. g[m + 1] = WriteString(names[m + 1], f[m])
      OBVIOUS
    <2>4. ASSUME NEW i \in 0 .. m + 1
          PROVE  g[i] = IF i = 0 THEN c ELSE WriteString(names[i], g[i - 1])
      <3>1. CASE i <= m
        <4>1. f[i] = IF i = 0 THEN c ELSE WriteString(names[i], f[i - 1])
          BY <2>1, <3>1
        <4>2. i # 0 => i - 1 \in 0 .. m
          BY <3>1
        <4> HIDE DEF g
        <4> QED BY <2>2, <3>1, <4>1, <4>2
      <3>2. CASE i = m + 1
        <4>1. i # 0 /\ i - 1 = m /\ m \in 0 .. m
          BY <3>2
        <4> HIDE DEF g
        <4> QED BY <2>2, <2>3, <3>2, <4>1
      <3> QED BY <3>1, <3>2
    <2>5. F(g, m + 1)
      BY <2>4
    <2> HIDE DEF F, g
    <2>6. \E h : F(h, m + 1)
      BY <2>5
    <2> QED BY <2>6
  <1> HIDE DEF T
  <1>3. Nat \subseteq T
    BY <1>1, <1>2, Induct
  <1>4. \E f : F(f, n)
    BY <1>0, <1>3 DEF T
  <1> DEFINE run == CHOOSE f : F(f, n)
  <1>5. F(run, n)
    BY <1>4
  <1>6. WriteStrings(names, c) = run[n]
    BY DEF WriteStrings
  <1>7. run[0] = c /\ \A i \in 1 .. n : run[i] = WriteString(names[i], run[i - 1])
    <2> HIDE DEF run, n
    <2>1. 0 \in 0 .. n /\ \A i \in 1 .. n : i \in 0 .. n /\ i # 0
      BY <1>0
    <2> QED BY <1>5, <2>1
  <1> HIDE DEF run
  <1> QED BY <1>6, <1>7

LEMMA WriteStringsAdds ==
    ASSUME NEW c, Writes(c), NEW names \in Seq(Strings), NEW d, d = WriteStrings(names, c)
    PROVE  /\ Adds(c, d) /\ d.traits = c.traits /\ Knows(c, d)
           /\ ~d.thrown => Len(d.buf) >= Len(c.buf) + Len(names)
  <1> DEFINE k == Len(names)
  <1>1. k \in Nat /\ \A i \in 1 .. k : names[i] \in Strings
    OBVIOUS
  <1> HIDE DEF k
  <1>2. PICK run : /\ run[0] = c
                   /\ \A i \in 1 .. k : run[i] = WriteString(names[i], run[i - 1])
                   /\ WriteStrings(names, c) = run[k]
    BY <1>1, StringsComputed DEF k
  <1> DEFINE P(x, i) == /\ Adds(c, x) /\ x.traits = c.traits /\ Knows(c, x)
                        /\ ~x.thrown => Len(x.buf) >= Len(c.buf) + i
             T == {i \in Nat : i <= k => P(run[i], i)}
  <1>3. 0 \in T
    <2>1. Adds(c, c) /\ Len(c.buf) \in Nat /\ Len(c.strings) \in Nat
      BY AddsSelf, WritesIs
    <2>2. P(c, 0)
      BY <2>1 DEF Knows
    <2> QED BY <1>2, <2>2
  <1> HIDE DEF P
  <1>4. ASSUME NEW i \in Nat, i \in T PROVE i + 1 \in T
    <2>1. SUFFICES ASSUME i + 1 <= k PROVE P(run[i + 1], i + 1)
      OBVIOUS
    <2> DEFINE a == run[i]
               b == run[i + 1]
               s == names[i + 1]
    <2>2. i + 1 \in 1 .. k /\ (i + 1) - 1 = i /\ P(a, i)
      BY <1>1, <1>4, <2>1
    <2>3. b = WriteString(s, a) /\ s \in Strings
      BY <1>1, <1>2, <2>2
    <2> HIDE DEF a, b, s
    <2>4. Writes(a)
      BY <2>2 DEF Adds, P
    <2>5. /\ Adds(a, b) /\ b.traits = a.traits /\ Knows(a, b)
          /\ ~b.thrown => Len(b.buf) >= Len(a.buf) + 1
      BY <2>3, <2>4, WriteStringAdds
    <2>6. Writes(b)
      BY <2>5 DEF Adds
    <2>7. Adds(c, b) /\ Knows(c, b) /\ b.traits = c.traits
      BY <2>2, <2>4, <2>5, <2>6, AddsOn, KnowsOn DEF P
    <2>8. ~b.thrown => Len(b.buf) >= Len(c.buf) + (i + 1)
      <3>1. ~b.thrown => ~a.thrown
        BY <2>5 DEF Adds, Grows
      <3>2. Len(a.buf) \in Nat /\ Len(b.buf) \in Nat /\ Len(c.buf) \in Nat
        BY <2>4, <2>6, WritesIs
      <3> DEFINE x == Len(a.buf)
                 y == Len(b.buf)
                 z == Len(c.buf)
      <3>3. x \in Nat /\ y \in Nat /\ z \in Nat
        BY <3>2
      <3>4. ~b.thrown => y >= x + 1 /\ x >= z + i
        BY <2>2, <2>5, <3>1 DEF P
      <3> HIDE DEF x, y, z
      <3>5. ~b.thrown => y >= z + (i + 1)
        BY <3>3, <3>4
      <3> QED BY <3>5 DEF y, z
    <2> QED BY <2>7, <2>8 DEF b, P
  <1> HIDE DEF T
  <1>5. Nat \subseteq T
    BY <1>3, <1>4, Induct
  <1>6. P(run[k], k)
    BY <1>1, <1>5 DEF T
  <1>7. d = run[k]
    BY <1>2
  <1> QED BY <1>6, <1>7 DEF P, k

\* The bytes are exchanged for others.
LEMMA RebufIs ==
    ASSUME NEW c, Writes(c), NEW b \in Strings, NEW d, d = [c EXCEPT !.buf = b]
    PROVE  /\ Writes(d) /\ d.buf = b /\ d.strings = c.strings /\ d.traits = c.traits
           /\ d.objects = c.objects /\ d.todo = c.todo /\ d.thrown = c.thrown
           /\ d.drifted = c.drifted /\ d.sound = c.sound
  <1>1. /\ DOMAIN d = CFields /\ d.buf = b /\ d.strings = c.strings /\ d.traits = c.traits
        /\ d.objects = c.objects /\ d.todo = c.todo /\ d.thrown = c.thrown
        /\ d.drifted = c.drifted /\ d.sound = c.sound
    BY CFieldsAre DEF Writes
  <1>2. \A i \in 1 .. Len(d.todo) : Frame(d, d.todo[i])
    BY <1>1 DEF Writes, Frame
  <1>3. Writes(d)
    BY <1>1, <1>2 DEF Writes
  <1> QED BY <1>1, <1>3

-----------------------------------------------------------------------------
(* The traits of an object.                                                *)

AttrNames(n) == Sorted(ToSet(n.attrs))

TraitsMark(n) == IF "externalizable" \in n.flags THEN <<7>>
                 ELSE IntegerBytes(Len(AttrNames(n)) * 16 + 3
                                       + IF "dynamic" \in n.flags THEN 8 ELSE 0)

TraitsByte(i) == <<((i - 1) * 4 + 1) % 256>>

LEMMA AttrNamesAre ==
    ASSUME NEW n \in Nodes
    PROVE  /\ AttrNames(n) \in Seq(Strings) /\ IsSeq(AttrNames(n))
           /\ Len(AttrNames(n)) \in Nat /\ Len(AttrNames(n)) < AttrsLimit
           /\ ToSet(AttrNames(n)) = ToSet(n.attrs)
           /\ "externalizable" \in n.flags => Len(AttrNames(n)) = 0
  <1>1. n.attrs \in Seq(Strings) /\ Len(n.attrs) < AttrsLimit
    BY NodeIs DEF ItemOf
  <1>2. /\ IsFiniteSet(ToSet(n.attrs)) /\ ToSet(n.attrs) \in SUBSET Strings
        /\ Cardinality(ToSet(n.attrs)) \in Nat /\ Cardinality(ToSet(n.attrs)) <= Len(n.attrs)
    BY <1>1, AttrsAreFinite
  <1>3. /\ AttrNames(n) \in Seq(ToSet(n.attrs)) /\ IsSeq(AttrNames(n))
        /\ Len(AttrNames(n)) = Cardinality(ToSet(n.attrs))
        /\ ToSet(AttrNames(n)) = ToSet(n.attrs)
    BY <1>2, SortedIs DEF AttrNames
  <1>4. AttrNames(n) \in Seq(Strings)
    BY <1>2, <1>3
  <1>5. Len(AttrNames(n)) < AttrsLimit
    <2>1. AttrsLimit \in Int
      BY SMT DEF AttrsLimit
    <2>2. Len(n.attrs) \in Nat
      BY <1>1
    <2> QED BY <1>1, <1>2, <1>3, <2>1, <2>2
  <1>6. ASSUME "externalizable" \in n.flags PROVE Len(AttrNames(n)) = 0
    <2>1. n.attrs = <<>>
      BY <1>6, NodeIs DEF ItemOf
    <2>2. Len(n.attrs) = 0
      BY <2>1
    <2> QED BY <1>2, <1>3, <2>2
  <1> QED BY <1>2, <1>3, <1>4, <1>5, <1>6

LEMMA TraitsMarkIs ==
    ASSUME NEW n \in Nodes
    PROVE  TraitsMark(n) \in Strings /\ Len(TraitsMark(n)) \in 1 .. 4
  <1>1. CASE "externalizable" \in n.flags
    BY <1>1, SmallIsByte, ByteIsString DEF TraitsMark
  <1>2. CASE "externalizable" \notin n.flags
    <2> DEFINE m == Len(AttrNames(n))
               v == m * 16 + 3 + IF "dynamic" \in n.flags THEN 8 ELSE 0
    <2>1. m \in Nat /\ m < AttrsLimit
      BY AttrNamesAre
    <2> HIDE DEF m
    <2>2. v \in Int /\ InRange(v)
      BY <2>1, SMT DEF InRange, AttrsLimit
    <2>3. TraitsMark(n) = IntegerBytes(v)
      BY <1>2 DEF TraitsMark, m
    <2> HIDE DEF v
    <2> QED BY <2>2, <2>3, IntegerIsString
  <1> QED BY <1>1, <1>2

\* The traits are known from then on.
Traited(c, n, b) == [c EXCEPT !.traits = Append(@, Traits(n)), !.buf = b]

Titled(c, n, b, d) ==
    /\ Writes(d) /\ d.buf = b /\ d.strings = c.strings /\ d.traits = Append(c.traits, Traits(n))
    /\ d.objects = c.objects /\ d.todo = c.todo /\ d.thrown = c.thrown
    /\ d.drifted = c.drifted /\ d.sound = c.sound

LEMMA AddTraits ==
    ASSUME NEW c, Writes(c), NEW n \in Nodes, NEW b \in Strings,
           n.name = <<>> \/ \E j \in 1 .. Len(c.strings) : c.strings[j] = n.name,
           NEW d, d = Traited(c, n, b)
    PROVE  Titled(c, n, b, d)
  <1> DEFINE x == Traits(n)
             t == Append(c.traits, x)
  <1>1. /\ IsSeq(t) /\ Len(t) = Len(c.traits) + 1 /\ Len(c.traits) \in Nat
        /\ \A i \in 1 .. Len(c.traits) : t[i] = c.traits[i]
        /\ t[Len(c.traits) + 1] = x
    BY WritesIs, SeqAppend DEF Writes
  <1>2. d = [c EXCEPT !.traits = t, !.buf = b]
    BY DEF Traited
  <1> HIDE DEF t
  <1>3. /\ DOMAIN d = CFields /\ d.buf = b /\ d.strings = c.strings /\ d.traits = t
        /\ d.objects = c.objects /\ d.todo = c.todo /\ d.thrown = c.thrown
        /\ d.drifted = c.drifted /\ d.sound = c.sound
    BY <1>2, CFieldsAre DEF Writes
  <1>4. \A i \in 1 .. Len(d.todo) : Frame(d, d.todo[i])
    BY <1>3 DEF Writes, Frame
  <1>5. x.name = n.name
    BY DEF Traits
  <1> HIDE DEF x
  <1>6. \A i \in 1 .. Len(t) :
          /\ \E m \in Nodes : t[i] = Traits(m)
          /\ t[i].name = <<>> \/ \E j \in 1 .. Len(c.strings) : c.strings[j] = t[i].name
    <2>1. ASSUME NEW i \in 1 .. Len(t)
          PROVE  /\ \E m \in Nodes : t[i] = Traits(m)
                 /\ t[i].name = <<>> \/ \E j \in 1 .. Len(c.strings) : c.strings[j] = t[i].name
      <3>1. CASE i = Len(c.traits) + 1
        <4>1. t[i] = x /\ \E m \in Nodes : x = Traits(m)
          BY <1>1, <3>1 DEF x
        <4> QED BY <4>1, <1>5
      <3>2. CASE i # Len(c.traits) + 1
        <4>1. i \in 1 .. Len(c.traits)
          BY <1>1, <3>2
        <4> QED BY <1>1, <4>1 DEF Writes
      <3> QED BY <3>1, <3>2
    <2> QED BY <2>1
  <1>7. IsSeq(t)
    BY <1>1
  <1>8. Writes(d)
    <2>1. d.strings \in Seq(Strings \ {<<>>})
      BY <1>3 DEF Writes
    <2>2. \A i \in 1 .. Len(d.traits) :
          /\ \E m \in Nodes : d.traits[i] = Traits(m)
          /\ d.traits[i].name = <<>> \/ \E j \in 1 .. Len(d.strings) : d.strings[j] = d.traits[i].name
      <3>1. d.traits = t /\ d.strings = c.strings
        BY <1>3
      <3> QED BY ONLY <1>6, <3>1
    <2>3. /\ d.thrown \in BOOLEAN /\ d.drifted \in BOOLEAN /\ d.sound \in BOOLEAN
          /\ IsSeq(d.objects) /\ IsSeq(d.todo)
          /\ \A i \in 1 .. Len(d.objects) : d.objects[i].copy \in Nodes
      BY <1>3 DEF Writes
    <2> QED BY <1>3, <1>4, <1>7, <2>1, <2>2, <2>3 DEF Writes
  <1> QED BY <1>3, <1>8 DEF Titled, t, x

-----------------------------------------------------------------------------
(* The pieces of an item.                                                  *)

PieceOK(n, p) ==
    \/ /\ p = Piece("item", p.of) /\ p.of \in PointsTo(n)
    \/ /\ p = Piece("word", p.of) /\ p.of \in PointsTo(n)
       /\ n.type = "dictionary" /\ IsWord(n, p.of) /\ \E q \in n.pairs : q[1] = p.of
    \/ /\ p = Piece("name", p.of) /\ p.of \in Strings
    \/ p = Piece("end", <<>>)
    \/ p = Piece("missing", <<>>)

PiecesOK(n, s) == IsSeq(s) /\ \A i \in 1 .. Len(s) : PieceOK(n, s[i])

LEMMA PiecesConcat ==
    ASSUME NEW n, NEW s, NEW t, PiecesOK(n, s), PiecesOK(n, t)
    PROVE  PiecesOK(n, s \o t)
  <1> DEFINE u == s \o t
  <1>1. /\ IsSeq(u) /\ Len(u) = Len(s) + Len(t)
        /\ \A i \in 1 .. Len(s) : u[i] = s[i]
        /\ \A i \in 1 .. Len(t) : u[Len(s) + i] = t[i]
    BY SeqConcat DEF PiecesOK
  <1>2. Len(s) \in Nat /\ Len(t) \in Nat
    BY SeqHas DEF PiecesOK
  <1> HIDE DEF u
  <1>3. ASSUME NEW i \in 1 .. Len(u) PROVE PieceOK(n, u[i])
    <2>1. CASE i <= Len(s)
      <3>1. i \in 1 .. Len(s)
        BY <1>2, <2>1
      <3> QED BY <1>1, <3>1 DEF PiecesOK
    <2>2. CASE ~(i <= Len(s))
      <3> DEFINE j == i - Len(s)
      <3>1. j \in 1 .. Len(t) /\ i = Len(s) + j
        BY <1>1, <1>2, <2>2
      <3> HIDE DEF j
      <3> QED BY <1>1, <3>1 DEF PiecesOK
    <2> QED BY <2>1, <2>2
  <1> QED BY <1>1, <1>3 DEF PiecesOK, u

LEMMA PiecesAre ==
    ASSUME NEW n \in Nodes, n.type \in Containers
    PROVE  PiecesOK(n, Pieces(n)) /\ Len(Pieces(n)) \in Nat
  <1>1. ItemOf(n)
    BY NodeIs
  <1>2. PiecesOK(n, Members(n.members))
    <2> DEFINE f == n.members
               names == Sorted(DOMAIN f)
               s == Members(f)
    <2>1. MapOf(f) /\ DOMAIN f \in SUBSET Strings
      BY <1>1, MapIs DEF ItemOf
    <2>2. /\ IsSeq(s)
          /\ \A i \in 1 .. Len(s) :
                LET k == names[(i + 1) \div 2]
                IN /\ k \in DOMAIN f
                   /\ s[i] = IF i % 2 = 1 THEN Piece("name", k) ELSE Piece("item", f[k])
      BY <2>1, MembersAre
    <2>3. \A k \in DOMAIN f : f[k] \in PointsTo(n)
      BY PointsToIs
    <2> HIDE DEF f, s
    <2>4. ASSUME NEW i \in 1 .. Len(s) PROVE PieceOK(n, s[i])
      <3> DEFINE k == names[(i + 1) \div 2]
      <3>1. k \in DOMAIN f /\ s[i] = IF i % 2 = 1 THEN Piece("name", k) ELSE Piece("item", f[k])
        BY <2>2
      <3> HIDE DEF k
      <3>2. k \in Strings /\ f[k] \in PointsTo(n)
        BY <2>1, <2>3, <3>1
      <3> DEFINE p == s[i]
      <3>3. p = Piece("name", k) \/ p = Piece("item", f[k])
        BY <3>1
      <3> HIDE DEF p
      <3>4. PieceOK(n, p)
        BY <3>2, <3>3 DEF PieceOK, Piece
      <3> QED BY <3>4 DEF p
    <2> QED BY <2>2, <2>4 DEF PiecesOK, s, f
  <1>3. PiecesOK(n, Items(n.items))
    <2> DEFINE os == n.items
               s == Items(os)
    <2>1. IsSeq(os)
      BY <1>1 DEF ItemOf, IsSeq
    <2>2. IsSeq(s) /\ Len(s) = Len(os) /\ \A i \in 1 .. Len(os) : s[i] = Piece("item", os[i])
      BY <2>1, ItemsAre
    <2>3. \A i \in 1 .. Len(os) : os[i] \in PointsTo(n)
      BY <2>1, PointsToIs, SeqHas
    <2> HIDE DEF os, s
    <2>4. ASSUME NEW i \in 1 .. Len(s) PROVE PieceOK(n, s[i])
      <3> DEFINE p == s[i]
                 o == os[i]
      <3>1. p = Piece("item", o) /\ o \in PointsTo(n)
        BY <2>2, <2>3
      <3> HIDE DEF p, o
      <3>2. PieceOK(n, p)
        BY <3>1 DEF PieceOK, Piece
      <3> QED BY <3>2 DEF p
    <2> QED BY <2>2, <2>4 DEF PiecesOK, s, os
  <1>4. PiecesOK(n, End)
    BY EndIs DEF PiecesOK, PieceOK
  <1>5. PiecesOK(n, Sealed(n))
    <2> DEFINE names == Sorted(ToSet(n.attrs))
               s == Sealed(n)
    <2>1. IsSeq(s) /\ \A i \in 1 .. Len(s) :
                s[i] = IF names[i] \in DOMAIN n.sealed THEN Piece("item", n.sealed[names[i]])
                                                       ELSE Piece("missing", <<>>)
      BY SealedAre
    <2>2. \A k \in DOMAIN n.sealed : n.sealed[k] \in PointsTo(n)
      BY PointsToIs
    <2> HIDE DEF names, s
    <2>3. ASSUME NEW i \in 1 .. Len(s) PROVE PieceOK(n, s[i])
      <3> DEFINE p == s[i]
                 k == names[i]
                 o == n.sealed[k]
      <3>1. p = IF k \in DOMAIN n.sealed THEN Piece("item", o) ELSE Piece("missing", <<>>)
        BY <2>1
      <3>2. k \in DOMAIN n.sealed => o \in PointsTo(n)
        BY <2>2
      <3> HIDE DEF p, k, o
      <3>3. PieceOK(n, p)
        BY <3>1, <3>2 DEF PieceOK, Piece
      <3> QED BY <3>3 DEF p
    <2> QED BY <2>1, <2>3 DEF PiecesOK, s
  <1>6. n.type = "dictionary" => PiecesOK(n, Pairs(n))
    <2> SUFFICES ASSUME n.type = "dictionary" PROVE PiecesOK(n, Pairs(n))
      OBVIOUS
    <2> DEFINE pairs == SetToSeq(n.pairs)
               s == Pairs(n)
    <2>1. /\ IsSeq(s)
          /\ \A i \in 1 .. Len(s) :
                LET p == pairs[(i + 1) \div 2]
                IN /\ p \in n.pairs
                   /\ s[i] = IF i % 2 = 0 THEN Piece("item", p[2])
                             ELSE Piece(IF IsWord(n, p[1]) THEN "word" ELSE "item", p[1])
      BY PairsAre
    <2>2. \A p \in n.pairs : p[1] \in PointsTo(n) /\ p[2] \in PointsTo(n)
      BY PointsToIs
    <2> HIDE DEF pairs, s
    <2>3. ASSUME NEW i \in 1 .. Len(s) PROVE PieceOK(n, s[i])
      <3> DEFINE q == pairs[(i + 1) \div 2]
                 p == s[i]
                 a == q[1]
                 b == q[2]
      <3>1. /\ q \in n.pairs
            /\ p = IF i % 2 = 0 THEN Piece("item", b)
                   ELSE Piece(IF IsWord(n, a) THEN "word" ELSE "item", a)
        BY <2>1
      <3>2. a \in PointsTo(n) /\ b \in PointsTo(n) /\ \E x \in n.pairs : x[1] = a
        BY <2>2, <3>1
      <3>3. \/ p = Piece("item", b) \/ p = Piece("item", a)
            \/ p = Piece("word", a) /\ IsWord(n, a)
        BY <3>1
      <3> HIDE DEF p, q, a, b
      <3>4. PieceOK(n, p)
        BY <3>2, <3>3 DEF PieceOK, Piece
      <3> QED BY <3>4 DEF p
    <2> QED BY <2>1, <2>3 DEF PiecesOK, s
  <1>7. PiecesOK(n, Pieces(n))
    <2> DEFINE m == Members(n.members)
               i == Items(n.items)
               s == Sealed(n)
    <2>1. PiecesOK(n, m \o End) /\ PiecesOK(n, (m \o End) \o i)
      BY <1>2, <1>3, <1>4, PiecesConcat
    <2>2. PiecesOK(n, s \o m) /\ PiecesOK(n, (s \o m) \o End)
      BY <1>2, <1>4, <1>5, PiecesConcat
    <2> HIDE DEF m, i, s
    <2>3. CASE n.type = "array"
      <3>1. Pieces(n) = m \o End \o i
        BY <2>3 DEF Pieces, m, i
      <3> QED BY <2>1, <3>1
    <2>4. CASE n.type = "vectorObject"
      <3>1. Pieces(n) = i
        BY <2>4 DEF Pieces, i
      <3> QED BY <1>3, <3>1 DEF i
    <2>5. CASE n.type = "dictionary"
      <3>1. Pieces(n) = Pairs(n)
        BY <2>5 DEF Pieces
      <3> QED BY <1>6, <2>5, <3>1
    <2>6. CASE n.type = "object"
      <3>1. Pieces(n) = IF "dynamic" \in n.flags THEN s \o m \o End ELSE s
        BY <2>6 DEF Pieces, s, m
      <3> QED BY <1>5, <2>2, <3>1 DEF s
    <2> QED BY <2>3, <2>4, <2>5, <2>6 DEF Containers
  <1> QED BY <1>7, SeqHas DEF PiecesOK

\* What is written of a string does not depend on the bytes before it.
Alike(e, x, y) ==
    /\ y.strings = x.strings /\ y.sound = x.sound /\ y.thrown = x.thrown
    /\ ~x.thrown => y.buf = e.buf \o x.buf

LEMMA WriteStringFrom ==
    ASSUME NEW z, Writes(z), ~z.thrown, z.buf = <<>>, NEW e, Writes(e), ~e.thrown,
           e.strings = z.strings, e.sound = z.sound, e.drifted = z.drifted,
           NEW s \in Strings, NEW x, x = WriteString(s, z), NEW y, y = WriteString(s, e)
    PROVE  Alike(e, x, y)
  <1>1. StringIndex(s, z) = StringIndex(s, e)
    BY DEF StringIndex
  <1>2. \A t \in Strings : z.buf \o t = t
    BY DEF Strings
  <1>b. /\ \A k \in Int : ByteOf(k) \in Strings
        /\ <<1>> \in Strings
    <2>1. ASSUME NEW k \in Int PROVE ByteOf(k) \in Strings
      <3> DEFINE v == (k - 1) * 2
      <3>1. v \in Int
        OBVIOUS
      <3>2. ByteOf(k) = <<v % 256>>
        BY DEF ByteOf
      <3> HIDE DEF v
      <3>3. v % 256 \in Bytes
        BY <3>1, SmallIsByte
      <3> QED BY <3>2, <3>3, ByteIsString
    <2> QED BY <2>1, SmallIsByte, ByteIsString
  <1>w. Writes(x) /\ Writes(y)
    BY WriteStringAdds DEF Adds
  <1>t. (x.thrown \in BOOLEAN) /\ (y.thrown \in BOOLEAN)
    BY <1>w DEF Writes
  <1>3. CASE s = <<>>
    <2>1. StringNone(z, x) /\ StringNone(e, y)
      BY <1>3, StringIsWritten
    <2> QED BY <2>1, <1>2, <1>b, <1>t DEF StringNone, Alike
  <1>4. CASE s # <<>> /\ StringIndex(s, z) # 0
    <2> DEFINE i == StringIndex(s, z)
    <2>1. StringOld(s, z, i, x) /\ StringOld(s, e, i, y)
      BY <1>1, <1>4, StringIsWritten
    <2> HIDE DEF i
    <2>2. i \in Int
      BY <2>1 DEF StringOld
    <2> QED BY <2>1, <2>2, <1>2, <1>b, <1>t DEF StringOld, Alike
  <1>5. CASE s # <<>> /\ StringIndex(s, z) = 0
    <2>1. StringNew(s, z, x) /\ StringNew(s, e, y)
      BY <1>1, <1>5, StringIsWritten
    <2>2. ~x.thrown => Spelled(s) \in Strings
      BY <2>1, ConcatIsString DEF StringNew, Spelled
    <2> QED BY <2>1, <2>2, <1>2, <1>t DEF StringNew, Alike
  <1> QED BY <1>3, <1>4, <1>5

\* SerializeTraits by its cases
LEMMA TraitsThrown ==
    ASSUME NEW n, NEW c, NEW x, x = WriteString(n.name, [c EXCEPT !.buf = <<>>]), x.thrown
    PROVE  SerializeTraits(n, c) = x
  BY DEF SerializeTraits, EmitTraits

LEMMA TraitsOldIs ==
    ASSUME NEW n, NEW c, NEW x, x = WriteString(n.name, [c EXCEPT !.buf = <<>>]), ~x.thrown,
           NEW i \in Nat, i = TraitsIndex(n, x), i # 0
    PROVE  SerializeTraits(n, c) = EmitIndex([x EXCEPT !.buf = c.buf], TraitsByte(i), i - 1 < 32)
  <1>1. i - 1 >= 0
    OBVIOUS
  <1> QED BY <1>1 DEF SerializeTraits, EmitTraits, TraitsByte

LEMMA TraitsNewIs ==
    ASSUME NEW n, NEW c, NEW x, x = WriteString(n.name, [c EXCEPT !.buf = <<>>]), ~x.thrown,
           TraitsIndex(n, x) = 0
    PROVE  LET a == [x EXCEPT !.traits = Append(@, Traits(n)),
                              !.buf = c.buf \o TraitsMark(n) \o x.buf]
           IN SerializeTraits(n, c) = IF "externalizable" \in n.flags THEN a
                                      ELSE WriteStrings(AttrNames(n), a)
  BY DEF SerializeTraits, EmitTraits, TraitsMark, AttrNames

\* A reference to traits: their name is known, and nothing is added.
TraitsOld(n, c, i, d) ==
    /\ Adds(c, d) /\ d.traits = c.traits /\ d.strings = c.strings /\ ~d.thrown
    /\ i \in 1 .. Len(c.traits) /\ c.traits[i] = Traits(n)
    /\ d.buf = c.buf \o TraitsByte(i)
    /\ d.sound => c.sound /\ i - 1 < 32 /\ ~c.drifted

LEMMA TraitsOldWritten ==
    ASSUME NEW c, Writes(c), ~c.thrown, NEW n \in Nodes,
           NEW x, x = WriteString(n.name, [c EXCEPT !.buf = <<>>]), ~x.thrown,
           TraitsIndex(n, x) # 0, NEW d, d = SerializeTraits(n, c)
    PROVE  TraitsOld(n, c, TraitsIndex(n, x), d)
  <1> DEFINE z == [c EXCEPT !.buf = <<>>]
             i == TraitsIndex(n, x)
             e == [x EXCEPT !.buf = c.buf]
             b == TraitsByte(i)
             room == i - 1 < 32
  <1>0. <<>> \in Strings /\ c.buf \in Strings /\ n.name \in Strings
    <2>1. <<>> \in Strings
      BY DEF Strings
    <2> QED BY <2>1, NodeIs DEF ItemOf, Writes
  <1>1. /\ Writes(z) /\ z.strings = c.strings /\ z.traits = c.traits
        /\ z.objects = c.objects /\ z.todo = c.todo /\ z.thrown = c.thrown
        /\ z.drifted = c.drifted /\ z.sound = c.sound
    BY <1>0, RebufIs
  <1>2. x = WriteString(n.name, z)
    OBVIOUS
  <1> HIDE DEF z
  <1>3. Adds(z, x) /\ Writes(x) /\ x.traits = z.traits /\ Knows(z, x)
    <2>1. Stringed(n.name, z, x)
      BY <1>0, <1>1, <1>2, StringedIs
    <2> QED BY <2>1 DEF Stringed, Adds
  <1>4. Len(x.traits) \in Nat
    BY <1>3, WritesIs
  <1>5. i \in 1 .. Len(c.traits) /\ c.traits[i] = Traits(n) /\ i \in Nat
    BY <1>1, <1>3, <1>4, TraitsIndexIs
  <1>6. d = EmitIndex(e, b, room)
    BY <1>5, TraitsOldIs
  <1> HIDE DEF i
  <1>7. b \in Strings /\ Len(b) = 1
    <2>1. (i - 1) * 4 + 1 \in Int
      BY <1>5
    <2> DEFINE v == (i - 1) * 4 + 1
    <2> HIDE DEF v
    <2>2. v % 256 \in Bytes
      BY <2>1, SmallIsByte DEF v
    <2>3. b = <<v % 256>>
      BY DEF TraitsByte, v
    <2> QED BY <2>2, <2>3, ByteIsString
  <1>8. /\ Writes(e) /\ e.buf = c.buf /\ e.strings = x.strings /\ e.traits = x.traits
        /\ e.objects = x.objects /\ e.todo = x.todo /\ e.thrown = x.thrown
        /\ e.drifted = x.drifted /\ e.sound = x.sound
    BY <1>0, <1>3, RebufIs
  <1>9. x.strings = c.strings
    <2>1. n.name = <<>> \/ \E j \in 1 .. Len(c.strings) : c.strings[j] = n.name
      <3>1. c.traits[i].name = n.name
        BY <1>5 DEF Traits
      <3> QED BY <1>5, <3>1 DEF Writes
    <2>2. CASE n.name = <<>>
      BY <1>1, <1>2, <2>2, WriteStringEmpty
    <2>3. CASE n.name # <<>> /\ StringIndex(n.name, z) # 0
      BY <1>0, <1>1, <1>2, <2>3, WriteStringOld
    <2>4. CASE n.name # <<>> /\ StringIndex(n.name, z) = 0
      <3>1. Len(z.strings) \in Nat
        BY <1>1, WritesIs
      <3>2. \A j \in 1 .. Len(z.strings) : z.strings[j] # n.name
        BY <2>4, <3>1, StringIndexIs
      <3> QED BY <1>1, <2>1, <2>4, <3>2
    <2> QED BY <2>2, <2>3, <2>4
  <1> HIDE DEF e, b, room
  <1>10. Indexed(e, b, room, d)
    BY <1>6, <1>7, <1>8, IndexedIs
  <1>11. x.todo = c.todo /\ x.objects = c.objects /\ x.drifted = c.drifted /\ (x.sound => c.sound)
    BY <1>1, <1>3 DEF Adds, Grows
  <1>12. Adds(c, d)
    <2>1. Adds(e, d)
      BY <1>10 DEF Indexed
    <2> QED BY <1>8, <1>11, <2>1 DEF Adds, Grows
  <1>13. d.sound => c.sound /\ room /\ ~c.drifted
    BY <1>8, <1>10, <1>11 DEF Indexed
  <1>14. d.traits = c.traits /\ d.strings = c.strings /\ ~d.thrown /\ d.buf = c.buf \o b
    BY <1>1, <1>3, <1>8, <1>9, <1>10 DEF Indexed
  <1> QED BY <1>5, <1>12, <1>13, <1>14 DEF TraitsOld, b, room, i

\* Traits in full: the marker, the name, and the names of the sealed properties.
\* Here a is the context behind the name.
TraitsNew(n, c, a, d) ==
    /\ Writes(a) /\ Adds(c, a) /\ Knows(c, a)
    /\ a.traits = Append(c.traits, Traits(n)) /\ ~a.thrown
    /\ \E y : /\ y = WriteString(n.name, Emit(c, TraitsMark(n)))
              /\ a.buf = y.buf /\ a.strings = y.strings /\ a.sound = y.sound /\ ~y.thrown
    /\ IF "externalizable" \in n.flags THEN d = a ELSE d = WriteStrings(AttrNames(n), a)

LEMMA TraitsNewWritten ==
    ASSUME NEW c, Writes(c), ~c.thrown, NEW n \in Nodes,
           NEW x, x = WriteString(n.name, [c EXCEPT !.buf = <<>>]), ~x.thrown,
           TraitsIndex(n, x) = 0, NEW d, d = SerializeTraits(n, c)
    PROVE  /\ \E a : TraitsNew(n, c, a, d)
           /\ \A i \in 1 .. Len(c.traits) : c.traits[i] # Traits(n)
  <1> DEFINE z == [c EXCEPT !.buf = <<>>]
             e == Emit(c, TraitsMark(n))
             y == WriteString(n.name, e)
             a == [x EXCEPT !.traits = Append(@, Traits(n)),
                            !.buf = c.buf \o TraitsMark(n) \o x.buf]
  <1>0. <<>> \in Strings /\ c.buf \in Strings /\ n.name \in Strings
    <2>1. <<>> \in Strings
      BY DEF Strings
    <2> QED BY <2>1, NodeIs DEF ItemOf, Writes
  <1>1. /\ Writes(z) /\ z.buf = <<>> /\ z.strings = c.strings /\ z.traits = c.traits
        /\ z.objects = c.objects /\ z.todo = c.todo /\ z.thrown = c.thrown
        /\ z.drifted = c.drifted /\ z.sound = c.sound
    BY <1>0, RebufIs
  <1>2. x = WriteString(n.name, z)
    OBVIOUS
  <1> HIDE DEF z
  <1>m. TraitsMark(n) \in Strings
    BY TraitsMarkIs
  <1>3. Emitted(c, TraitsMark(n), e)
    BY <1>m, EmittedIs
  <1>4. Writes(e) /\ ~e.thrown /\ e.strings = c.strings /\ e.sound = c.sound /\ e.drifted = c.drifted
    BY <1>3 DEF Emitted, Adds, Grows
  <1> HIDE DEF e
  <1>5. Stringed(n.name, z, x) /\ Stringed(n.name, e, y)
    BY <1>0, <1>1, <1>2, <1>4, StringedIs
  <1>6. Alike(e, x, y)
    <2>1. ~z.thrown /\ e.strings = z.strings /\ e.sound = z.sound /\ e.drifted = z.drifted
      BY <1>1, <1>4
    <2>2. y = WriteString(n.name, e)
      OBVIOUS
    <2> HIDE DEF y
    <2> QED BY <1>0, <1>1, <1>2, <1>4, <2>1, <2>2, WriteStringFrom
  <1> HIDE DEF y
  <1>7. d = IF "externalizable" \in n.flags THEN a ELSE WriteStrings(AttrNames(n), a)
    BY TraitsNewIs
  <1>8. Writes(x) /\ Adds(z, x) /\ Adds(e, y) /\ Writes(y)
    BY <1>5 DEF Stringed, Adds
  <1> DEFINE b == c.buf \o TraitsMark(n) \o x.buf
  <1>9. b \in Strings /\ b = y.buf
    <2>1. e.buf = c.buf \o TraitsMark(n)
      BY <1>3 DEF Emitted
    <2>2. y.buf \in Strings
      BY <1>8 DEF Writes
    <2> QED BY <1>6, <2>1, <2>2 DEF Alike
  <1>10. a = Traited(x, n, b)
    BY DEF Traited
  <1>11. n.name = <<>> \/ \E j \in 1 .. Len(x.strings) : x.strings[j] = n.name
    BY <1>5 DEF Stringed
  <1> HIDE DEF b, a
  <1>12. Titled(x, n, b, a)
    BY <1>8, <1>9, <1>10, <1>11, AddTraits
  <1>13. x.traits = c.traits
    BY <1>1, <1>5 DEF Stringed
  <1>14. Adds(c, a)
    <2>1. Adds(c, y)
      <3>1. Adds(c, e)
        BY <1>3 DEF Emitted
      <3> QED BY <1>8, <3>1, AddsOn
    <2>2. Begins(c.buf, y.buf) /\ (y.sound => c.sound) /\ y.drifted = c.drifted
      BY <1>6, <2>1 DEF Adds, Grows, Alike
    <2>3. x.todo = c.todo /\ x.objects = c.objects /\ x.drifted = c.drifted
      BY <1>1, <1>8 DEF Adds, Grows
    <2> QED BY <1>6, <1>9, <1>12, <2>2, <2>3 DEF Adds, Grows, Alike, Titled
  <1>15. Knows(c, a)
    <2>1. Knows(z, x) /\ z.strings = c.strings /\ a.strings = x.strings
      BY <1>1, <1>5, <1>12 DEF Stringed, Titled
    <2> QED BY <2>1 DEF Knows
  <1>16. y = WriteString(n.name, Emit(c, TraitsMark(n)))
    BY DEF y, e
  <1>17. a.buf = y.buf /\ a.strings = y.strings /\ a.sound = y.sound /\ ~y.thrown
    BY <1>6, <1>9, <1>12 DEF Alike, Titled
  <1>18. TraitsNew(n, c, a, d)
    <2>1. a.traits = Append(c.traits, Traits(n)) /\ ~a.thrown /\ Writes(a)
      BY <1>12, <1>13 DEF Titled
    <2>2. IF "externalizable" \in n.flags THEN d = a ELSE d = WriteStrings(AttrNames(n), a)
      BY <1>7
    <2> HIDE DEF y
    <2> QED BY <2>1, <2>2, <1>14, <1>15, <1>16, <1>17 DEF TraitsNew
  <1>19. \A i \in 1 .. Len(c.traits) : c.traits[i] # Traits(n)
    <2>1. Len(x.traits) \in Nat
      BY <1>8, WritesIs
    <2> QED BY <2>1, <1>13, TraitsIndexIs
  <1> QED BY <1>18, <1>19

\* What every way of writing traits leaves
LEMMA TraitsAdds ==
    ASSUME NEW c, Writes(c), NEW n \in Nodes, NEW d, d = SerializeTraits(n, c)
    PROVE  Adds(c, d)
  <1> DEFINE z == [c EXCEPT !.buf = <<>>]
             x == WriteString(n.name, z)
             i == TraitsIndex(n, x)
  <1>0. <<>> \in Strings /\ c.buf \in Strings /\ n.name \in Strings
    <2>1. <<>> \in Strings
      BY DEF Strings
    <2> QED BY <2>1, NodeIs DEF ItemOf, Writes
  <1>1. /\ Writes(z) /\ z.strings = c.strings /\ z.traits = c.traits
        /\ z.objects = c.objects /\ z.todo = c.todo /\ z.thrown = c.thrown
        /\ z.drifted = c.drifted /\ z.sound = c.sound
    BY <1>0, RebufIs
  <1>2. Adds(z, x)
    <2> HIDE DEF z
    <2>1. Stringed(n.name, z, x)
      BY <1>0, <1>1, StringedIs
    <2> QED BY <2>1 DEF Stringed
  <1>3. CASE x.thrown
    <2>1. d = x
      BY <1>3, TraitsThrown
    <2> HIDE DEF x, z
    <2> QED BY <2>1, <1>1, <1>2, <1>3 DEF Adds, Grows
  <1>4. CASE ~x.thrown /\ i # 0
    <2>1. ~c.thrown
      <3> HIDE DEF x, z
      <3> QED BY <1>1, <1>2, <1>4 DEF Adds, Grows
    <2>2. TraitsOld(n, c, i, d)
      BY <1>4, <2>1, TraitsOldWritten
    <2> QED BY <2>2 DEF TraitsOld
  <1>5. CASE ~x.thrown /\ i = 0
    <2>1. ~c.thrown
      <3> HIDE DEF x, z
      <3> QED BY <1>1, <1>2, <1>5 DEF Adds, Grows
    <2>2. PICK a : TraitsNew(n, c, a, d)
      BY <1>5, <2>1, TraitsNewWritten
    <2>3. Writes(a) /\ Adds(c, a) /\ (d = a \/ d = WriteStrings(AttrNames(n), a))
      BY <2>2 DEF TraitsNew
    <2>4. AttrNames(n) \in Seq(Strings)
      BY AttrNamesAre
    <2>5. d = a \/ Adds(a, d)
      BY <2>3, <2>4, WriteStringsAdds
    <2> QED BY <2>3, <2>5, AddsOn
  <1> QED BY <1>3, <1>4, <1>5

-----------------------------------------------------------------------------
(* The classes.                                                            *)

FrameOf(n, c) == [node |-> n, done |-> 0, slot |-> Len(c.objects)]

Pushed(n, c, d) ==
    /\ Writes(d) /\ Grows(c, d) /\ d.buf = c.buf /\ d.strings = c.strings
    /\ d.traits = c.traits /\ d.objects = c.objects /\ d.thrown = c.thrown
    /\ d.drifted = c.drifted /\ d.sound = c.sound
    /\ d.todo = Append(c.todo, FrameOf(n, c))

LEMMA PushedIs ==
    ASSUME NEW c, Writes(c), NEW n \in Nodes, n.type \in Containers, Len(c.objects) >= 1,
           NEW d, d = Push(c, n)
    PROVE  Pushed(n, c, d)
  <1> DEFINE f == FrameOf(n, c)
             t == Append(c.todo, f)
  <1>1. /\ IsSeq(t) /\ Len(t) = Len(c.todo) + 1 /\ Len(c.todo) \in Nat
        /\ \A i \in 1 .. Len(c.todo) : t[i] = c.todo[i]
        /\ t[Len(c.todo) + 1] = f
    BY WritesIs, SeqAppend DEF Writes
  <1>2. d = [c EXCEPT !.todo = t]
    BY DEF Push, FrameOf
  <1>3. Frame(c, f)
    <2>1. Len(c.objects) \in Nat /\ Len(Pieces(n)) \in Nat
      BY WritesIs, PiecesAre
    <2>2. f.node = n /\ f.done = 0 /\ f.slot = Len(c.objects)
          /\ f = [node |-> f.node, done |-> f.done, slot |-> f.slot]
      BY DEF FrameOf
    <2> HIDE DEF f
    <2> QED BY <2>1, <2>2 DEF Frame
  <1> HIDE DEF t, f
  <1>4. /\ DOMAIN d = CFields /\ d.buf = c.buf /\ d.strings = c.strings /\ d.traits = c.traits
        /\ d.objects = c.objects /\ d.todo = t /\ d.thrown = c.thrown
        /\ d.drifted = c.drifted /\ d.sound = c.sound
    BY <1>2, CFieldsAre DEF Writes
  <1>5. \A i \in 1 .. Len(t) : Frame(d, t[i])
    <2>1. ASSUME NEW i \in 1 .. Len(t) PROVE Frame(c, t[i])
      <3>1. CASE i = Len(c.todo) + 1
        BY <3>1, <1>1, <1>3
      <3>2. CASE i # Len(c.todo) + 1
        <4>1. i \in 1 .. Len(c.todo)
          BY <3>2, <1>1
        <4> QED BY <4>1, <1>1 DEF Writes
      <3> QED BY <3>1, <3>2
    <2> QED BY <2>1, <1>4 DEF Frame
  <1>6. Writes(d)
    BY <1>1, <1>4, <1>5 DEF Writes
  <1>7. Grows(c, d)
    <2>1. Begins(c.buf, c.buf)
      BY BeginsSelf DEF Writes
    <2> QED BY <1>4, <2>1 DEF Grows
  <1> QED BY <1>4, <1>6, <1>7 DEF Pushed, t, f

\* An item is begun: it is written, or the pieces of it are next.
Begun(n, c, d) ==
    /\ Writes(d) /\ Grows(c, d) /\ d.objects = c.objects
    /\ \/ d.todo = c.todo
       \/ n.type \in Containers /\ d.todo = Append(c.todo, FrameOf(n, c))

LEMMA AddsBegun ==
    ASSUME NEW n, NEW c, NEW d, Adds(c, d)
    PROVE  Begun(n, c, d)
  BY DEF Adds, Begun

LEMMA PushBegun ==
    ASSUME NEW n \in Nodes, n.type \in Containers, NEW c, Writes(c), Len(c.objects) >= 1,
           NEW e, Adds(c, e), NEW d, d = Push(e, n)
    PROVE  Begun(n, c, d)
  <1>1. Writes(e) /\ Grows(c, e) /\ e.todo = c.todo /\ e.objects = c.objects
    BY DEF Adds
  <1>2. Pushed(n, e, d)
    BY <1>1, PushedIs
  <1>3. Grows(c, d)
    BY <1>1, <1>2, GrowsOn DEF Pushed
  <1> QED BY <1>1, <1>2, <1>3 DEF Pushed, Begun, FrameOf

LEMMA MarkerIs ==
    /\ \A t \in DOMAIN Marker : Marker[t] \in 0 .. 17 /\ <<Marker[t]>> \in Strings
    /\ \A s, t \in DOMAIN Marker : Marker[s] = Marker[t] => s = t
  <1>1. \A t \in DOMAIN Marker : Marker[t] \in 0 .. 17
    BY DEF Marker
  <1>2. \A t \in DOMAIN Marker : Marker[t] \in 0 .. 255
    BY <1>1
  <1>3. \A t \in DOMAIN Marker : <<Marker[t]>> \in Strings
    BY <1>2, SmallIsByte, ByteIsString
  <1>4. \A s, t \in DOMAIN Marker : Marker[s] = Marker[t] => s = t
    BY DEF Marker
  <1> QED BY <1>1, <1>3, <1>4

\* A bool's byte
BoolByte(x) == <<IF x THEN 1 ELSE 0>>

LEMMA BoolByteIs ==
    ASSUME NEW x
    PROVE  BoolByte(x) \in Strings
  <1>1. 0 \in Bytes /\ 1 \in Bytes
    BY SmallIsByte
  <1> QED BY <1>1, ByteIsString DEF BoolByte

\* Behind the length of an item, more bytes
LEMMA LengthThen ==
    ASSUME NEW c, Writes(c), NEW m \in Strings, NEW k \in Nat, NEW b \in Strings,
           NEW d, d = Emit(EmitLength(c, m, k), b)
    PROVE  Adds(c, d)
  <1> DEFINE e == EmitLength(c, m, k)
  <1>1. Measured(c, m, k, e)
    BY MeasuredIs
  <1> HIDE DEF e
  <1>2. Adds(c, e) /\ Writes(e)
    BY <1>1 DEF Measured, Adds
  <1>3. Emitted(e, b, d)
    BY <1>2, EmittedIs DEF e
  <1> QED BY <1>2, <1>3, AddsOn DEF Emitted

LEMMA TextBegun ==
    ASSUME NEW c, Writes(c), NEW n \in Nodes, n.type \in Texts, NEW d, d = SerializeText(n, c)
    PROVE  Adds(c, d)
  <1>1. n.value \in Strings /\ n.type \in DOMAIN Marker
    BY NodeIs DEF ItemOf, ValueOf, Texts, Vectors, Marker
  <1>2. Len(n.value) \in Nat
    BY <1>1, StringHas
  <1>3. d = Emit(EmitLength(c, <<Marker[n.type]>>, Len(n.value)), n.value)
    BY DEF SerializeText
  <1> QED BY <1>1, <1>2, <1>3, MarkerIs, LengthThen

LEMMA VectorBegun ==
    ASSUME NEW c, Writes(c), NEW n \in Nodes, n.type \in Vectors, NEW d, d = SerializeVector(n, c)
    PROVE  Adds(c, d)
  <1>1. n.value \in Strings /\ n.type \in DOMAIN Marker /\ Stride[n.type] \in {4, 8}
    BY NodeIs DEF ItemOf, ValueOf, Vectors, Marker, Stride
  <1> DEFINE k == Len(n.value) \div Stride[n.type]
             b == BoolByte("fixed" \in n.flags) \o n.value
  <1>2. k \in Nat
    <2>1. Len(n.value) \in Nat
      BY <1>1, StringHas
    <2> QED BY <1>1, <2>1
  <1>3. b \in Strings
    BY <1>1, BoolByteIs, ConcatIsString
  <1>4. d = Emit(EmitLength(c, <<Marker[n.type]>>, k), b)
    BY DEF SerializeVector, BoolByte
  <1> HIDE DEF k, b
  <1> QED BY <1>1, <1>2, <1>3, <1>4, MarkerIs, LengthThen

LEMMA ArrayBegun ==
    ASSUME NEW c, Writes(c), NEW n \in Nodes, n.type = "array", Len(c.objects) >= 1,
           NEW d, d = SerializeArray(n, c)
    PROVE  Begun(n, c, d)
  <1> DEFINE e == EmitLength(c, <<Marker.array>>, Len(n.items))
  <1>1. Len(n.items) \in Nat
    BY NodeIs DEF ItemOf
  <1>2. <<Marker.array>> \in Strings
    BY MarkerIs DEF Marker
  <1>3. Measured(c, <<Marker.array>>, Len(n.items), e)
    BY <1>1, <1>2, MeasuredIs
  <1>4. d = Push(e, n)
    BY DEF SerializeArray
  <1> HIDE DEF e
  <1>5. Adds(c, e)
    BY <1>3 DEF Measured
  <1>6. n.type \in Containers
    BY DEF Containers
  <1> QED BY <1>4, <1>5, <1>6, PushBegun

LEMMA ObjectVectorBegun ==
    ASSUME NEW c, Writes(c), NEW n \in Nodes, n.type = "vectorObject", Len(c.objects) >= 1,
           NEW d, d = SerializeObjectVector(n, c)
    PROVE  Begun(n, c, d)
  <1> DEFINE k == Len(n.items)
             e == Emit(EmitLength(c, <<Marker[n.type]>>, k), BoolByte("fixed" \in n.flags))
             f == WriteString(n.name, e)
  <1>1. k \in Nat /\ n.name \in Strings
    BY NodeIs DEF ItemOf
  <1>2. <<Marker[n.type]>> \in Strings
    BY MarkerIs DEF Marker
  <1>3. Adds(c, e)
    <2> HIDE DEF k
    <2> QED BY <1>1, <1>2, BoolByteIs, LengthThen
  <1>4. d = Push(f, n)
    BY DEF SerializeObjectVector, BoolByte
  <1> HIDE DEF e
  <1>5. Stringed(n.name, e, f)
    BY <1>1, <1>3, StringedIs DEF Adds
  <1> HIDE DEF f
  <1>6. Adds(c, f)
    BY <1>3, <1>5, AddsOn DEF Stringed
  <1>7. n.type \in Containers
    BY DEF Containers
  <1> QED BY <1>4, <1>6, <1>7, PushBegun

LEMMA DictionaryBegun ==
    ASSUME NEW c, Writes(c), NEW n \in Nodes, n.type = "dictionary", Len(c.objects) >= 1,
           NEW d, d = SerializeDictionary(n, c)
    PROVE  Begun(n, c, d)
  <1> DEFINE k == Cardinality(n.pairs)
             differ == \A p, q \in n.pairs : Key(n, p[1], ShownOf) = Key(n, q[1], ShownOf) => p = q
             e == Emit(EmitLength(c, <<Marker.dictionary>>, k), BoolByte("weak" \in n.flags))
             f == [e EXCEPT !.sound = @ /\ differ]
  <1>1. k \in Nat
    BY NodeIs, FS_CardinalityType DEF ItemOf
  <1>2. <<Marker.dictionary>> \in Strings
    BY MarkerIs DEF Marker
  <1>3. Adds(c, e)
    <2> HIDE DEF k
    <2> QED BY <1>1, <1>2, BoolByteIs, LengthThen
  <1>4. d = Push(f, n)
    BY DEF SerializeDictionary, BoolByte
  <1> HIDE DEF e, differ
  <1>5. Adds(e, f)
    BY <1>3, DoubtAdds DEF Adds
  <1> HIDE DEF f
  <1>6. Adds(c, f)
    BY <1>3, <1>5, AddsOn
  <1>7. n.type \in Containers
    BY DEF Containers
  <1> QED BY <1>4, <1>6, <1>7, PushBegun

LEMMA ObjectBegun ==
    ASSUME NEW c, Writes(c), NEW n \in Nodes, n.type = "object", Len(c.objects) >= 1,
           NEW d, d = SerializeObject(n, c)
    PROVE  Begun(n, c, d)
  <1> DEFINE e == Emit(c, <<Marker.object>>)
             f == SerializeTraits(n, e)
  <1>2. <<Marker.object>> \in Strings
    BY MarkerIs DEF Marker
  <1>3. Emitted(c, <<Marker.object>>, e)
    BY <1>2, EmittedIs
  <1>4. d = IF "externalizable" \in n.flags THEN Externalize(n, f) ELSE Push(f, n)
    BY DEF SerializeObject, EmitObject
  <1> HIDE DEF e
  <1>5. Adds(c, e) /\ Writes(e)
    BY <1>3 DEF Emitted, Adds
  <1>6. Adds(e, f)
    BY <1>5, TraitsAdds
  <1> HIDE DEF f
  <1>7. Adds(c, f) /\ Writes(f)
    BY <1>5, <1>6, AddsOn DEF Adds
  <1>8. CASE "externalizable" \notin n.flags
    <2>1. n.type \in Containers
      BY DEF Containers
    <2> QED BY <1>4, <1>7, <1>8, <2>1, PushBegun
  <1>9. CASE "externalizable" \in n.flags
    <2> DEFINE g == Emit(f, n.value)
               known == n.name \in Registered
               h == [g EXCEPT !.sound = @ /\ known]
    <2>1. n.value \in Strings
      BY NodeIs DEF ItemOf, ValueOf, Vectors
    <2>2. CASE n.value = <<>>
      <3>1. d = Throw(f)
        BY <1>4, <1>9, <2>2 DEF Externalize
      <3>2. Adds(f, d)
        BY <1>7, <3>1, ThrowAdds
      <3> QED BY <1>7, <3>2, AddsOn, AddsBegun
    <2>3. CASE n.value # <<>>
      <3>1. d = h
        BY <1>4, <1>9, <2>3 DEF Externalize
      <3>2. Emitted(f, n.value, g)
        BY <1>7, <2>1, EmittedIs
      <3> HIDE DEF g, known
      <3>3. Adds(f, g) /\ Writes(g)
        BY <3>2 DEF Emitted, Adds
      <3>4. Adds(g, h)
        BY <3>3, DoubtAdds
      <3> HIDE DEF h
      <3>5. Adds(c, g)
        BY <1>7, <3>3, AddsOn
      <3> QED BY <3>1, <3>4, <3>5, AddsOn, AddsBegun
    <2> QED BY <2>2, <2>3
  <1> QED BY <1>8, <1>9

-----------------------------------------------------------------------------
(* Numbers and the like.                                                   *)

Counted(c, b, room, d) ==
    /\ Adds(c, d) /\ d.strings = c.strings /\ d.traits = c.traits /\ d.thrown = c.thrown
    /\ d.buf = c.buf \o NetworkBytes(b)
    /\ d.sound = (c.sound /\ room /\ NetworkBytes(b) = b)

LEMMA CountedIs ==
    ASSUME NEW c, Writes(c), NEW b \in Strings, NEW room, NEW d, d = EmitNumber(c, b, room)
    PROVE  Counted(c, b, room, d)
  <1> DEFINE x == room /\ NetworkBytes(b) = b
             e == Emit(c, NetworkBytes(b))
             f == [e EXCEPT !.sound = @ /\ x]
  <1>1. d = f
    BY DEF EmitNumber
  <1>2. NetworkBytes(b) \in Strings
    BY NetworkIsString
  <1>3. Emitted(c, NetworkBytes(b), e)
    BY <1>2, EmittedIs
  <1> HIDE DEF x, e
  <1>4. Writes(e)
    BY <1>3 DEF Emitted, Adds
  <1>5. /\ Adds(e, f) /\ f.buf = e.buf /\ f.strings = e.strings /\ f.traits = e.traits
        /\ f.thrown = e.thrown /\ f.sound = (e.sound /\ x)
    BY <1>4, DoubtAdds
  <1> HIDE DEF f
  <1>6. Adds(c, f)
    BY <1>3, <1>5, AddsOn DEF Emitted
  <1> QED BY <1>1, <1>3, <1>5, <1>6 DEF Counted, Emitted, x

Scalars == {"undefined", "null", "false", "true", "integer", "double", "date"}

LEMMA DoubleOfIs ==
    ASSUME NEW n \in Nodes, n.type = "integer"
    PROVE  /\ n.value[1] \in Int
           /\ ~InRange(n.value[1]) => DoubleOf[n.value[1]] \in Strings /\ Len(DoubleOf[n.value[1]]) = 8
  <1> DEFINE v == n.value[1]
  <1>1. ValueOf(n)
    BY NodeIs DEF ItemOf
  <1>2. n.value \in Seq(Int) /\ Len(n.value) = 1 /\ (~InRange(v) => v \in DOMAIN DoubleOf)
    BY <1>1 DEF ValueOf, Vectors
  <1>3. v \in Int
    BY <1>2, SMT
  <1> HIDE DEF v
  <1>4. DoubleOf \in [DOMAIN DoubleOf -> {s \in Strings : Len(s) = 8}]
    BY AMF3Assumption DEF Converted
  <1>5. ~InRange(v) => DoubleOf[v] \in Strings /\ Len(DoubleOf[v]) = 8
    BY <1>2, <1>4
  <1> QED BY <1>3, <1>5 DEF v

LEMMA DoubleAdds ==
    ASSUME NEW m \in Strings, NEW b \in Strings, NEW room, NEW c, Writes(c),
           NEW d, d = EmitNumber(Emit(c, m), b, room)
    PROVE  Adds(c, d)
  <1> DEFINE e == Emit(c, m)
  <1>1. Emitted(c, m, e)
    BY EmittedIs
  <1>2. d = EmitNumber(e, b, room)
    OBVIOUS
  <1> HIDE DEF e
  <1>3. Counted(e, b, room, d)
    BY <1>1, <1>2, CountedIs DEF Emitted, Adds
  <1> QED BY <1>1, <1>3, AddsOn DEF Emitted, Counted

LEMMA ScalarAdds ==
    ASSUME NEW n \in Nodes, n.type \in Scalars, NEW c, Writes(c), NEW d, d = Contents(n, c)
    PROVE  Adds(c, d)
  <1>0. \A t \in DOMAIN Marker : <<Marker[t]>> \in Strings
    BY MarkerIs
  <1>1. CASE n.type \in {"undefined", "null", "false", "true"}
    <2>1. n.type \in DOMAIN Marker
      BY <1>1 DEF Marker
    <2> DEFINE m == <<Marker[n.type]>>
    <2>2. m \in Strings
      BY <1>0, <2>1
    <2>3. d = Emit(c, m)
      BY <1>1 DEF Contents, Texts, Vectors
    <2> HIDE DEF m
    <2> QED BY <2>2, <2>3, EmittedIs DEF Emitted
  <1>2. CASE n.type = "integer"
    <2> DEFINE v == n.value[1]
    <2>1. d = IF InRange(v) THEN Emit(c, <<Marker.integer>> \o IntegerBytes(v))
              ELSE EmitNumber(Emit(c, <<Marker.double>>), DoubleOf[v], TRUE)
      BY <1>2 DEF Contents, Texts, Vectors, SerializeDouble
    <2>2. v \in Int /\ (~InRange(v) => DoubleOf[v] \in Strings)
      BY <1>2, DoubleOfIs
    <2> HIDE DEF v
    <2>3. <<Marker.integer>> \in Strings /\ <<Marker.double>> \in Strings
      BY <1>0 DEF Marker
    <2>4. CASE InRange(v)
      <3> DEFINE b == <<Marker.integer>> \o IntegerBytes(v)
      <3>1. b \in Strings
        BY <2>2, <2>3, <2>4, IntegerIsString, ConcatIsString
      <3>2. d = Emit(c, b)
        BY <2>1, <2>4
      <3> HIDE DEF b
      <3> QED BY <3>1, <3>2, EmittedIs DEF Emitted
    <2>5. CASE ~InRange(v)
      <3> DEFINE m == <<Marker.double>>
                 b == DoubleOf[v]
      <3>1. m \in Strings /\ b \in Strings /\ d = EmitNumber(Emit(c, m), b, TRUE)
        BY <2>1, <2>2, <2>3, <2>5
      <3> HIDE DEF m, b
      <3> QED BY <3>1, DoubleAdds
    <2> QED BY <2>4, <2>5
  <1>3. CASE n.type = "double"
    <2> DEFINE m == <<Marker.double>>
               b == n.value
    <2>1. b \in Strings /\ m \in Strings
      BY <1>0, <1>3, NodeIs DEF ItemOf, ValueOf, Marker
    <2>2. d = EmitNumber(Emit(c, m), b, TRUE)
      BY <1>3 DEF Contents, Texts, Vectors, SerializeDouble
    <2> HIDE DEF m, b
    <2> QED BY <2>1, <2>2, DoubleAdds
  <1>4. CASE n.type = "date"
    <2> DEFINE m == <<Marker.date, 1>>
               b == AsDouble(n.value)
               room == AsLong(b) = n.value
    <2>1. b \in Strings
      BY <1>4, AMF3Assumption DEF Converted
    <2>2. m \in Strings
      BY SmallIsByte DEF Marker, Strings
    <2>3. d = EmitNumber(Emit(c, m), b, room)
      BY <1>4 DEF Contents, Texts, Vectors, SerializeDate
    <2> HIDE DEF m, b, room
    <2> QED BY <2>1, <2>2, <2>3, DoubleAdds
  <1> QED BY <1>1, <1>2, <1>3, <1>4 DEF Scalars

LEMMA ContentsSplit ==
    ASSUME NEW n \in Nodes, n.type \in ValueTypes, NEW c
    PROVE  /\ n.type = "string" => Contents(n, c) = WriteString(n.value, Emit(c, <<Marker.string>>))
           /\ n.type \in Texts   => Contents(n, c) = SerializeText(n, c)
           /\ n.type \in Vectors => Contents(n, c) = SerializeVector(n, c)
           /\ n.type = "vectorObject" => Contents(n, c) = SerializeObjectVector(n, c)
           /\ n.type = "array"      => Contents(n, c) = SerializeArray(n, c)
           /\ n.type = "object"     => Contents(n, c) = SerializeObject(n, c)
           /\ n.type = "dictionary" => Contents(n, c) = SerializeDictionary(n, c)
           /\ \/ n.type \in Scalars \/ n.type = "string" \/ n.type \in Texts \/ n.type \in Vectors
              \/ n.type \in Containers
  <1>5. ASSUME n.type = "string" PROVE Contents(n, c) = WriteString(n.value, Emit(c, <<Marker.string>>))
    BY <1>5 DEF Contents, Texts, Vectors
  <1>6. ASSUME n.type \in Texts PROVE Contents(n, c) = SerializeText(n, c)
    BY <1>6 DEF Contents, Texts, Vectors
  <1>7. ASSUME n.type \in Vectors PROVE Contents(n, c) = SerializeVector(n, c)
    BY <1>7 DEF Contents, Texts, Vectors
  <1>8. ASSUME n.type = "vectorObject" PROVE Contents(n, c) = SerializeObjectVector(n, c)
    BY <1>8 DEF Contents, Texts, Vectors
  <1>9. ASSUME n.type = "array" PROVE Contents(n, c) = SerializeArray(n, c)
    BY <1>9 DEF Contents, Texts, Vectors
  <1>10. ASSUME n.type = "object" PROVE Contents(n, c) = SerializeObject(n, c)
    BY <1>10 DEF Contents, Texts, Vectors
  <1>11. ASSUME n.type = "dictionary" PROVE Contents(n, c) = SerializeDictionary(n, c)
    BY <1>11 DEF Contents, Texts, Vectors
  <1>12. \/ n.type \in Scalars \/ n.type = "string" \/ n.type \in Texts \/ n.type \in Vectors
        \/ n.type \in Containers
    BY DEF ValueTypes, Marker, Scalars, Texts, Vectors, Containers
  <1> QED BY <1>5, <1>6, <1>7, <1>8, <1>9, <1>10, <1>11, <1>12

LEMMA ContentsBegun ==
    ASSUME NEW n \in Nodes, n.type \in ValueTypes, NEW c, Writes(c),
           n.type \in Containers => Len(c.objects) >= 1, NEW d, d = Contents(n, c)
    PROVE  Begun(n, c, d)
  <1>1. CASE n.type \in Scalars
    BY <1>1, ScalarAdds, AddsBegun
  <1>2. CASE n.type = "string"
    <2> DEFINE e == Emit(c, <<Marker.string>>)
    <2>1. d = WriteString(n.value, e)
      BY <1>2, ContentsSplit
    <2>2. n.value \in Strings /\ <<Marker.string>> \in Strings
      BY <1>2, NodeIs, MarkerIs DEF ItemOf, ValueOf, Marker, Vectors
    <2>3. Emitted(c, <<Marker.string>>, e)
      BY <2>2, EmittedIs
    <2> HIDE DEF e
    <2>4. Stringed(n.value, e, d)
      BY <2>1, <2>2, <2>3, StringedIs DEF Emitted, Adds
    <2>5. Adds(c, d)
      BY <2>3, <2>4, AddsOn DEF Emitted, Stringed
    <2> QED BY <2>5, AddsBegun
  <1>3. CASE n.type \in Texts
    BY <1>3, ContentsSplit, TextBegun, AddsBegun
  <1>4. CASE n.type \in Vectors
    BY <1>4, ContentsSplit, VectorBegun, AddsBegun
  <1>5. CASE n.type \in Containers
    <2>1. Len(c.objects) >= 1
      BY <1>5
    <2>2. CASE n.type = "array"
      BY <2>1, <2>2, ContentsSplit, ArrayBegun
    <2>3. CASE n.type = "vectorObject"
      BY <2>1, <2>3, ContentsSplit, ObjectVectorBegun
    <2>4. CASE n.type = "object"
      BY <2>1, <2>4, ContentsSplit, ObjectBegun
    <2>5. CASE n.type = "dictionary"
      BY <2>1, <2>5, ContentsSplit, DictionaryBegun
    <2> QED BY <1>5, <2>2, <2>3, <2>4, <2>5 DEF Containers
  <1> QED BY <1>1, <1>2, <1>3, <1>4, <1>5, ContentsSplit

-----------------------------------------------------------------------------
(* From the head of an item to its end.                                    *)

\* d is c after any call.
Leaves(c, d) == Writes(d) /\ Grows(c, d)

LEMMA LeavesOn ==
    ASSUME NEW c, NEW d, NEW e, Writes(c), Leaves(c, d), Leaves(d, e)
    PROVE  Leaves(c, e)
  BY GrowsOn DEF Leaves

LEMMA LeavesSelf ==
    ASSUME NEW c, Writes(c)
    PROVE  Leaves(c, c)
  BY AddsSelf DEF Adds, Leaves

LEMMA AddsLeaves ==
    ASSUME NEW c, NEW d, Adds(c, d)
    PROVE  Leaves(c, d)
  BY DEF Adds, Leaves

\* The entry of an item in the table of objects
Entry(n) == [copy |-> n, was |-> Received(n)]

WithEntry(n, c) == [c EXCEPT !.objects = Append(@, Entry(n))]

\* An item gets a place in the table.
Listed(n, c, d) ==
    /\ Writes(d) /\ Grows(c, d) /\ d.buf = c.buf /\ d.strings = c.strings
    /\ d.traits = c.traits /\ d.objects = Append(c.objects, Entry(n)) /\ d.todo = c.todo
    /\ d.thrown = c.thrown /\ d.drifted = c.drifted /\ d.sound = c.sound
    /\ Len(d.objects) = Len(c.objects) + 1 /\ Len(d.objects) >= 1

LEMMA ListedIs ==
    ASSUME NEW c, Writes(c), NEW n \in Nodes,
           NEW d, d = WithEntry(n, c)
    PROVE  Listed(n, c, d)
  <1> DEFINE e == Entry(n)
             t == Append(c.objects, e)
             m == Len(c.objects)
  <1>1. /\ IsSeq(t) /\ Len(t) = m + 1 /\ m \in Nat
        /\ \A i \in 1 .. m : t[i] = c.objects[i]
        /\ t[m + 1] = e
    BY WritesIs, SeqAppend DEF Writes
  <1>2. e.copy = n
    BY DEF Entry
  <1> HIDE DEF e, t, m
  <1>3. d = [c EXCEPT !.objects = t]
    BY DEF t, e, WithEntry
  <1>4. /\ DOMAIN d = CFields /\ d.buf = c.buf /\ d.strings = c.strings /\ d.traits = c.traits
        /\ d.objects = t /\ d.todo = c.todo /\ d.thrown = c.thrown
        /\ d.drifted = c.drifted /\ d.sound = c.sound
    BY <1>3, CFieldsAre DEF Writes
  <1>5. \A i \in 1 .. Len(t) : t[i].copy \in Nodes
    <2>1. ASSUME NEW i \in 1 .. Len(t) PROVE t[i].copy \in Nodes
      <3>1. CASE i = m + 1
        BY <3>1, <1>1, <1>2
      <3>2. CASE i # m + 1
        <4>1. i \in 1 .. m
          BY <3>2, <1>1
        <4> QED BY <4>1, <1>1 DEF Writes, m
      <3> QED BY <3>1, <3>2
    <2> QED BY <2>1
  <1>6. \A i \in 1 .. Len(d.todo) : Frame(d, d.todo[i])
    <2>1. ASSUME NEW i \in 1 .. Len(c.todo) PROVE Frame(d, c.todo[i])
      <3>1. Frame(c, c.todo[i])
        BY DEF Writes
      <3>2. \A x \in 1 .. m : x \in 1 .. Len(d.objects)
        BY <1>1, <1>4
      <3> QED BY <3>1, <3>2 DEF Frame, m
    <2> QED BY <2>1, <1>4
  <1>7. Writes(d)
    BY <1>1, <1>4, <1>5, <1>6 DEF Writes
  <1>8. Grows(c, d)
    <2>1. Begins(c.buf, c.buf)
      BY BeginsSelf DEF Writes
    <2> QED BY <1>4, <2>1 DEF Grows
  <1>9. Len(t) = m + 1 /\ Len(t) >= 1
    BY <1>1
  <1> QED BY <1>4, <1>7, <1>8, <1>9 DEF Listed, t, e, m

\* What is served with the place it has.
Placed(n, c) == IF n.type \in Referable THEN WithEntry(n, c) ELSE c

\* Serialize is one of these.
Points(n, c, hit) ==
    EmitReference([c EXCEPT !.sound = /\ @
                                      /\ c.objects[hit].was = Received(c.objects[hit].copy)
                                      /\ \A i \in DOMAIN c.todo : c.todo[i].slot # hit],
                  <<Marker[n.type]>>, hit - 1)

LEMMA SerializeSplit ==
    ASSUME NEW n, NEW c
    PROVE  LET hit == ObjectIndex(n, c)
           IN \/ c.thrown /\ Serialize(n, c) = c
              \/ ~c.thrown /\ hit = 0 /\ Serialize(n, c) = Contents(n, Placed(n, c))
              \/ /\ ~c.thrown /\ hit # 0 /\ Uncomparable(c.objects[hit].copy, n)
                 /\ Serialize(n, c) = Throw(c)
              \/ /\ ~c.thrown /\ hit # 0 /\ ~Uncomparable(c.objects[hit].copy, n)
                 /\ Serialize(n, c) = Points(n, c, hit)
  BY DEF Serialize, Placed, Points, Entry, WithEntry

Pointed(n, c, hit, d) ==
    /\ Adds(c, d) /\ d.strings = c.strings /\ d.traits = c.traits
    /\ d.buf = c.buf \o (<<Marker[n.type]>> \o ByteOf(hit))
    /\ d.thrown = c.thrown
    /\ d.sound => /\ c.sound /\ hit - 1 < 64 /\ ~c.drifted
                  /\ c.objects[hit].was = Received(c.objects[hit].copy)
                  /\ \A i \in DOMAIN c.todo : c.todo[i].slot # hit

LEMMA PointedIs ==
    ASSUME NEW n, n.type \in ValueTypes, NEW c, Writes(c), NEW hit \in Nat, NEW d, d = Points(n, c, hit)
    PROVE  Pointed(n, c, hit, d)
  <1> DEFINE x == /\ c.objects[hit].was = Received(c.objects[hit].copy)
                  /\ \A i \in DOMAIN c.todo : c.todo[i].slot # hit
             e == [c EXCEPT !.sound = @ /\ x]
             b == <<Marker[n.type]>> \o ByteOf(hit)
             room == hit - 1 < 64
  <1>1. Points(n, c, hit) = EmitReference(e, <<Marker[n.type]>>, hit - 1)
    BY DEF Points
  <1>2. EmitReference(e, <<Marker[n.type]>>, hit - 1) = EmitIndex(e, b, room)
    BY DEF EmitReference, ByteOf
  <1>3. b \in Strings
    <2>1. <<Marker[n.type]>> \in Strings
      BY MarkerIs DEF ValueTypes
    <2>2. ByteOf(hit) \in Strings
      BY SmallIsByte, ByteIsString DEF ByteOf
    <2> QED BY <2>1, <2>2, ConcatIsString
  <1> HIDE DEF x, b, room
  <1>4. /\ Adds(c, e) /\ e.buf = c.buf /\ e.strings = c.strings /\ e.traits = c.traits
        /\ e.thrown = c.thrown /\ e.sound = (c.sound /\ x)
    BY DoubtAdds
  <1>5. d = EmitIndex(e, b, room)
    BY <1>1, <1>2
  <1> HIDE DEF e
  <1>6. Indexed(e, b, room, d)
    BY <1>3, <1>4, <1>5, IndexedIs DEF Adds
  <1>7. Adds(c, d)
    BY <1>4, <1>6, AddsOn DEF Indexed
  <1>8. e.drifted = c.drifted
    BY <1>4 DEF Adds, Grows
  <1>9. /\ d.buf = c.buf \o b /\ d.strings = c.strings /\ d.traits = c.traits
        /\ d.thrown = c.thrown /\ (d.sound => e.sound /\ room /\ ~e.drifted)
    BY <1>4, <1>6 DEF Indexed
  <1> QED BY <1>4, <1>7, <1>8, <1>9 DEF Pointed, b, room, x

\* The item is begun, a reference to it written, or nothing is any more.
LEMMA PlacedIs ==
    ASSUME NEW n \in Nodes, n.type \in ValueTypes, NEW c, Writes(c), NEW e, e = Placed(n, c)
    PROVE  /\ Leaves(c, e) /\ e.todo = c.todo
           /\ n.type \in Containers => Len(e.objects) >= 1
           /\ n.type \in Referable => Listed(n, c, e)
           /\ n.type \notin Referable => e = c
  <1>1. CASE n.type \in Referable
    <2>1. Listed(n, c, e)
      BY <1>1, ListedIs DEF Placed
    <2> QED BY <1>1, <2>1 DEF Listed, Leaves
  <1>2. CASE n.type \notin Referable
    <2>1. e = c
      BY <1>2 DEF Placed
    <2>2. n.type \notin Containers
      BY <1>2 DEF Containers, Referable
    <2> QED BY <1>2, <2>1, <2>2, LeavesSelf
  <1> QED BY <1>1, <1>2

LEMMA SerializeLeaves ==
    ASSUME NEW n \in Nodes, n.type \in ValueTypes, NEW c, Writes(c), NEW d, d = Serialize(n, c)
    PROVE  Leaves(c, d)
  <1> DEFINE hit == ObjectIndex(n, c)
             e == Placed(n, c)
  <1>0. hit \in Nat
    <2>1. Len(c.objects) \in Nat
      BY WritesIs
    <2>2. hit \in 0 .. Len(c.objects)
      BY <2>1, ObjectIndexIs
    <2> QED BY <2>1, <2>2
  <1>s. \/ d = c
        \/ d = Contents(n, e)
        \/ d = Throw(c)
        \/ d = Points(n, c, hit)
    BY SerializeSplit
  <1>2. CASE d = Contents(n, e)
    <2>1. Leaves(c, e) /\ (n.type \in Containers => Len(e.objects) >= 1)
      BY PlacedIs
    <2> HIDE DEF e
    <2>2. Begun(n, e, d)
      BY <1>2, <2>1, ContentsBegun DEF Leaves
    <2>3. Leaves(e, d)
      BY <2>2 DEF Begun, Leaves
    <2> QED BY <2>1, <2>3, LeavesOn
  <1>3. CASE d = Throw(c)
    BY <1>3, ThrowAdds, AddsLeaves
  <1>4. CASE d = Points(n, c, hit)
    <2> HIDE DEF hit
    <2>1. Pointed(n, c, hit, d)
      BY <1>0, <1>4, PointedIs
    <2> QED BY <2>1, AddsLeaves DEF Pointed
  <1> QED BY <1>s, <1>2, <1>3, <1>4, LeavesSelf

LEMMA WordingIs ==
    \A t \in Worded \ {"integer", "double"} : Wording[t] \in Strings
  <1>1. ASSUME NEW t \in {"false", "true", "undefined", "null"} PROVE Wording[t] \in Strings
    <2>1. Wording[t] \in {<<102>>, <<116>>, <<117>>, <<110>>}
      BY DEF Wording
    <2>2. <<102>> \in Strings /\ <<116>> \in Strings /\ <<117>> \in Strings /\ <<110>> \in Strings
      BY SmallIsByte, ByteIsString
    <2> QED BY <2>1, <2>2
  <1> QED BY <1>1 DEF Worded

LEMMA KeyTextIs ==
    ASSUME HeapOK, NEW n \in Nodes, NEW o \in Names, IsWord(n, o), \E q \in n.pairs : q[1] = o
    PROVE  KeyText(At(o)) \in Strings
  <1> DEFINE k == At(o)
  <1>1. k \in Versions(o) /\ k.type \in Worded /\ "asString" \in n.flags
    BY AtIs DEF IsWord
  <1> HIDE DEF k
  <1>2. CASE k.type \in {"integer", "double"}
    <2>1. k.value \in DOMAIN Decimal
      BY <1>1, <1>2, AMF3Assumption DEF Converted
    <2>2. Decimal \in [DOMAIN Decimal -> Strings]
      BY AMF3Assumption DEF Converted
    <2>3. Decimal[k.value] \in Strings
      BY <2>1, <2>2
    <2> QED BY <1>2, <2>3 DEF KeyText, k
  <1>3. CASE k.type \notin {"integer", "double"}
    <2>1. Wording[k.type] \in Strings
      BY <1>1, <1>3, WordingIs
    <2> QED BY <1>3, <2>1 DEF KeyText, k
  <1> QED BY <1>2, <1>3

\* A name: not sound if it is empty
Named(s, c) == WriteString(s, [c EXCEPT !.sound = @ /\ s # <<>>])

\* A key that is written as its word
Worder(s, c) == WriteString(s, Emit(c, <<Marker.string>>))

LEMMA PieceSplit ==
    ASSUME NEW c, NEW o
    PROVE  /\ SerializePiece(Piece("item", o), c) = Serialize(At(o), c)
           /\ SerializePiece(Piece("name", o), c) = Named(o, c)
           /\ SerializePiece(Piece("end", o), c) = Emit(c, <<1>>)
           /\ SerializePiece(Piece("word", o), c) = Worder(KeyText(At(o)), c)
           /\ SerializePiece(Piece("missing", o), c) = Throw(c)
  <1>1. SerializePiece(Piece("item", o), c) = Serialize(At(o), c)
    BY DEF SerializePiece, Piece
  <1>2. SerializePiece(Piece("name", o), c) = Named(o, c)
    BY DEF SerializePiece, Piece, Named
  <1>3. SerializePiece(Piece("end", o), c) = Emit(c, <<1>>)
    BY DEF SerializePiece, Piece
  <1>4. SerializePiece(Piece("word", o), c) = Worder(KeyText(At(o)), c)
    BY DEF SerializePiece, Piece, Worder
  <1>5. SerializePiece(Piece("missing", o), c) = Throw(c)
    BY DEF SerializePiece, Piece
  <1> QED BY <1>1, <1>2, <1>3, <1>4, <1>5

LEMMA NamedLeaves ==
    ASSUME NEW c, Writes(c), NEW s \in Strings, NEW d, d = Named(s, c)
    PROVE  Leaves(c, d)
  <1> DEFINE x == s # <<>>
             e == [c EXCEPT !.sound = @ /\ x]
  <1>1. d = WriteString(s, e)
    BY DEF Named
  <1> HIDE DEF x
  <1>2. Adds(c, e)
    BY DoubtAdds
  <1> HIDE DEF e
  <1>3. Stringed(s, e, d)
    BY <1>1, <1>2, StringedIs DEF Adds
  <1> QED BY <1>2, <1>3, AddsOn, AddsLeaves DEF Stringed

LEMMA WorderLeaves ==
    ASSUME NEW c, Writes(c), NEW s \in Strings, NEW d, d = Worder(s, c)
    PROVE  Leaves(c, d)
  <1> DEFINE e == Emit(c, <<Marker.string>>)
  <1>1. d = WriteString(s, e)
    BY DEF Worder
  <1>2. <<Marker.string>> \in Strings
    BY MarkerIs DEF Marker
  <1>3. Emitted(c, <<Marker.string>>, e)
    BY <1>2, EmittedIs
  <1> HIDE DEF e
  <1>4. Stringed(s, e, d)
    BY <1>1, <1>3, StringedIs DEF Emitted, Adds
  <1> QED BY <1>3, <1>4, AddsOn, AddsLeaves DEF Stringed, Emitted

LEMMA ByteOneIs ==
    <<1>> \in Strings
  BY SmallIsByte, ByteIsString

LEMMA PieceLeaves ==
    ASSUME HeapOK, NEW n \in Nodes, n.type \in Containers, NEW p, PieceOK(n, p),
           NEW c, Writes(c), NEW d, d = SerializePiece(p, c)
    PROVE  Leaves(c, d)
  <1> DEFINE o == p.of
  <1>0. n.type # "packet" /\ PointsTo(n) \subseteq Names
    BY PointsToIs DEF Containers
  <1>1. CASE p = Piece("item", o) /\ o \in PointsTo(n)
    <2> HIDE DEF o
    <2>1. At(o) \in Nodes /\ At(o).type \in ValueTypes
      BY <1>0, <1>1, InsideIs
    <2>2. d = Serialize(At(o), c)
      BY <1>1, PieceSplit
    <2> QED BY <2>1, <2>2, SerializeLeaves
  <1>2. CASE /\ p = Piece("word", o) /\ o \in PointsTo(n) /\ IsWord(n, o)
             /\ \E q \in n.pairs : q[1] = o
    <2> HIDE DEF o
    <2>1. KeyText(At(o)) \in Strings
      BY <1>0, <1>2, KeyTextIs
    <2>2. d = Worder(KeyText(At(o)), c)
      BY <1>2, PieceSplit
    <2> QED BY <2>1, <2>2, WorderLeaves
  <1>3. CASE p = Piece("name", o) /\ o \in Strings
    <2> HIDE DEF o
    <2> QED BY <1>3, PieceSplit, NamedLeaves
  <1>4. CASE p = Piece("end", <<>>)
    <2>1. Emitted(c, <<1>>, d)
      BY <1>4, PieceSplit, ByteOneIs, EmittedIs
    <2> QED BY <2>1, AddsLeaves DEF Emitted
  <1>5. CASE p = Piece("missing", <<>>)
    BY <1>5, PieceSplit, ThrowAdds, AddsLeaves
  <1> QED BY <1>1, <1>2, <1>3, <1>4, <1>5 DEF PieceOK

-----------------------------------------------------------------------------
(* The calls under way.                                                    *)

\* Only the calls under way change.
LEMMA TodoLeaves ==
    ASSUME NEW c, Writes(c), NEW d, DOMAIN d = CFields, d.buf = c.buf, d.strings = c.strings,
           d.traits = c.traits, d.objects = c.objects, d.thrown = c.thrown,
           d.drifted = c.drifted, d.sound = c.sound,
           IsSeq(d.todo), \A i \in 1 .. Len(d.todo) : Frame(c, d.todo[i])
    PROVE  Leaves(c, d)
  <1>1. \A i \in 1 .. Len(d.todo) : Frame(d, d.todo[i])
    BY DEF Frame
  <1>2. Writes(d)
    BY <1>1 DEF Writes
  <1>3. Begins(c.buf, c.buf)
    BY BeginsSelf DEF Writes
  <1>4. Grows(c, d)
    BY <1>3 DEF Grows
  <1> QED BY <1>2, <1>4 DEF Leaves

\* The innermost call, with the piece i next to be written
FrameAt(c, i) == [node |-> c.todo[Len(c.todo)].node, done |-> i, slot |-> c.todo[Len(c.todo)].slot]

Advance(c, i) == [c EXCEPT !.todo[Len(c.todo)].done = i]
Back(c)       == [c EXCEPT !.todo = Front(@)]

LEMMA StepSplit ==
    ASSUME NEW c
    PROVE  LET call == c.todo[Len(c.todo)]
               next == call.done + 1
           IN SerializeStep(c) = IF next \in DOMAIN Pieces(call.node)
                                 THEN SerializePiece(Pieces(call.node)[next], Advance(c, next))
                                 ELSE Back(c)
  BY DEF SerializeStep, Advance, Back

\* The innermost call is one piece further.
Advanced(c, i, d) ==
    /\ Leaves(c, d) /\ d.buf = c.buf /\ d.strings = c.strings
    /\ d.traits = c.traits /\ d.objects = c.objects /\ d.thrown = c.thrown
    /\ d.drifted = c.drifted /\ d.sound = c.sound
    /\ Len(d.todo) = Len(c.todo)
    /\ \A j \in 1 .. Len(c.todo) - 1 : d.todo[j] = c.todo[j]
    /\ d.todo[Len(c.todo)] = FrameAt(c, i)

LEMMA LastFrame ==
    ASSUME NEW c, Writes(c), c.todo # <<>>
    PROVE  /\ Len(c.todo) \in Nat /\ Len(c.todo) >= 1 /\ Frame(c, c.todo[Len(c.todo)])
  <1>1. Len(c.todo) \in Nat /\ IsSeq(c.todo)
    BY WritesIs DEF Writes
  <1>2. Len(c.todo) # 0
    BY <1>1, SeqNone
  <1>3. Len(c.todo) \in 1 .. Len(c.todo)
    BY <1>1, <1>2
  <1> QED BY <1>1, <1>3 DEF Writes

LEMMA AdvancedIs ==
    ASSUME NEW c, Writes(c), c.todo # <<>>, NEW i,
           i \in 0 .. Len(Pieces(c.todo[Len(c.todo)].node)), NEW d, d = Advance(c, i)
    PROVE  Advanced(c, i, d)
  <1> DEFINE m == Len(c.todo)
             f == c.todo[m]
             g == FrameAt(c, i)
             t == [c.todo EXCEPT ![m] = g]
  <1>1. m \in Nat /\ m >= 1 /\ Frame(c, f)
    BY LastFrame
  <1>2. Frame(c, g)
    <2>1. g.node = f.node /\ g.done = i /\ g.slot = f.slot
          /\ g = [node |-> g.node, done |-> g.done, slot |-> g.slot]
      BY DEF FrameAt
    <2>2. i \in 0 .. Len(Pieces(f.node))
      OBVIOUS
    <2> HIDE DEF g, f
    <2> QED BY <1>1, <2>1, <2>2 DEF Frame
  <1>3. [f EXCEPT !.done = i] = g
    <2>1. f = [node |-> f.node, done |-> f.done, slot |-> f.slot]
      BY <1>1 DEF Frame
    <2> DEFINE x == f.node
               y == f.done
               z == f.slot
    <2> HIDE DEF x, y, z
    <2>2. f = [node |-> x, done |-> y, slot |-> z]
      BY <2>1 DEF x, y, z
    <2>3. [f EXCEPT !.done = i] = [node |-> x, done |-> i, slot |-> z]
      BY <2>2
    <2> QED BY <2>3 DEF x, z, FrameAt
  <1>4. DOMAIN c.todo = 1 .. m /\ IsSeq(c.todo)
    BY SeqHas DEF Writes
  <1>5. d = [c EXCEPT !.todo = t]
    <2>1. d = [c EXCEPT !.todo = [c.todo EXCEPT ![m] = [f EXCEPT !.done = i]]]
      BY DEF Advance
    <2> QED BY <2>1, <1>3
  <1> HIDE DEF f, g
  <1>6. IsSeq(t) /\ Len(t) = m /\ \A j \in 1 .. m : t[j] = IF j = m THEN g ELSE c.todo[j]
    BY <1>4, SeqPut
  <1> HIDE DEF t, m
  <1>7. /\ DOMAIN d = CFields /\ d.buf = c.buf /\ d.strings = c.strings /\ d.traits = c.traits
        /\ d.objects = c.objects /\ d.todo = t /\ d.thrown = c.thrown
        /\ d.drifted = c.drifted /\ d.sound = c.sound
    BY <1>5, CFieldsAre DEF Writes
  <1>8. \A j \in 1 .. Len(d.todo) : Frame(c, d.todo[j])
    <2>1. ASSUME NEW j \in 1 .. m PROVE Frame(c, t[j])
      <3>1. CASE j = m
        BY <3>1, <1>2, <1>6
      <3>2. CASE j # m
        BY <3>2, <1>6 DEF Writes, m
      <3> QED BY <3>1, <3>2
    <2> QED BY <2>1, <1>6, <1>7
  <1>9. Leaves(c, d)
    BY <1>6, <1>7, <1>8, TodoLeaves
  <1>10. /\ \A j \in 1 .. m - 1 : t[j] = c.todo[j]
         /\ t[m] = g
    BY <1>1, <1>6
  <1> QED BY <1>6, <1>7, <1>9, <1>10 DEF Advanced, m, g

\* Back to the item it is a piece of
Backed(c, d) ==
    /\ Leaves(c, d) /\ d.buf = c.buf /\ d.strings = c.strings
    /\ d.traits = c.traits /\ d.objects = c.objects /\ d.thrown = c.thrown
    /\ d.drifted = c.drifted /\ d.sound = c.sound
    /\ Len(d.todo) = Len(c.todo) - 1
    /\ \A j \in 1 .. Len(c.todo) - 1 : d.todo[j] = c.todo[j]

LEMMA BackedIs ==
    ASSUME NEW c, Writes(c), c.todo # <<>>, NEW d, d = Back(c)
    PROVE  Backed(c, d)
  <1> DEFINE m == Len(c.todo)
             t == Front(c.todo)
  <1>1. IsSeq(t) /\ Len(t) = m - 1 /\ m >= 1 /\ \A i \in 1 .. m - 1 : t[i] = c.todo[i]
    BY SeqFront DEF Writes
  <1>2. m \in Nat
    BY LastFrame
  <1>3. d = [c EXCEPT !.todo = t]
    BY DEF Back
  <1> HIDE DEF t, m
  <1>4. /\ DOMAIN d = CFields /\ d.buf = c.buf /\ d.strings = c.strings /\ d.traits = c.traits
        /\ d.objects = c.objects /\ d.todo = t /\ d.thrown = c.thrown
        /\ d.drifted = c.drifted /\ d.sound = c.sound
    BY <1>3, CFieldsAre DEF Writes
  <1>5. \A j \in 1 .. Len(d.todo) : Frame(c, d.todo[j])
    <2>1. ASSUME NEW j \in 1 .. m - 1 PROVE Frame(c, t[j])
      <3>1. j \in 1 .. m
        BY <1>2
      <3> QED BY <3>1, <1>1 DEF Writes, m
    <2> QED BY <2>1, <1>1, <1>4
  <1>6. Leaves(c, d)
    BY <1>1, <1>4, <1>5, TodoLeaves
  <1> QED BY <1>1, <1>4, <1>6 DEF Backed, m

LEMMA StepLeaves ==
    ASSUME HeapOK, NEW c, Writes(c), c.todo # <<>>
    PROVE  Leaves(c, SerializeStep(c))
  <1> DEFINE call == c.todo[Len(c.todo)]
             n == call.node
             next == call.done + 1
             d == SerializeStep(c)
             e == Advance(c, next)
  <1>1. Frame(c, call)
    BY LastFrame
  <1>2. n \in Nodes /\ n.type \in Containers /\ call.done \in 0 .. Len(Pieces(n))
    BY <1>1 DEF Frame
  <1>3. PiecesOK(n, Pieces(n)) /\ Len(Pieces(n)) \in Nat /\ DOMAIN Pieces(n) = 1 .. Len(Pieces(n))
    <2>1. PiecesOK(n, Pieces(n)) /\ Len(Pieces(n)) \in Nat
      BY <1>2, PiecesAre
    <2> QED BY <2>1, SeqHas DEF PiecesOK
  <1>4. CASE next \in DOMAIN Pieces(n)
    <2>1. d = SerializePiece(Pieces(n)[next], e)
      BY <1>4, StepSplit
    <2>2. next \in 1 .. Len(Pieces(n)) /\ next \in 0 .. Len(Pieces(n))
      BY <1>3, <1>4
    <2>3. PieceOK(n, Pieces(n)[next])
      BY <1>3, <2>2 DEF PiecesOK
    <2> HIDE DEF next
    <2>4. Advanced(c, next, e)
      BY <2>2, AdvancedIs
    <2> HIDE DEF d, e, n
    <2>5. Leaves(c, e) /\ Writes(e)
      BY <2>4 DEF Advanced, Leaves
    <2>6. Leaves(e, d)
      BY <1>2, <2>1, <2>3, <2>5, PieceLeaves
    <2>7. Leaves(c, d)
      BY <2>5, <2>6, LeavesOn
    <2> QED BY <2>7 DEF d
  <1>5. CASE next \notin DOMAIN Pieces(n)
    <2>1. d = Back(c)
      BY <1>5, StepSplit
    <2> HIDE DEF d
    <2>2. Backed(c, d)
      BY <2>1, BackedIs
    <2> QED BY <2>2 DEF Backed, d
  <1> QED BY <1>4, <1>5

LEMMA OnLeaves ==
    ASSUME HeapOK, NEW c, Writes(c)
    PROVE  Leaves(c, SerializeOn(c))
  BY StepLeaves, LeavesSelf DEF SerializeOn, Ended

\* The function that SerializeSome defines
LEMMA SomeComputed ==
    ASSUME NEW c, ~Ended(c)
    PROVE  \E run : /\ run[0] = c
                    /\ \A i \in 1 .. 8 : run[i] = SerializeOn(run[i - 1])
                    /\ SerializeSome(c) = run[8]
  <1> DEFINE n == 8
             F(f, m) == f = [i \in 0 .. m |-> IF i = 0 THEN c ELSE SerializeOn(f[i - 1])]
             T == {m \in Nat : \E f : F(f, m)}
  <1>0. n \in Nat
    OBVIOUS
  <1>1. 0 \in T
    <2> DEFINE f == [i \in 0 .. 0 |-> c]
    <2>1. F(f, 0)
      OBVIOUS
    <2> QED BY <2>1
  <1>2. ASSUME NEW m \in Nat, m \in T PROVE m + 1 \in T
    <2>1. PICK f : F(f, m)
      BY <1>2
    <2> DEFINE g == [i \in 0 .. m + 1 |-> IF i <= m THEN f[i] ELSE SerializeOn(f[m])]
    <2>2. \A i \in 0 .. m : g[i] = f[i]
      OBVIOUS
    <2>3. g[m + 1] = SerializeOn(f[m])
      OBVIOUS
    <2>4. ASSUME NEW i \in 0 .. m + 1
          PROVE  g[i] = IF i = 0 THEN c ELSE SerializeOn(g[i - 1])
      <3>1. CASE i <= m
        <4>1. f[i] = IF i = 0 THEN c ELSE SerializeOn(f[i - 1])
          BY <2>1, <3>1
        <4>2. i # 0 => i - 1 \in 0 .. m
          BY <3>1
        <4> HIDE DEF g
        <4> QED BY <2>2, <3>1, <4>1, <4>2
      <3>2. CASE i = m + 1
        <4>1. i # 0 /\ i - 1 = m /\ m \in 0 .. m
          BY <3>2
        <4> HIDE DEF g
        <4> QED BY <2>2, <2>3, <3>2, <4>1
      <3> QED BY <3>1, <3>2
    <2>5. F(g, m + 1)
      BY <2>4
    <2> HIDE DEF F, g
    <2>6. \E h : F(h, m + 1)
      BY <2>5
    <2> QED BY <2>6
  <1> HIDE DEF T
  <1>3. Nat \subseteq T
    BY <1>1, <1>2, Induct
  <1>4. \E f : F(f, n)
    BY <1>0, <1>3 DEF T
  <1> DEFINE run == CHOOSE f : F(f, n)
  <1>5. F(run, n)
    BY <1>4
  <1>6. SerializeSome(c) = run[n]
    BY DEF SerializeSome
  <1>7. run[0] = c /\ \A i \in 1 .. n : run[i] = SerializeOn(run[i - 1])
    <2> HIDE DEF run, n
    <2>1. 0 \in 0 .. n /\ \A i \in 1 .. n : i \in 0 .. n /\ i # 0
      BY <1>0
    <2> QED BY <1>5, <2>1
  <1> HIDE DEF run
  <1> QED BY <1>6, <1>7

LEMMA SomeLeaves ==
    ASSUME HeapOK, NEW c, Writes(c)
    PROVE  Leaves(c, SerializeSome(c))
  <1>1. CASE Ended(c)
    BY <1>1, LeavesSelf DEF SerializeSome
  <1>2. CASE ~Ended(c)
    <2>1. PICK run : /\ run[0] = c
                     /\ \A i \in 1 .. 8 : run[i] = SerializeOn(run[i - 1])
                     /\ SerializeSome(c) = run[8]
      BY <1>2, SomeComputed
    <2> DEFINE T == {i \in Nat : i <= 8 => Leaves(c, run[i])}
    <2>2. 0 \in T
      BY <2>1, LeavesSelf
    <2>3. ASSUME NEW i \in Nat, i \in T PROVE i + 1 \in T
      <3>1. SUFFICES ASSUME i + 1 <= 8 PROVE Leaves(c, run[i + 1])
        OBVIOUS
      <3> DEFINE d == run[i]
                 e == run[i + 1]
      <3>2. i + 1 \in 1 .. 8 /\ (i + 1) - 1 = i /\ Leaves(c, d)
        BY <2>3, <3>1
      <3>3. e = SerializeOn(d) /\ Writes(d)
        BY <2>1, <3>2 DEF Leaves
      <3> HIDE DEF d, e
      <3>4. Leaves(d, e)
        BY <3>3, OnLeaves
      <3>5. Leaves(c, e)
        BY <3>2, <3>3, <3>4, LeavesOn
      <3> QED BY <3>5 DEF e
    <2> HIDE DEF T
    <2>4. Nat \subseteq T
      BY <2>2, <2>3, Induct
    <2> QED BY <2>1, <2>4 DEF T
  <1> QED BY <1>1, <1>2

RunOf(n, c) ==
    LET run[k \in 0 .. MaxSteps] ==
            IF k = 0 THEN Serialize(n, c) ELSE SerializeSome(run[k - 1])
    IN run[MaxSteps]

LEMMA ItemSplit ==
    ASSUME NEW n, NEW c
    PROVE  SerializeItem(n, c) = IF Ended(c) THEN RunOf(n, c) ELSE c
  BY DEF SerializeItem, RunOf

\* The steps of SerializeItem
LEMMA RunComputed ==
    ASSUME NEW x, NEW c, MaxSteps \in Nat
    PROVE  \E run : /\ run[0] = Serialize(x, c)
                    /\ \A i \in 1 .. MaxSteps : run[i] = SerializeSome(run[i - 1])
                    /\ RunOf(x, c) = run[MaxSteps]
  <1> DEFINE n == MaxSteps
             F(f, m) == f = [i \in 0 .. m |-> IF i = 0 THEN Serialize(x, c) ELSE SerializeSome(f[i - 1])]
             T == {m \in Nat : \E f : F(f, m)}
  <1>0. n \in Nat
    OBVIOUS
  <1>1. 0 \in T
    <2> DEFINE f == [i \in 0 .. 0 |-> Serialize(x, c)]
    <2>1. F(f, 0)
      OBVIOUS
    <2> QED BY <2>1
  <1>2. ASSUME NEW m \in Nat, m \in T PROVE m + 1 \in T
    <2>1. PICK f : F(f, m)
      BY <1>2
    <2> DEFINE g == [i \in 0 .. m + 1 |-> IF i <= m THEN f[i] ELSE SerializeSome(f[m])]
    <2>2. \A i \in 0 .. m : g[i] = f[i]
      OBVIOUS
    <2>3. g[m + 1] = SerializeSome(f[m])
      OBVIOUS
    <2>4. ASSUME NEW i \in 0 .. m + 1
          PROVE  g[i] = IF i = 0 THEN Serialize(x, c) ELSE SerializeSome(g[i - 1])
      <3>1. CASE i <= m
        <4>1. f[i] = IF i = 0 THEN Serialize(x, c) ELSE SerializeSome(f[i - 1])
          BY <2>1, <3>1
        <4>2. i # 0 => i - 1 \in 0 .. m
          BY <3>1
        <4> HIDE DEF g
        <4> QED BY <2>2, <3>1, <4>1, <4>2
      <3>2. CASE i = m + 1
        <4>1. i # 0 /\ i - 1 = m /\ m \in 0 .. m
          BY <3>2
        <4> HIDE DEF g
        <4> QED BY <2>2, <2>3, <3>2, <4>1
      <3> QED BY <3>1, <3>2
    <2>5. F(g, m + 1)
      BY <2>4
    <2> HIDE DEF F, g
    <2>6. \E h : F(h, m + 1)
      BY <2>5
    <2> QED BY <2>6
  <1> HIDE DEF T
  <1>3. Nat \subseteq T
    BY <1>1, <1>2, Induct
  <1>4. \E f : F(f, n)
    BY <1>0, <1>3 DEF T
  <1> DEFINE run == CHOOSE f : F(f, n)
  <1>5. F(run, n)
    BY <1>4
  <1>6. RunOf(x, c) = run[n]
    BY DEF RunOf, F
  <1>7. run[0] = Serialize(x, c) /\ \A i \in 1 .. n : run[i] = SerializeSome(run[i - 1])
    <2> HIDE DEF run, n
    <2>1. 0 \in 0 .. n /\ \A i \in 1 .. n : i \in 0 .. n /\ i # 0
      BY <1>0
    <2> QED BY <1>5, <2>1
  <1> HIDE DEF run
  <1> QED BY <1>6, <1>7

LEMMA ItemLeaves ==
    ASSUME HeapOK, NEW n \in Nodes, n.type \in ValueTypes, NEW c, Writes(c)
    PROVE  Leaves(c, SerializeItem(n, c))
  <1>1. MaxSteps \in Nat
    BY AMF3Assumption
  <1>2. PICK run : /\ run[0] = Serialize(n, c)
                   /\ \A i \in 1 .. MaxSteps : run[i] = SerializeSome(run[i - 1])
                   /\ RunOf(n, c) = run[MaxSteps]
    BY <1>1, RunComputed
  <1> DEFINE T == {i \in Nat : i <= MaxSteps => Leaves(c, run[i])}
  <1>3. 0 \in T
    BY <1>2, SerializeLeaves
  <1>4. ASSUME NEW i \in Nat, i \in T PROVE i + 1 \in T
    <2>1. SUFFICES ASSUME i + 1 <= MaxSteps PROVE Leaves(c, run[i + 1])
      OBVIOUS
    <2>2. i + 1 \in 1 .. MaxSteps /\ (i + 1) - 1 = i /\ Leaves(c, run[i])
      BY <1>1, <1>4, <2>1
    <2> DEFINE e == run[i]
               f == run[i + 1]
    <2>3. f = SerializeSome(e)
      BY <1>2, <2>2
    <2> HIDE DEF e, f
    <2>4. Leaves(c, e) /\ Writes(e)
      BY <2>2 DEF Leaves, e
    <2>5. Leaves(e, f)
      BY <2>3, <2>4, SomeLeaves
    <2>6. Leaves(c, f)
      BY <2>4, <2>5, LeavesOn
    <2> QED BY <2>6 DEF f
  <1> HIDE DEF T
  <1>5. Nat \subseteq T
    BY <1>3, <1>4, Induct
  <1>6. Leaves(c, RunOf(n, c))
    BY <1>1, <1>2, <1>5 DEF T
  <1> QED BY <1>6, ItemSplit, LeavesSelf

-----------------------------------------------------------------------------
(* Packets.                                                                *)

LEMMA NameAdds ==
    ASSUME NEW c, Writes(c), NEW s \in Strings, NEW d, d = EmitName(c, s)
    PROVE  Adds(c, d)
  <1> DEFINE b == Count16(Len(s))
             room == Len(s) < 65536
             e == EmitNumber(c, b, room)
  <1>1. d = Emit(e, s)
    BY DEF EmitName
  <1>2. b \in Strings
    BY StringHas, CountIsString
  <1> HIDE DEF b, room
  <1>3. Counted(c, b, room, e)
    BY <1>2, CountedIs
  <1> HIDE DEF e
  <1>4. Emitted(e, s, d)
    BY <1>1, <1>3, EmittedIs DEF Counted, Adds
  <1> QED BY <1>3, <1>4, AddsOn DEF Counted, Emitted

\* What is behind the length of a value
Enclosed(s) == <<17>> \o s

LEMMA EnclosedIs ==
    ASSUME NEW s \in Strings
    PROVE  Enclosed(s) \in Strings /\ Len(Enclosed(s)) = Len(s) + 1
  <1>1. <<17>> \in Strings /\ Len(<<17>>) = 1
    BY SmallIsByte, ByteIsString
  <1> DEFINE b == <<17>>
  <1> HIDE DEF b
  <1>2. b \o s \in Strings /\ Len(b \o s) = Len(b) + Len(s) /\ Len(b) = 1 /\ Len(s) \in Nat
    BY <1>1, ConcatIsString DEF b
  <1> QED BY <1>2 DEF Enclosed, b

LEMMA ValueAdds ==
    ASSUME NEW c, Writes(c), NEW v, v.buf \in Strings, NEW d, d = EmitValue(c, v)
    PROVE  Adds(c, d)
  <1> DEFINE k == Len(v.buf) + 1
             b == Count32(k)
             room == k < MaxInt
             e == EmitNumber(c, b, room)
             s == Enclosed(v.buf)
  <1>1. d = Emit(e, s)
    BY DEF EmitValue, Enclosed
  <1>2. b \in Strings
    <2>1. k \in Nat
      BY StringHas
    <2> HIDE DEF k
    <2> QED BY <2>1, CountIsString
  <1>3. s \in Strings
    BY EnclosedIs
  <1> HIDE DEF b, room, s
  <1>4. Counted(c, b, room, e)
    BY <1>2, CountedIs
  <1> HIDE DEF e
  <1>5. Emitted(e, s, d)
    BY <1>1, <1>3, <1>4, EmittedIs DEF Counted, Adds
  <1> QED BY <1>4, <1>5, AddsOn DEF Counted, Emitted

Rebuf(c, b) == [c EXCEPT !.buf = b]

LEMMA RebufWrites ==
    ASSUME NEW c, Writes(c), NEW b \in Strings, NEW d, d = Rebuf(c, b)
    PROVE  /\ Writes(d) /\ d.buf = b /\ d.strings = c.strings /\ d.traits = c.traits
           /\ d.objects = c.objects /\ d.todo = c.todo /\ d.thrown = c.thrown
           /\ d.drifted = c.drifted /\ d.sound = c.sound
  <1>1. /\ DOMAIN d = CFields /\ d.buf = b /\ d.strings = c.strings /\ d.traits = c.traits
        /\ d.objects = c.objects /\ d.todo = c.todo /\ d.thrown = c.thrown
        /\ d.drifted = c.drifted /\ d.sound = c.sound
    BY CFieldsAre DEF Rebuf, Writes
  <1>2. \A i \in 1 .. Len(d.todo) : Frame(d, d.todo[i])
    BY <1>1 DEF Writes, Frame
  <1>3. Writes(d)
    BY <1>1, <1>2 DEF Writes
  <1> QED BY <1>1, <1>3

\* The calls of SerializePart, one by one
Valued(n, c)  == SerializeItem(At(n.items[1]), Rebuf(c, <<>>))
PartName(n, c)   == EmitName(Rebuf(Valued(n, c), c.buf), n.name)
PartSecond(n, c) == IF n.type = "header"
                    THEN Emit(PartName(n, c), BoolByte("mustUnderstand" \in n.flags))
                    ELSE EmitName(PartName(n, c), n.value)

LEMMA PartSplit ==
    ASSUME NEW n, NEW c
    PROVE  SerializePart(n, c) = EmitValue(PartSecond(n, c), Valued(n, c))
  BY DEF SerializePart, EmitPart, EmitSecond, PartSecond, PartName, Valued, Rebuf, BoolByte

LEMMA PartFits ==
    ASSUME HeapOK, NEW n \in Nodes, n.type \in PartTypes
    PROVE  /\ Len(n.items) = 1 /\ At(n.items[1]) \in Nodes /\ At(n.items[1]).type \in ValueTypes
           /\ n.name \in Strings /\ n.value \in Strings
  <1>1. n.type # "packet" /\ n.type \notin {"integer", "double", "date", "object"} /\ n.type \notin Vectors
    BY DEF PartTypes, Vectors
  <1>2. Len(n.items) = 1
    BY <1>1, NodeIs DEF PartsFit
  <1>3. n.items \in Seq(Names) /\ n.name \in Strings /\ ValueOf(n)
    BY NodeIs DEF ItemOf
  <1>4. n.value \in Strings
    BY <1>1, <1>3 DEF ValueOf
  <1>5. 1 \in DOMAIN n.items
    BY <1>2, <1>3
  <1>6. n.items[1] \in PointsTo(n)
    BY <1>5, PointsToIs
  <1> QED BY <1>1, <1>2, <1>3, <1>4, <1>6, InsideIs

LEMMA NoBytes ==
    <<>> \in Strings /\ Len(<<>>) = 0
  BY DEF Strings

LEMMA PartLeaves ==
    ASSUME HeapOK, NEW n \in Nodes, n.type \in PartTypes, NEW c, Writes(c),
           NEW d, d = SerializePart(n, c)
    PROVE  Leaves(c, d)
  <1> DEFINE c0 == Rebuf(c, <<>>)
             v  == Valued(n, c)
             v1 == Rebuf(v, c.buf)
             p  == PartName(n, c)
             q  == PartSecond(n, c)
  <1>1. /\ At(n.items[1]) \in Nodes /\ At(n.items[1]).type \in ValueTypes
        /\ n.name \in Strings /\ n.value \in Strings
    BY PartFits
  <1>2. c.buf \in Strings
    BY DEF Writes
  <1>3. Writes(c0) /\ c0.thrown = c.thrown /\ c0.drifted = c.drifted /\ c0.sound = c.sound
    BY NoBytes, RebufWrites
  <1>4. Leaves(c0, v)
    BY <1>1, <1>3, ItemLeaves DEF Valued
  <1> HIDE DEF c0
  <1>5. Writes(v) /\ v.buf \in Strings
    BY <1>4 DEF Leaves, Writes
  <1>6. /\ Writes(v1) /\ v1.buf = c.buf /\ v1.thrown = v.thrown
        /\ v1.drifted = v.drifted /\ v1.sound = v.sound
    BY <1>2, <1>5, RebufWrites
  <1>7. Leaves(c, v1)
    <2>1. Begins(c.buf, c.buf)
      BY <1>2, BeginsSelf
    <2>2. Grows(c, v1)
      BY <2>1, <1>3, <1>4, <1>6 DEF Leaves, Grows
    <2> QED BY <1>6, <2>2 DEF Leaves
  <1>8. p = EmitName(v1, n.name)
    BY DEF PartName
  <1>9. d = EmitValue(q, v)
    BY PartSplit
  <1>10. q = IF n.type = "header" THEN Emit(p, BoolByte("mustUnderstand" \in n.flags))
                                  ELSE EmitName(p, n.value)
    BY DEF PartSecond
  <1> HIDE DEF v1, v, p, q
  <1>11. Adds(v1, p)
    BY <1>1, <1>6, <1>8, NameAdds
  <1>12. Adds(p, q)
    <2>1. Writes(p)
      BY <1>11 DEF Adds
    <2>2. CASE n.type = "header"
      <3>1. Emitted(p, BoolByte("mustUnderstand" \in n.flags), q)
        BY <1>10, <2>1, <2>2, BoolByteIs, EmittedIs
      <3> QED BY <3>1 DEF Emitted
    <2>3. CASE n.type # "header"
      BY <1>1, <1>10, <2>1, <2>3, NameAdds
    <2> QED BY <2>2, <2>3
  <1>13. Adds(q, d)
    BY <1>5, <1>9, <1>12, ValueAdds DEF Adds
  <1>14. Adds(v1, d)
    BY <1>6, <1>11, <1>12, <1>13, AddsOn
  <1> QED BY <1>7, <1>14, AddsLeaves, LeavesOn

\* The parts of a packet
LEMMA PartsAre ==
    ASSUME HeapOK, NEW n \in Nodes, n.type = "packet", NEW kind
    PROVE  LET s == PartsOf(n, kind)
           IN /\ s \in Seq(Names) /\ Len(s) \in Nat
              /\ \A i \in 1 .. Len(s) : At(s[i]) \in Nodes /\ At(s[i]).type \in PartTypes
  <1> DEFINE m == Len(n.items)
             H == {i \in DOMAIN n.items : At(n.items[i]).type = "header"}
             h == Cardinality(H)
             s == PartsOf(n, kind)
  <1>1. n.items \in Seq(Names) /\ m \in Nat /\ DOMAIN n.items = 1 .. m
    BY NodeIs DEF ItemOf
  <1>2. h \in Nat /\ h <= m
    <2>1. IsFiniteSet(1 .. m) /\ Cardinality(1 .. m) = m
      BY <1>1, FS_Interval
    <2>2. H \in SUBSET (1 .. m)
      BY <1>1
    <2> QED BY <2>1, <2>2, FS_Subset, FS_CardinalityType
  <1>3. ASSUME NEW o \in Names, NEW i \in DOMAIN n.items, o = n.items[i]
        PROVE  At(o) \in Nodes /\ At(o).type \in PartTypes
    <2>1. At(o) \in Versions(o) /\ At(o) \in Nodes
      BY AtIs
    <2>2. PICK t \in PartTypes : {k.type : k \in Versions(o)} = {t}
      BY <1>3, NodeIs DEF PartsFit
    <2>3. At(o).type \in {k.type : k \in Versions(o)}
      BY <2>1
    <2> QED BY <2>1, <2>2, <2>3
  <1> HIDE DEF H
  <1>4. CASE kind = "header"
    <2>1. s = SubSeq(n.items, 1, h)
      BY <1>4 DEF PartsOf, H
    <2> HIDE DEF h, m, s
    <2>2. s \in Seq(Names) /\ Len(s) = h
      BY <1>1, <1>2, <2>1 DEF m
    <2>3. \A i \in 1 .. h : i \in DOMAIN n.items /\ s[i] = n.items[i] /\ s[i] \in Names
      BY <1>1, <1>2, <2>1 DEF m
    <2>4. ASSUME NEW i \in 1 .. Len(s) PROVE At(s[i]) \in Nodes /\ At(s[i]).type \in PartTypes
      <3> DEFINE o == s[i]
      <3>1. o \in Names /\ i \in DOMAIN n.items /\ o = n.items[i]
        BY <2>2, <2>3
      <3> HIDE DEF o
      <3>2. At(o) \in Nodes /\ At(o).type \in PartTypes
        BY <3>1, <1>3
      <3> QED BY <3>2 DEF o
    <2> QED BY <1>2, <2>2, <2>4 DEF s
  <1>5. CASE kind # "header"
    <2>1. s = SubSeq(n.items, h + 1, m)
      BY <1>5 DEF PartsOf, H
    <2> HIDE DEF h, m, s
    <2>2. s \in Seq(Names) /\ Len(s) = m - h
      BY <1>1, <1>2, <2>1 DEF m
    <2>3. \A i \in 1 .. m - h : h + i \in DOMAIN n.items /\ s[i] = n.items[h + i] /\ s[i] \in Names
      BY <1>1, <1>2, <2>1 DEF m
    <2>4. ASSUME NEW i \in 1 .. Len(s) PROVE At(s[i]) \in Nodes /\ At(s[i]).type \in PartTypes
      <3> DEFINE o == s[i]
                 j == h + i
      <3>1. o \in Names /\ j \in DOMAIN n.items /\ o = n.items[j]
        BY <2>2, <2>3
      <3> HIDE DEF o, j
      <3>2. At(o) \in Nodes /\ At(o).type \in PartTypes
        BY <3>1, <1>3
      <3> QED BY <3>2 DEF o
    <2>5. m - h \in Nat
      BY <1>1, <1>2
    <2> QED BY <2>2, <2>4, <2>5 DEF s
  <1> QED BY <1>4, <1>5

\* The count of the parts, and the next part
PartsHead(n, kind, c)    == EmitNumber(c, Count16(Len(PartsOf(n, kind))), TRUE)
PartStep(n, kind, i, c)  == SerializePart(At(PartsOf(n, kind)[i]), c)

\* The steps of SerializeParts
LEMMA PartsRun ==
    ASSUME NEW x, NEW kind, NEW c, Len(PartsOf(x, kind)) \in Nat
    PROVE  \E run : /\ run[0] = PartsHead(x, kind, c)
                    /\ \A i \in 1 .. Len(PartsOf(x, kind)) : run[i] = PartStep(x, kind, i, run[i - 1])
                    /\ SerializeParts(x, kind, c) = run[Len(PartsOf(x, kind))]
  <1> DEFINE n == Len(PartsOf(x, kind))
             F(f, m) == f = [i \in 0 .. m |-> IF i = 0 THEN PartsHead(x, kind, c) ELSE PartStep(x, kind, i, f[i - 1])]
             T == {m \in Nat : \E f : F(f, m)}
  <1>0. n \in Nat
    OBVIOUS
  <1>1. 0 \in T
    <2> DEFINE f == [i \in 0 .. 0 |-> PartsHead(x, kind, c)]
    <2>1. F(f, 0)
      OBVIOUS
    <2> QED BY <2>1
  <1>2. ASSUME NEW m \in Nat, m \in T PROVE m + 1 \in T
    <2>1. PICK f : F(f, m)
      BY <1>2
    <2> DEFINE g == [i \in 0 .. m + 1 |-> IF i <= m THEN f[i] ELSE PartStep(x, kind, m + 1, f[m])]
    <2>2. \A i \in 0 .. m : g[i] = f[i]
      OBVIOUS
    <2>3. g[m + 1] = PartStep(x, kind, m + 1, f[m])
      OBVIOUS
    <2>4. ASSUME NEW i \in 0 .. m + 1
          PROVE  g[i] = IF i = 0 THEN PartsHead(x, kind, c) ELSE PartStep(x, kind, i, g[i - 1])
      <3>1. CASE i <= m
        <4>1. f[i] = IF i = 0 THEN PartsHead(x, kind, c) ELSE PartStep(x, kind, i, f[i - 1])
          BY <2>1, <3>1
        <4>2. i # 0 => i - 1 \in 0 .. m
          BY <3>1
        <4> HIDE DEF g
        <4> QED BY <2>2, <3>1, <4>1, <4>2
      <3>2. CASE i = m + 1
        <4>1. i # 0 /\ i - 1 = m /\ m \in 0 .. m
          BY <3>2
        <4> HIDE DEF g
        <4> QED BY <2>2, <2>3, <3>2, <4>1
      <3> QED BY <3>1, <3>2
    <2>5. F(g, m + 1)
      BY <2>4
    <2> HIDE DEF F, g
    <2>6. \E h : F(h, m + 1)
      BY <2>5
    <2> QED BY <2>6
  <1> HIDE DEF T
  <1>3. Nat \subseteq T
    BY <1>1, <1>2, Induct
  <1>4. \E f : F(f, n)
    BY <1>0, <1>3 DEF T
  <1> DEFINE run == CHOOSE f : F(f, n)
  <1>5. F(run, n)
    BY <1>4
  <1>6. SerializeParts(x, kind, c) = run[n]
    BY DEF SerializeParts, F, PartsHead, PartStep
  <1>7. run[0] = PartsHead(x, kind, c) /\ \A i \in 1 .. n : run[i] = PartStep(x, kind, i, run[i - 1])
    <2> HIDE DEF run, n
    <2>1. 0 \in 0 .. n /\ \A i \in 1 .. n : i \in 0 .. n /\ i # 0
      BY <1>0
    <2> QED BY <1>5, <2>1
  <1> HIDE DEF run
  <1> QED BY <1>6, <1>7

LEMMA PartsLeave ==
    ASSUME HeapOK, NEW n \in Nodes, n.type = "packet", NEW kind, NEW c, Writes(c)
    PROVE  Leaves(c, SerializeParts(n, kind, c))
  <1> DEFINE s == PartsOf(n, kind)
             m == Len(s)
  <1>1. m \in Nat /\ \A i \in 1 .. m : At(s[i]) \in Nodes /\ At(s[i]).type \in PartTypes
    BY PartsAre
  <1>2. PICK run : /\ run[0] = PartsHead(n, kind, c)
                   /\ \A i \in 1 .. m : run[i] = PartStep(n, kind, i, run[i - 1])
                   /\ SerializeParts(n, kind, c) = run[m]
    BY <1>1, PartsRun
  <1>3. Leaves(c, PartsHead(n, kind, c))
    <2> DEFINE b == Count16(m)
    <2>1. b \in Strings
      BY <1>1, CountIsString
    <2>2. PartsHead(n, kind, c) = EmitNumber(c, b, TRUE)
      BY DEF PartsHead
    <2> HIDE DEF b
    <2>3. Counted(c, b, TRUE, PartsHead(n, kind, c))
      BY <2>1, <2>2, CountedIs
    <2> QED BY <2>3, AddsLeaves DEF Counted
  <1>4. ASSUME NEW i \in 1 .. m, NEW e, Writes(e) PROVE Leaves(e, PartStep(n, kind, i, e))
    <2>1. At(s[i]) \in Nodes /\ At(s[i]).type \in PartTypes
      BY <1>1
    <2>2. PartStep(n, kind, i, e) = SerializePart(At(s[i]), e)
      BY DEF PartStep
    <2> HIDE DEF s
    <2> QED BY <1>4, <2>1, <2>2, PartLeaves
  <1> HIDE DEF m
  <1> DEFINE T == {i \in Nat : i <= m => Leaves(c, run[i])}
  <1>5. 0 \in T
    BY <1>2, <1>3
  <1>6. ASSUME NEW i \in Nat, i \in T PROVE i + 1 \in T
    <2>1. SUFFICES ASSUME i + 1 <= m PROVE Leaves(c, run[i + 1])
      OBVIOUS
    <2>2. i + 1 \in 1 .. m /\ (i + 1) - 1 = i /\ Leaves(c, run[i])
      BY <1>1, <1>6, <2>1
    <2> DEFINE e == run[i]
               f == run[i + 1]
    <2>3. f = PartStep(n, kind, i + 1, e)
      BY <1>2, <2>2
    <2> HIDE DEF e, f
    <2>4. Leaves(c, e) /\ Writes(e)
      BY <2>2 DEF Leaves, e
    <2>5. Leaves(e, f)
      BY <1>4, <2>2, <2>3, <2>4
    <2>6. Leaves(c, f)
      BY <2>4, <2>5, LeavesOn
    <2> QED BY <2>6 DEF f
  <1> HIDE DEF T
  <1>7. Nat \subseteq T
    BY <1>5, <1>6, Induct
  <1> QED BY <1>1, <1>2, <1>7 DEF T

LEMMA VersionIs ==
    <<0, 3>> \in Strings /\ Len(<<0, 3>>) = 2
  BY SmallIsByte DEF Strings

LEMMA PacketLeaves ==
    ASSUME HeapOK, NEW n \in Nodes, n.type = "packet", NEW c, Writes(c)
    PROVE  Leaves(c, SerializePacket(n, c))
  <1> DEFINE e == Emit(c, <<0, 3>>)
             h == SerializeParts(n, "header", e)
             m == SerializeParts(n, "message", h)
  <1>1. SerializePacket(n, c) = Throw(c) \/ SerializePacket(n, c) = m
    BY DEF SerializePacket
  <1>2. Emitted(c, <<0, 3>>, e)
    BY VersionIs, EmittedIs
  <1>3. Leaves(c, e) /\ Writes(e)
    BY <1>2, AddsLeaves DEF Emitted, Leaves
  <1> HIDE DEF e
  <1>4. Leaves(e, h)
    BY <1>3, PartsLeave
  <1>5. Leaves(c, h) /\ Writes(h)
    BY <1>3, <1>4, LeavesOn DEF Leaves
  <1> HIDE DEF h
  <1>6. Leaves(h, m)
    BY <1>5, PartsLeave
  <1>7. Leaves(c, m)
    BY <1>5, <1>6, LeavesOn
  <1> QED BY <1>1, <1>7, ThrowAdds, AddsLeaves

-----------------------------------------------------------------------------
(* The bytes, the tables and the iterator are what they should be.         *)

\* The serializer between two calls
Flat(c) ==
    /\ DOMAIN c = CFields
    /\ c.buf \in Strings
    /\ c.strings \in Seq(Strings \ {<<>>})
    /\ IsSeq(c.traits)
    /\ \A i \in 1 .. Len(c.traits) :
          /\ \E n \in Nodes : c.traits[i] = Traits(n)
          /\ c.traits[i].name = <<>> \/ \E j \in 1 .. Len(c.strings) : c.strings[j] = c.traits[i].name
    /\ IsSeq(c.objects)
    /\ \A i \in 1 .. Len(c.objects) : c.objects[i].copy \in Nodes
    /\ c.todo = <<>>
    /\ c.thrown = FALSE
    /\ c.drifted \in BOOLEAN /\ c.sound \in BOOLEAN

\* The deserializer between two calls
Calm(r) == /\ DOMAIN r = Fields
           /\ r.at \in Nat /\ r.at >= 1
           /\ r.strings \in Seq(Strings \ {<<>>})
           /\ r.thrown \in BOOLEAN
           /\ r.num = 0 /\ r.str = <<>> /\ r.stack = <<>>

\* The first n bytes of the stream
Prefix(n) == SubSeq(Buf, 1, n)

StreamOK == /\ Len(wire) \in 0 .. Len(Buf)
            /\ wire = Prefix(Len(wire))
            /\ reader.at <= Len(wire) + 1 \/ Strayed(reader.at, wire)

TypeInv == host \in Hosts /\ HeapOK /\ Flat(writer) /\ Calm(reader) /\ StreamOK

LEMMA FlatIs ==
    ASSUME NEW c
    PROVE  Flat(c) <=> Writes(c) /\ c.todo = <<>> /\ c.thrown = FALSE
  <1>1. ASSUME Flat(c) PROVE Writes(c)
    <2>1. IsSeq(c.todo) /\ Len(c.todo) = 0
      BY <1>1, SeqNone DEF Flat
    <2>2. 1 .. Len(c.todo) = {}
      BY <2>1
    <2> QED BY <1>1, <2>1, <2>2 DEF Flat, Writes
  <1>2. ASSUME Writes(c), c.todo = <<>>, c.thrown = FALSE PROVE Flat(c)
    BY <1>2 DEF Flat, Writes
  <1> QED BY <1>1, <1>2 DEF Flat

LEMMA PrefixIs ==
    ASSUME Buf \in Strings, NEW n \in 0 .. Len(Buf)
    PROVE  /\ Prefix(n) \in Strings /\ Len(Prefix(n)) = n
           /\ \A i \in 1 .. n : Prefix(n)[i] = Buf[i]
           /\ Prefix(Len(Prefix(n))) = Prefix(n)
  <1> DEFINE b == Buf
  <1>1. b \in Seq(Bytes) /\ Len(b) \in Nat
    BY StringHas DEF Strings
  <1> HIDE DEF b
  <1>2. n \in Nat /\ n <= Len(b)
    BY <1>1 DEF b
  <1>3. \A i \in 1 .. n : b[i] \in Bytes
    BY <1>1, <1>2
  <1>4. /\ SubSeq(b, 1, n) \in Seq(Bytes)
        /\ Len(SubSeq(b, 1, n)) = IF 1 <= n THEN n - 1 + 1 ELSE 0
        /\ \A i \in 1 .. n - 1 + 1 : SubSeq(b, 1, n)[i] = b[1 + i - 1]
    BY <1>2, <1>3, SubSeqProperties
  <1>5. Prefix(n) = SubSeq(b, 1, n)
    BY DEF Prefix, b
  <1> DEFINE p == SubSeq(b, 1, n)
  <1> HIDE DEF p
  <1>6. Len(p) = n /\ \A i \in 1 .. n : p[i] = b[i]
    BY <1>2, <1>4 DEF p
  <1>7. p \in Strings
    BY <1>4 DEF p, Strings
  <1> QED BY <1>5, <1>6, <1>7 DEF p, b

Given(r, w) == [r EXCEPT !.data = w]

LEMMA CalmReads ==
    ASSUME NEW r, Calm(r), NEW w \in Strings, r.at <= Len(w) + 1,
           NEW g, g = Given(r, w)
    PROVE  Reading(g) /\ g.stack = <<>> /\ g.data = w
  <1>1. /\ DOMAIN g = Fields /\ g.data = w /\ g.at = r.at /\ g.strings = r.strings /\ g.str = <<>>
        /\ g.num = 0 /\ g.thrown = r.thrown /\ g.stack = <<>>
    BY FieldsAre DEF Calm, Given
  <1>2. g.at \in 1 .. (Len(w) + 1)
    BY <1>1, StringHas DEF Calm
  <1> QED BY <1>1, <1>2, SeqNone, NoBytes DEF Reading, Calm

LEMMA SettledIs ==
    ASSUME NEW r, Reading(r), NEW s, s = Settled(r)
    PROVE  /\ Calm(s) /\ s.at <= Len(r.data) + 1
           /\ s.at = r.at /\ s.thrown = r.thrown /\ s.strings = r.strings
           /\ s.traits = r.traits /\ s.objects = r.objects
  <1>1. /\ DOMAIN s = Fields /\ s.at = r.at /\ s.strings = r.strings /\ s.str = <<>>
        /\ s.num = 0 /\ s.thrown = r.thrown /\ s.stack = <<>>
        /\ s.traits = r.traits /\ s.objects = r.objects
    BY FieldsAre DEF Settled, NewReader
  <1>2. r.at \in Nat /\ r.at >= 1 /\ r.at <= Len(r.data) + 1
    BY ReadingIs
  <1> QED BY <1>1, <1>2 DEF Calm, Reading

\* A call that strayed leaves a reader, whether it is noticed or not.
LEMMA AstraySettled ==
    ASSUME NEW r, Astray(r), r.data \in Strings, NEW s, s = Settled(r), NEW t, t = [s EXCEPT !.thrown = FALSE]
    PROVE  Calm(s) /\ s.at = r.at /\ Calm(t) /\ t.at = r.at
  <1>1. /\ DOMAIN s = Fields /\ s.at = r.at /\ s.strings = r.strings /\ s.str = <<>>
        /\ s.num = 0 /\ s.thrown = r.thrown /\ s.stack = <<>>
    BY FieldsAre DEF Settled, NewReader
  <1>2. /\ DOMAIN t = Fields /\ t.at = r.at /\ t.strings = r.strings /\ t.str = <<>>
        /\ t.num = 0 /\ t.thrown = FALSE /\ t.stack = <<>>
    BY <1>1, FieldsAre
  <1>3. r.at \in Nat /\ r.at >= 1
    <2> DEFINE l == Len(r.data)
    <2>1. l >= 4 /\ r.at = l + 2 /\ l \in Nat
      BY StringHas DEF Astray, Strayed
    <2> HIDE DEF l
    <2> QED BY <2>1
  <1> QED BY <1>1, <1>2, <1>3 DEF Calm, Astray

LEMMA FirstReader ==
    Calm(NewReader) /\ NewReader.at = 1
  <1>1. <<>> \in Seq(Strings \ {<<>>})
    OBVIOUS
  <1> QED BY <1>1 DEF Calm, NewReader, Fields

LEMMA FirstWriter ==
    Flat(EmptyContext) /\ EmptyContext.buf = <<>>
  <1> DEFINE c == EmptyContext
  <1>1. /\ DOMAIN c = CFields /\ c.buf = <<>> /\ c.strings = <<>> /\ c.traits = <<>>
        /\ c.objects = <<>> /\ c.todo = <<>> /\ c.thrown = FALSE
        /\ c.drifted = FALSE /\ c.sound = TRUE
    BY DEF EmptyContext, CFields
  <1> HIDE DEF c
  <1>2. <<>> \in Seq(Strings \ {<<>>}) /\ 1 .. 0 = {}
    OBVIOUS
  <1> QED BY <1>1, <1>2, SeqNone, NoBytes DEF Flat, c

\* What the program hands to the serializer
LEMMA RootIs ==
    ASSUME HeapOK, NEW o \in Roots
    PROVE  At(o) \in Nodes /\ (At(o).type \in ValueTypes \/ At(o).type = "packet")
  <1>1. o \in Names /\ \A n \in Versions(o) : n.type \in ValueTypes \cup {"packet"}
    BY AMF3Assumption
  <1> QED BY <1>1, AtIs

LEMMA WroteLeaves ==
    ASSUME HeapOK, NEW n \in Nodes, n.type \in ValueTypes \/ n.type = "packet",
           NEW c, Writes(c)
    PROVE  Leaves(c, Wrote(n, c))
  BY PacketLeaves, ItemLeaves DEF Wrote

LEMMA WriteIs ==
    ASSUME HeapOK, NEW n \in Nodes, n.type \in ValueTypes \/ n.type = "packet",
           Flat(writer), Write(n)
    PROVE  Flat(writer') /\ host' = host /\ heap' = heap
  <1> DEFINE c == Wrote(n, writer)
             moved == Moved(c)
  <1>1. Ended(c) /\ host' = host /\ heap' = heap
    BY DEF Write, Conclude
  <1>2. /\ c.thrown => writer' = [c EXCEPT !.thrown = FALSE, !.todo = <<>>, !.buf = writer.buf,
                                          !.sound = writer.sound,
                                          !.drifted = writer.drifted \/ moved]
        /\ ~c.thrown => writer' = c
    BY DEF Write, Conclude
  <1>3. Writes(c)
    BY FlatIs, WroteLeaves DEF Leaves
  <1> HIDE DEF c, moved
  <1>4. CASE c.thrown
    <2> DEFINE d == [c EXCEPT !.thrown = FALSE, !.todo = <<>>, !.buf = writer.buf,
                              !.sound = writer.sound, !.drifted = writer.drifted \/ moved]
    <2>1. /\ DOMAIN d = CFields /\ d.buf = writer.buf /\ d.strings = c.strings /\ d.traits = c.traits
          /\ d.objects = c.objects /\ d.todo = <<>> /\ d.thrown = FALSE
          /\ d.drifted = (writer.drifted \/ moved) /\ d.sound = writer.sound
      BY <1>3, CFieldsAre DEF Writes
    <2>2. writer' = d
      BY <1>2, <1>4
    <2> HIDE DEF d
    <2>3. d.drifted \in BOOLEAN
      BY <2>1
    <2>4. Flat(d)
      BY <1>3, <2>1, <2>3 DEF Writes, Flat
    <2> QED BY <1>1, <2>2, <2>4
  <1>5. CASE ~c.thrown
    <2>1. c.todo = <<>> /\ c.thrown = FALSE
      BY <1>1, <1>3, <1>5 DEF Ended, Writes
    <2>2. Flat(c)
      BY <1>3, <2>1, FlatIs
    <2> QED BY <1>1, <1>2, <1>5, <2>2
  <1> QED BY <1>4, <1>5

-----------------------------------------------------------------------------
(* The actions.                                                            *)

LEMMA InitTypeInv ==
    ASSUME Init
    PROVE  TypeInv
  <1>1. /\ host \in Hosts /\ heap = [o \in {c[1] : c \in Changes} |-> Heap0[o]]
        /\ writer = EmptyContext /\ wire = <<>> /\ reader = NewReader
    BY DEF Init, InitSerializer, InitDeserializer
  <1>2. HeapOK
    <2>1. \A o \in {c[1] : c \in Changes} : Heap0[o] \in Versions(o)
      BY DEF Versions
    <2> QED BY <1>1, <2>1 DEF HeapOK
  <1>3. Flat(writer) /\ Buf = <<>>
    BY <1>1, FirstWriter DEF Buf
  <1>4. StreamOK
    <2>1. Prefix(0) = <<>>
      BY <1>3 DEF Prefix
    <2> QED BY <1>1, <1>3, <2>1, NoBytes, FirstReader DEF StreamOK
  <1> QED BY <1>1, <1>2, <1>3, <1>4, FirstReader DEF TypeInv

\* Nothing has arrived, and the serializer goes on.
LEMMA SilentStream ==
    ASSUME TypeInv, wire = <<>>, UNCHANGED <<wire, reader>>, Flat(writer')
    PROVE  StreamOK'
  <1>1. Buf' \in Strings
    BY DEF Flat, Buf
  <1>2. Len(Buf') \in Nat
    BY <1>1, StringHas
  <1>3. Prefix(0)' = <<>>
    <2> DEFINE b == Buf'
    <2>1. b \in Seq(Bytes)
      BY <1>1 DEF Strings
    <2> HIDE DEF b
    <2>2. SubSeq(b, 1, 0) = <<>>
      BY <2>1
    <2> QED BY <2>2 DEF Prefix, b
  <1>4. wire' = <<>> /\ reader' = reader /\ reader.at <= Len(wire) + 1
    BY NoBytes DEF TypeInv, StreamOK, Strayed
  <1> QED BY <1>2, <1>3, <1>4, NoBytes DEF StreamOK

LEMMA WriteTypeInv ==
    ASSUME TypeInv, WriteItem
    PROVE  TypeInv'
  <1>1. PICK o \in Roots : Write(At(o))
    BY DEF WriteItem
  <1>2. HeapOK /\ Flat(writer)
    BY DEF TypeInv
  <1>3. Flat(writer') /\ host' = host /\ heap' = heap
    BY <1>1, <1>2, RootIs, WriteIs
  <1>4. wire = <<>> /\ UNCHANGED <<wire, reader>>
    BY DEF WriteItem, Writing, deserializerVars
  <1>5. StreamOK'
    BY <1>3, <1>4, SilentStream
  <1> QED BY <1>3, <1>4, <1>5 DEF TypeInv, HeapOK

LEMMA ChangeTypeInv ==
    ASSUME TypeInv, ChangeItem
    PROVE  TypeInv'
  <1>1. PICK c \in Changes : Change(c[1], c[2])
    BY DEF ChangeItem
  <1>2. /\ heap' = [heap EXCEPT ![c[1]] = c[2]] /\ host' = host /\ writer' = writer
        /\ wire = <<>> /\ UNCHANGED <<wire, reader>>
    BY <1>1 DEF ChangeItem, Change, Writing, deserializerVars
  <1>3. HeapOK'
    <2>1. c[2] \in Versions(c[1])
      BY DEF Versions
    <2> QED BY <1>2, <2>1 DEF TypeInv, HeapOK
  <1>4. Flat(writer')
    BY <1>2 DEF TypeInv
  <1>5. StreamOK'
    BY <1>2, <1>4, SilentStream
  <1> QED BY <1>2, <1>3, <1>4, <1>5 DEF TypeInv

LEMMA ClearTypeInv ==
    ASSUME TypeInv, ClearAll
    PROVE  TypeInv'
  <1>1. /\ writer' = EmptyContext /\ heap' = heap /\ host' = host
        /\ wire = <<>> /\ UNCHANGED <<wire, reader>>
    BY DEF ClearAll, Clear, Writing, deserializerVars
  <1>2. Flat(writer')
    BY <1>1, FirstWriter
  <1>3. StreamOK'
    BY <1>1, <1>2, SilentStream
  <1> QED BY <1>1, <1>2, <1>3 DEF TypeInv, HeapOK

\* Bytes arrive, up to the n-th of the stream.
LEMMA LongerStream ==
    ASSUME Flat(writer), NEW n \in 0 .. Len(Buf), wire' = Prefix(n), writer' = writer,
           reader'.at <= n + 1 \/ Strayed(reader'.at, Prefix(n))
    PROVE  StreamOK'
  <1>1. Buf \in Strings
    BY DEF Flat, Buf
  <1>2. Len(Prefix(n)) = n /\ Prefix(Len(Prefix(n))) = Prefix(n)
    BY <1>1, PrefixIs
  <1>3. Buf' = Buf /\ \A k : Prefix(k)' = SubSeq(Buf', 1, k)
    BY DEF Buf, Prefix
  <1>4. Len(wire') = n
    BY <1>2
  <1>5. wire' = SubSeq(Buf, 1, n)
    BY DEF Prefix
  <1>6. reader'.at <= Len(wire') + 1 \/ Strayed(reader'.at, wire')
    BY <1>4
  <1> QED BY <1>3, <1>4, <1>5, <1>6 DEF StreamOK, Prefix

LEMMA WholeStream ==
    ASSUME Flat(writer)
    PROVE  Buf \in Strings /\ Len(Buf) \in Nat /\ Prefix(Len(Buf)) = Buf
  <1>1. Buf \in Strings
    BY DEF Flat, Buf
  <1>2. Len(Buf) \in Nat /\ Len(Buf) \in 0 .. Len(Buf)
    BY <1>1, StringHas
  <1>3. /\ Prefix(Len(Buf)) \in Strings /\ Len(Prefix(Len(Buf))) = Len(Buf)
        /\ \A i \in 1 .. Len(Buf) : Prefix(Len(Buf))[i] = Buf[i]
    BY <1>1, <1>2, PrefixIs
  <1>4. IsSeq(Buf) /\ IsSeq(Prefix(Len(Buf)))
    BY <1>1, <1>3, StringHas
  <1> QED BY <1>1, <1>2, <1>3, <1>4, SeqSame

LEMMA ArriveTypeInv ==
    ASSUME TypeInv, Arrive
    PROVE  TypeInv'
  <1>1. /\ writer' = writer /\ heap' = heap /\ host' = host /\ reader' = reader
    BY DEF Arrive, Provide, serializerVars
  <1>2. Flat(writer) /\ Calm(reader) /\ StreamOK /\ Len(Buf) \in Nat
    BY WholeStream DEF TypeInv
  <1>3. StreamOK'
    <2>1. CASE wire = <<>> /\ \E n \in 1 .. Len(Buf) : Provide(SubSeq(Buf, 1, n))
      <3>1. PICK n \in 1 .. Len(Buf) : wire' = Prefix(n)
        BY <2>1 DEF Provide, Prefix
      <3>2. n \in 0 .. Len(Buf) /\ reader'.at <= n + 1
        BY <1>1, <1>2, <2>1, NoBytes DEF StreamOK, Calm, Strayed
      <3> QED BY <1>1, <1>2, <3>1, <3>2, LongerStream
    <2>2. CASE Len(wire) < Len(Buf) /\ Provide(Buf)
      <3>1. wire' = Prefix(Len(Buf))
        BY <1>2, <2>2, WholeStream DEF Provide
      <3>2. Len(Buf) \in 0 .. Len(Buf) /\ reader'.at <= Len(Buf) + 1
        BY <1>1, <1>2, <2>2 DEF StreamOK, Calm, Strayed
      <3> QED BY <1>1, <1>2, <3>1, <3>2, LongerStream
    <2> QED BY <2>1, <2>2 DEF Arrive
  <1> QED BY <1>1, <1>2, <1>3 DEF TypeInv, HeapOK

\* What one call reads
LEMMA CallOutcome ==
    ASSUME NEW g, Reading(g), g.stack = <<>>, NEW packet
    PROVE  Outcome(g, Call(packet, g), 0)
  <1>1. Outcome(g, ReadPacket(g), 0)
    BY PacketOutcome
  <1>2. Outcome(g, DeserializeItem(g), 0)
    BY ItemParses, ParsesLess DEF Outcome
  <1> QED BY <1>1, <1>2 DEF Call

\* The reader that a call leaves where the bytes are w
Remains(s, w) == Calm(s) /\ (s.at <= Len(w) + 1 \/ Strayed(s.at, w))

LEMMA CallLeaves ==
    ASSUME NEW g, Reading(g), NEW r, Outcome(g, r, 0), NEW s,
           s = Settled(r) \/ (r.at > Len(r.data) + 1 /\ s = [Settled(r) EXCEPT !.thrown = FALSE])
    PROVE  Remains(s, g.data)
  <1>1. CASE Parses(g, r, 0)
    <2>1. Reading(r) /\ r.data = g.data
      BY <1>1 DEF Parses
    <2>2. r.at \in Nat /\ Len(r.data) \in Nat /\ r.at <= Len(r.data) + 1
      BY <2>1, ReadingIs
    <2>3. s = Settled(r)
      BY <2>2
    <2> QED BY <2>1, <2>3, SettledIs DEF Remains
  <1>2. CASE Astray(r) /\ r.data = g.data
    <2>1. r.data \in Strings
      BY <1>2 DEF Reading
    <2> DEFINE u == Settled(r)
               t == [u EXCEPT !.thrown = FALSE]
    <2>a. Calm(u) /\ u.at = r.at /\ Calm(t) /\ t.at = r.at
      BY <1>2, <2>1, AstraySettled
    <2>b. s = u \/ s = t
      OBVIOUS
    <2> HIDE DEF u, t
    <2>2. Calm(s) /\ s.at = r.at
      BY <2>a, <2>b
    <2> QED BY <1>2, <2>2 DEF Remains, Astray
  <1> QED BY <1>1, <1>2 DEF Outcome

LEMMA ReadTypeInv ==
    ASSUME TypeInv, ReadItem
    PROVE  TypeInv'
  <1> DEFINE g == Given(reader, wire)
  <1>1. PICK packet : Read(packet)
    BY DEF ReadItem
  <1> DEFINE r == Call(packet, g)
  <1>2. /\ writer' = writer /\ heap' = heap /\ host' = host /\ wire' = wire
        /\ reader.at <= Len(wire)
    BY <1>1 DEF ReadItem, Read, serializerVars
  <1>a. \/ reader' = Settled(r)
        \/ r.at > Len(r.data) + 1 /\ reader' = [Settled(r) EXCEPT !.thrown = FALSE]
    <2>1. Accept(r) \/ Lose(r)
      BY <1>1 DEF Read, Given
    <2> HIDE DEF r
    <2> QED BY <2>1 DEF Accept, Lose
  <1>3. Flat(writer) /\ Calm(reader) /\ StreamOK /\ Buf \in Strings
    BY WholeStream DEF TypeInv
  <1>4. wire \in Strings /\ Len(wire) \in Nat
    <2>1. wire \in Strings
      BY <1>3, PrefixIs DEF StreamOK
    <2> QED BY <2>1, StringHas
  <1>b. reader.at <= Len(wire) + 1
    BY <1>2, <1>3, <1>4 DEF Calm
  <1>5. Reading(g) /\ g.stack = <<>> /\ g.data = wire
    BY <1>3, <1>4, <1>b, CalmReads
  <1> HIDE DEF g
  <1>6. Outcome(g, r, 0)
    BY <1>5, CallOutcome
  <1> HIDE DEF r
  <1>7. Remains(reader', wire)
    BY <1>5, <1>6, <1>a, CallLeaves
  <1>8. StreamOK'
    <2>1. Len(wire) \in 0 .. Len(Buf) /\ wire' = Prefix(Len(wire)) /\ wire = Prefix(Len(wire))
      BY <1>2, <1>3 DEF StreamOK
    <2>2. reader'.at <= Len(wire) + 1 \/ Strayed(reader'.at, Prefix(Len(wire)))
      BY <1>7, <2>1 DEF Remains
    <2> QED BY <1>2, <1>3, <2>1, <2>2, LongerStream
  <1> QED BY <1>2, <1>3, <1>7, <1>8 DEF TypeInv, HeapOK, Remains

LEMMA StartOverTypeInv ==
    ASSUME TypeInv, StartOver
    PROVE  TypeInv'
  <1>1. /\ writer' = writer /\ heap' = heap /\ host' = host
        /\ wire' = Buf /\ reader' = NewReader
    BY DEF StartOver, Restart, serializerVars
  <1>2. Flat(writer) /\ Len(Buf) \in Nat /\ Prefix(Len(Buf)) = Buf
    BY WholeStream DEF TypeInv
  <1>3. StreamOK'
    <2>1. Len(Buf) \in 0 .. Len(Buf) /\ reader'.at <= Len(Buf) + 1
      BY <1>1, <1>2, FirstReader
    <2> QED BY <1>1, <1>2, <2>1, LongerStream
  <1> QED BY <1>1, <1>2, <1>3, FirstReader DEF TypeInv, HeapOK

LEMMA StutterTypeInv ==
    ASSUME TypeInv, UNCHANGED vars
    PROVE  TypeInv'
  <1>1. UNCHANGED <<host, heap, writer, wire, reader>>
    BY DEF vars, serializerVars, deserializerVars
  <1>2. /\ Len(wire) \in 0 .. Len(Buf) /\ wire' = Prefix(Len(wire))
        /\ reader'.at <= Len(wire) + 1 \/ Strayed(reader'.at, Prefix(Len(wire)))
    BY <1>1 DEF TypeInv, StreamOK
  <1>3. StreamOK'
    BY <1>1, <1>2, LongerStream DEF TypeInv
  <1> QED BY <1>1, <1>3 DEF TypeInv, HeapOK

THEOREM TypeInvHolds ==
    Spec => []TypeInv
  <1>1. Init => TypeInv
    BY InitTypeInv
  <1>2. TypeInv /\ [Next]_vars => TypeInv'
    BY WriteTypeInv, ChangeTypeInv, ClearTypeInv, ArriveTypeInv, ReadTypeInv, StartOverTypeInv,
       StutterTypeInv DEF Next
  <1> QED BY <1>1, <1>2, PTL DEF Spec

LEMMA TypeInvOK ==
    ASSUME TypeInv
    PROVE  TypeOK
  <1>1. Buf \in Strings /\ DOMAIN Buf = 1 .. Len(Buf)
    BY StringHas DEF TypeInv, Flat, Buf
  <1>2. \A i \in DOMAIN Buf : Buf[i] \in Bytes
    BY <1>1, StringHas
  <1>3. /\ wire = SubSeq(Buf, 1, Len(wire))
        /\ reader.at \in 1 .. (Len(wire) + 1) \/ Strayed(reader.at, wire)
    <2>1. Len(Buf) \in Nat
      BY <1>1, StringHas
    <2> QED BY <2>1 DEF TypeInv, StreamOK, Prefix, Calm
  <1>4. ASSUME NEW c \in {writer, reader}, NEW i \in DOMAIN c.strings
        PROVE  c.strings[i] \in Strings \ {<<>>}
    <2>1. c.strings \in Seq(Strings \ {<<>>})
      BY DEF TypeInv, Flat, Calm
    <2> QED BY <2>1
  <1> QED BY <1>2, <1>3, <1>4 DEF TypeOK, TypeInv

THEOREM TypeCorrect ==
    Spec => []TypeOK
  BY TypeInvHolds, TypeInvOK, PTL

-----------------------------------------------------------------------------
(* What is written is read: bytes.                                         *)

\* The bytes b are next, as far as there are any.
Offers(r, b) == \A j \in 1 .. Len(b) : j <= Left(r) => r.data[r.at + j - 1] = b[j]

\* s is r after a call that read k bytes, or that missed one of them.
Took(r, s, k) ==
    /\ Reading(s) /\ Keeps(r, s)
    /\ s.thrown \in BOOLEAN
    /\ s.thrown => Left(r) < k
    /\ ~s.thrown => s.at = r.at + k

LEMMA OffersFirst ==
    ASSUME NEW r, Reading(r), NEW a \in Strings, NEW b \in Strings, Offers(r, a \o b)
    PROVE  Offers(r, a)
  <1> DEFINE c == a \o b
  <1>1. /\ Len(c) = Len(a) + Len(b) /\ Len(a) \in Nat /\ Len(b) \in Nat
        /\ \A i \in 1 .. Len(a) : c[i] = a[i]
    BY ConcatIsString
  <1>2. Offers(r, c)
    OBVIOUS
  <1> HIDE DEF c
  <1>3. ASSUME NEW j \in 1 .. Len(a), j <= Left(r) PROVE r.data[r.at + j - 1] = a[j]
    <2>1. j \in 1 .. Len(c)
      BY <1>1
    <2> QED BY <2>1, <1>1, <1>2, <1>3 DEF Offers
  <1> QED BY <1>3 DEF Offers

LEMMA OffersRest ==
    ASSUME NEW r, Reading(r), NEW a \in Strings, NEW b \in Strings, Offers(r, a \o b),
           NEW s, Took(r, s, Len(a)), ~s.thrown
    PROVE  Offers(s, b)
  <1> DEFINE c == a \o b
             m == Len(a)
  <1>1. /\ Len(c) = m + Len(b) /\ m \in Nat /\ Len(b) \in Nat
        /\ \A i \in 1 .. Len(b) : c[m + i] = b[i]
    BY ConcatIsString
  <1>2. Offers(r, c) /\ s.at = r.at + m /\ s.data = r.data
    BY DEF Took, Keeps
  <1>3. /\ r.at \in Nat /\ Len(r.data) \in Nat /\ Left(r) = Len(r.data) - r.at + 1
        /\ Left(s) = Len(r.data) - s.at + 1
    BY <1>2, ReadingIs DEF Took
  <1> HIDE DEF c, m
  <1>4. ASSUME NEW j \in 1 .. Len(b), j <= Left(s) PROVE s.data[s.at + j - 1] = b[j]
    <2> DEFINE i == m + j
    <2>a. i \in 1 .. Len(c)
      BY <1>1
    <2>b. i <= Left(r) /\ r.at + i - 1 = s.at + j - 1
      <3> DEFINE x == r.at
                 y == s.at
                 z == Len(r.data)
      <3>1. /\ x \in Nat /\ z \in Nat /\ m \in Nat /\ j \in Nat /\ y = x + m
            /\ j <= z - y + 1
        BY <1>1, <1>2, <1>3, <1>4
      <3>2. Left(r) = z - x + 1
        BY <1>3
      <3> HIDE DEF x, y, z
      <3>3. m + j <= z - x + 1 /\ x + (m + j) - 1 = y + j - 1
        BY <3>1
      <3> QED BY <3>2, <3>3 DEF x, y
    <2>1. i \in 1 .. Len(c) /\ i <= Left(r) /\ r.at + i - 1 = s.at + j - 1
      BY <2>a, <2>b
    <2>2. r.data[r.at + i - 1] = c[i]
      BY <2>1, <1>2 DEF Offers
    <2>3. c[i] = b[j]
      BY <1>1
    <2> HIDE DEF i
    <2> QED BY <2>1, <2>2, <2>3, <1>2
  <1> QED BY <1>4 DEF Offers

LEMMA TookOn ==
    ASSUME NEW r, NEW s, NEW t, NEW m \in Nat, NEW k \in Nat, Reading(r), Took(r, s, m),
           s.thrown => t = s, ~s.thrown => Took(s, t, k)
    PROVE  Took(r, t, m + k)
  <1>0. r.at \in Nat /\ Left(r) \in Nat /\ Reading(s) /\ s.data = r.data
    BY ReadingIs DEF Took, Keeps
  <1>1. CASE s.thrown
    <2>1. t = s /\ Left(r) < m /\ Keeps(r, s)
      BY <1>1 DEF Took
    <2>2. Left(r) < m + k
      BY <1>0, <2>1
    <2> QED BY <1>0, <1>1, <2>1, <2>2 DEF Took
  <1>2. CASE ~s.thrown
    <2>1. Took(s, t, k) /\ s.at = r.at + m
      BY <1>2 DEF Took
    <2>2. Keeps(r, t)
      BY <2>1 DEF Took, Keeps
    <2>3. Left(s) = Left(r) - m
      <3>1. Left(s) = Len(r.data) - s.at + 1 /\ Left(r) = Len(r.data) - r.at + 1
            /\ Len(r.data) \in Nat
        BY <1>0, ReadingIs
      <3> QED BY <1>0, <2>1, <3>1
    <2>4. t.thrown => Left(r) < m + k
      BY <1>0, <2>1, <2>3 DEF Took
    <2>5. ~t.thrown => t.at = r.at + (m + k)
      BY <1>0, <2>1 DEF Took
    <2> QED BY <2>1, <2>2, <2>4, <2>5 DEF Took
  <1> QED BY <1>1, <1>2 DEF Took

LEMMA TookLess ==
    ASSUME NEW r, NEW s, Reading(r), NEW m \in Nat, NEW k \in Nat, Took(r, s, m), s.thrown, m <= k
    PROVE  Took(r, s, k)
  <1>1. Left(r) \in Nat
    BY ReadingIs
  <1> QED BY <1>1 DEF Took

GotBytes(r, b, s) ==
    /\ Took(r, s, Len(b)) /\ s.strings = r.strings /\ s.num = r.num
    /\ ~s.thrown => s.str = b

LEMMA GetBytes ==
    ASSUME NEW r, Reading(r), ~r.thrown, NEW b \in Strings, Offers(r, b),
           NEW s, s = ReadBytes(r, Len(b))
    PROVE  GotBytes(r, b, s)
  <1> DEFINE n == Len(b)
  <1>0. n \in Nat
    BY StringHas
  <1>r. /\ r.at \in Nat /\ r.at >= 1 /\ Len(r.data) \in Nat /\ r.at <= Len(r.data) + 1
        /\ Left(r) \in Nat /\ Left(r) = Len(r.data) - r.at + 1
    BY ReadingIs
  <1>s. Reads(r, s, n)
    BY <1>0, ReadBytesReads
  <1> HIDE DEF n
  <1>1. CASE n > Left(r)
    <2>1. s = Refuse(r)
      BY <1>1 DEF ReadBytes, n
    <2>2. s.thrown = TRUE /\ s.strings = r.strings /\ s.num = r.num
      BY <2>1, FieldsAre DEF Refuse, Reading
    <2> QED BY <1>1, <2>2, <1>s, <1>0, <1>r DEF GotBytes, Took, Reads, n
  <1>2. CASE ~(n > Left(r))
    <2> DEFINE t == SubSeq(r.data, r.at, r.at + n - 1)
    <2>1. s = [r EXCEPT !.str = t, !.at = r.at + n]
      BY <1>0, <1>2 DEF ReadBytes, n
    <2>2. \A i \in r.at .. r.at + n - 1 : r.data[i] \in Bytes
      BY <1>0, <1>2, <1>r DEF Reading, Strings
    <2>3. /\ t \in Seq(Bytes)
          /\ Len(t) = IF r.at <= r.at + n - 1 THEN (r.at + n - 1) - r.at + 1 ELSE 0
          /\ \A i \in 1 .. (r.at + n - 1) - r.at + 1 : t[i] = r.data[r.at + i - 1]
      <3> DEFINE x == r.at
                 y == r.at + n - 1
                 w == r.data
      <3>1. x \in Int /\ y \in Int /\ \A i \in x .. y : w[i] \in Bytes
        BY <1>0, <1>r, <2>2
      <3>2. t = SubSeq(w, x, y)
        OBVIOUS
      <3> HIDE DEF x, y, w, t
      <3>3. /\ t \in Seq(Bytes)
            /\ Len(t) = IF x <= y THEN y - x + 1 ELSE 0
            /\ \A i \in 1 .. y - x + 1 : t[i] = w[x + i - 1]
        BY <3>1, <3>2, SubSeqProperties
      <3> QED BY <3>3 DEF x, y, w
    <2> HIDE DEF t
    <2>4. Len(t) = n /\ \A i \in 1 .. n : t[i] = r.data[r.at + i - 1]
      BY <2>3, <1>0, <1>r
    <2>5. \A i \in 1 .. n : t[i] = b[i]
      <3>1. ASSUME NEW i \in 1 .. n PROVE t[i] = b[i]
        <4>1. i \in 1 .. Len(b) /\ i <= Left(r)
          BY <1>0, <1>2, <1>r DEF n
        <4>2. r.data[r.at + i - 1] = b[i]
          BY <4>1 DEF Offers
        <4> QED BY <4>2, <2>4
      <3> QED BY <3>1
    <2>6. t = b
      <3>1. t \in Strings
        BY <2>3 DEF Strings
      <3>2. IsSeq(t) /\ IsSeq(b)
        BY <3>1, StringHas
      <3> QED BY <3>2, <2>4, <2>5, SeqSame DEF n
    <2>7. s.thrown = r.thrown /\ s.strings = r.strings /\ s.num = r.num /\ s.str = t /\ s.at = r.at + n
      BY <2>1, FieldsAre DEF Reading
    <2>8. s.thrown = FALSE
      BY <2>7 DEF Reading
    <2> QED BY <2>6, <2>7, <2>8, <1>s DEF GotBytes, Took, Reads, n
  <1> QED BY <1>1, <1>2

GotInteger(r, v, k, s) ==
    /\ Took(r, s, k) /\ s.strings = r.strings /\ s.str = r.str
    /\ ~s.thrown => s.num = v

LEMMA GetInteger ==
    ASSUME NEW r, Reading(r), ~r.thrown, NEW v \in Int, InRange(v), Offers(r, IntegerBytes(v)),
           NEW s, s = ReadInteger(r)
    PROVE  GotInteger(r, v, Len(IntegerBytes(v)), s)
  <1> DEFINE b == IntegerBytes(v)
             n == Len(b)
             w == r.data
  <1>r. /\ r.at \in Nat /\ r.at >= 1 /\ Len(w) \in Nat /\ r.at <= Len(w) + 1
        /\ Left(r) \in Nat /\ Left(r) = Len(w) - r.at + 1
    BY ReadingIs
  <1>0. n \in Nat /\ n \in 1 .. 4 /\ w \in Seq(Bytes) /\ r.at \in Nat \ {0}
    <2>1. n \in 1 .. 4
      BY IntegerIsString
    <2> QED BY <2>1, <1>r DEF Reading, Strings
  <1>s. Reads(r, s, 1)
    BY ReadIntegerReads
  <1>o. \A j \in 1 .. n : j <= Left(r) => w[r.at + j - 1] = b[j]
    BY DEF Offers
  <1>1. CASE n > Left(r)
    <2>1. Len(w) < r.at + Len(b) - 1
      <3> HIDE DEF b
      <3>1. Len(w) < r.at + n - 1
        <4> HIDE DEF n, w
        <4> QED BY <1>0, <1>1, <1>r
      <3> QED BY <3>1
    <2>2. \A i \in 1 .. Len(b) : r.at + i - 1 <= Len(w) => w[r.at + i - 1] = b[i]
      <3> HIDE DEF b, w
      <3> QED BY <1>o, <1>r, <1>0
    <2>3. ~Whole(w, r.at)
      <3> HIDE DEF w
      <3> QED BY <2>1, <2>2, <1>0, CutIntegerRefused
    <2>4. s = Refuse(r)
      BY <2>3 DEF ReadInteger
    <2>5. s.thrown = TRUE /\ s.strings = r.strings /\ s.str = r.str
      BY <2>4, FieldsAre DEF Refuse, Reading
    <2>6. s.thrown => Left(r) < n
      <3> HIDE DEF n
      <3> QED BY <1>0, <1>1, <1>r
    <2>7. Took(r, s, n)
      <3> HIDE DEF n
      <3> QED BY <2>5, <2>6, <1>s DEF Took, Reads
    <2> QED BY <2>5, <2>7 DEF GotInteger
  <1>2. CASE ~(n > Left(r))
    <2>1. Holds(w, r.at, b)
      <3>1. r.at + Len(b) - 1 <= Len(w)
        <4> HIDE DEF b
        <4> QED BY <1>0, <1>2, <1>r
      <3>2. \A i \in 1 .. Len(b) : w[r.at + i - 1] = b[i]
        <4> HIDE DEF b
        <4> QED BY <1>0, <1>2, <1>r, <1>o
      <3> QED BY <3>1, <3>2 DEF Holds
    <2>2. Whole(w, r.at) /\ Size(w, r.at) = n /\ Value(w, r.at) = v
      <3> HIDE DEF w
      <3> QED BY <2>1, <1>0, IntegerRoundTrip
    <2> HIDE DEF n
    <2>3. s = [r EXCEPT !.num = v, !.at = r.at + n]
      BY <2>2 DEF ReadInteger
    <2>4. s.thrown = r.thrown /\ s.strings = r.strings /\ s.num = v /\ s.str = r.str /\ s.at = r.at + n
      BY <2>3, FieldsAre DEF Reading
    <2>5. s.thrown = FALSE
      BY <2>4 DEF Reading
    <2> QED BY <2>4, <2>5, <1>s DEF GotInteger, Took, Reads, n
  <1> QED BY <1>1, <1>2

\* A number of one byte
LEMMA GetSmall ==
    ASSUME NEW r, Reading(r), ~r.thrown, NEW v \in 0 .. 127, Offers(r, <<v>>),
           NEW s, s = ReadInteger(r)
    PROVE  GotInteger(r, v, 1, s)
  <1>1. v \in Int /\ InRange(v)
    BY DEF InRange
  <1>2. IntegerBytes(v) = <<v>>
    BY DEF IntegerBytes
  <1>3. Len(<<v>>) = 1
    OBVIOUS
  <1>4. GotInteger(r, v, Len(IntegerBytes(v)), s)
    BY <1>1, <1>2, GetInteger
  <1> QED BY <1>2, <1>3, <1>4

\* The length of something, which is no reference
LEMMA GetLength ==
    ASSUME NEW r, Reading(r), ~r.thrown, NEW n \in Nat, n < LengthLimit, Offers(r, LengthBytes(n)),
           NEW s, s = ReadInteger(r)
    PROVE  /\ GotInteger(r, 2 * n + 1, Len(LengthBytes(n)), s)
           /\ ~s.thrown => s.num % 2 = 1 /\ s.num \div 2 = n
  <1>1. InRange(2 * n + 1) /\ 2 * n + 1 \in Int /\ LengthBytes(n) = IntegerBytes(2 * n + 1)
    BY LengthIsString, SMT DEF LengthLimit
  <1>2. GotInteger(r, 2 * n + 1, Len(LengthBytes(n)), s)
    BY <1>1, GetInteger
  <1>3. (2 * n + 1) % 2 = 1 /\ (2 * n + 1) \div 2 = n
    OBVIOUS
  <1>4. ~s.thrown => s.num = 2 * n + 1
    BY <1>2 DEF GotInteger
  <1> QED BY <1>2, <1>3, <1>4

-----------------------------------------------------------------------------
(* What is written is read: strings.                                       *)

\* Behind the place off, the bytes are those of b, as far as there are any.
Tied(data, off, b) ==
    /\ off \in Nat /\ b \in Strings
    /\ \A i \in 1 .. Len(b) : off + i <= Len(data) => data[off + i] = b[i]

\* The reader has read what was written behind the place off, or missed some of it.
Meets(r, c, off) ==
    /\ Reading(r) /\ Writes(c) /\ ~r.thrown /\ ~c.thrown
    /\ off \in Nat /\ r.at = off + Len(c.buf) + 1

Misses(r, c, off) == Reading(r) /\ r.thrown /\ Len(r.data) < off + Len(c.buf)

\* From where c and r meet, what was written is read, or missed.
Hears(r, c, u, d, off) ==
    /\ Reading(u) /\ u.data = r.data
    /\ u.thrown => Misses(u, d, off)
    /\ ~u.thrown => Meets(u, d, off)

LEMMA TiedBegins ==
    ASSUME NEW data, NEW off, NEW b, Tied(data, off, b), NEW a \in Strings, Begins(a, b)
    PROVE  Tied(data, off, a)
  <1>1. Len(a) \in Nat /\ Len(b) \in Nat /\ Len(a) <= Len(b) /\ \A i \in 1 .. Len(a) : b[i] = a[i]
    BY StringHas DEF Begins, Tied
  <1>2. \A i \in 1 .. Len(a) : i \in 1 .. Len(b)
    BY <1>1
  <1> QED BY <1>1, <1>2 DEF Tied

LEMMA MeetsOffers ==
    ASSUME NEW r, NEW c, NEW off, Meets(r, c, off), NEW b \in Strings, NEW d,
           d.buf = c.buf \o b, Tied(r.data, off, d.buf)
    PROVE  Offers(r, b)
  <1> DEFINE n == Len(c.buf)
             m == Len(b)
             left == Left(r)
             len == Len(r.data)
             at == r.at
             e == d.buf
  <1>1. /\ n \in Nat /\ m \in Nat /\ Len(e) = n + m
        /\ \A i \in 1 .. m : e[n + i] = b[i]
    BY ConcatIsString DEF Meets, Writes
  <1>2. left = len - at + 1 /\ len \in Nat /\ at \in Nat /\ at = off + n + 1 /\ off \in Nat
    BY ReadingIs DEF Meets
  <1>3. \A i \in 1 .. Len(e) : off + i <= len => r.data[off + i] = e[i]
    BY DEF Tied
  <1> HIDE DEF n, m, left, len, at, e
  <1>4. ASSUME NEW j \in 1 .. m, j <= left PROVE r.data[at + j - 1] = b[j]
    <2>1. n + j \in 1 .. Len(e) /\ off + (n + j) <= len /\ at + j - 1 = off + (n + j)
      BY <1>1, <1>2, <1>4
    <2> QED BY <1>1, <1>3, <2>1
  <1> QED BY <1>4 DEF Offers, m, left, at

LEMMA TookHears ==
    ASSUME NEW r, NEW c, NEW off, Meets(r, c, off), NEW b \in Strings, NEW d,
           Writes(d), ~d.thrown, d.buf = c.buf \o b, NEW u, Took(r, u, Len(b))
    PROVE  Hears(r, c, u, d, off)
  <1> DEFINE n == Len(c.buf)
             m == Len(b)
             k == Len(d.buf)
             left == Left(r)
             len == Len(r.data)
             at == r.at
  <1>1. n \in Nat /\ m \in Nat /\ k = n + m
    BY ConcatIsString DEF Meets, Writes
  <1>2. left = len - at + 1 /\ len \in Nat /\ at \in Nat /\ at = off + n + 1 /\ off \in Nat
    BY ReadingIs DEF Meets
  <1>3. Reading(u) /\ u.data = r.data /\ u.thrown \in BOOLEAN
    BY DEF Took, Keeps
  <1>4. (u.thrown => left < m) /\ (~u.thrown => u.at = at + m)
    BY DEF Took
  <1> HIDE DEF n, m, k, left, len, at
  <1>5. u.thrown => len < off + k
    BY <1>1, <1>2, <1>4
  <1>6. ~u.thrown => u.at = off + k + 1
    BY <1>1, <1>2, <1>4
  <1> QED BY <1>2, <1>3, <1>5, <1>6 DEF Hears, Misses, Meets, k, len

LEMMA HearsOn ==
    ASSUME NEW r, NEW c, NEW off, NEW u, NEW d, Hears(r, c, u, d, off),
           NEW v, NEW e, Writes(d), Writes(e), Begins(d.buf, e.buf),
           u.thrown => v = u, ~u.thrown => Hears(u, d, v, e, off), off \in Nat
    PROVE  Hears(r, c, v, e, off)
  <1>1. CASE u.thrown
    <2>1. Len(d.buf) <= Len(e.buf) /\ Len(d.buf) \in Nat /\ Len(e.buf) \in Nat /\ Len(u.data) \in Nat
      BY WritesIs, ReadingIs DEF Begins, Hears
    <2>2. Len(u.data) < off + Len(e.buf)
      BY <1>1, <2>1 DEF Hears, Misses
    <2> QED BY <1>1, <2>2 DEF Hears, Misses
  <1>2. CASE ~u.thrown
    BY <1>2 DEF Hears
  <1> QED BY <1>1, <1>2

SameStrings(r, c) == ~c.drifted => r.strings = c.strings

\* ReadString, by its cases.
LEMMA ReadStringIs ==
    ASSUME NEW r, NEW w, w = ReadInteger(r), NEW x, x = ReadBytes(w, w.num \div 2)
    PROVE  /\ w.thrown => ReadString(r) = w
           /\ ~w.thrown /\ w.num % 2 = 0 => ReadString(r) = GetString(w)
           /\ ~w.thrown /\ w.num % 2 # 0 /\ x.thrown => ReadString(r) = x
           /\ ~w.thrown /\ w.num % 2 # 0 /\ ~x.thrown => ReadString(r) = Remember(x)
  BY DEF ReadString, Then

\* The string s was read, in k bytes, and stored is what is in the table then.
GotString(r, s, k, stored, u) ==
    /\ Took(r, u, k)
    /\ ~u.thrown => u.str = s /\ u.strings = stored

LEMMA GetEmpty ==
    ASSUME NEW r, Reading(r), ~r.thrown, Offers(r, << 1 >>), NEW u, u = ReadString(r)
    PROVE  GotString(r, <<>>, 1, r.strings, u)
  <1> DEFINE w == ReadInteger(r)
             x == ReadBytes(w, w.num \div 2)
  <1>1. GotInteger(r, 1, 1, w)
    BY GetSmall
  <1>2. /\ w.thrown => u = w
        /\ ~w.thrown /\ w.num % 2 # 0 /\ x.thrown => u = x
        /\ ~w.thrown /\ w.num % 2 # 0 /\ ~x.thrown => u = Remember(x)
    BY ReadStringIs
  <1>3. ~w.thrown => x = ReadBytes(w, 0)
    <2>1. ~w.thrown => w.num = 1
      BY <1>1 DEF GotInteger
    <2>2. 1 \div 2 = 0
      OBVIOUS
    <2> QED BY <2>1, <2>2
  <1>a. Took(r, w, 1) /\ Reading(w) /\ w.strings = r.strings /\ (~w.thrown => w.num = 1)
    BY <1>1 DEF GotInteger, Took
  <1> HIDE DEF w, x
  <1>4. CASE w.thrown
    BY <1>2, <1>4, <1>a DEF GotString
  <1>5. CASE ~w.thrown
    <2>0. <<>> \in Strings /\ Len(<<>>) = 0
      BY NoBytes
    <2>1. Offers(w, <<>>)
      BY DEF Offers
    <2>2. x = ReadBytes(w, Len(<<>>))
      BY <1>3, <1>5, <2>0
    <2>3. GotBytes(w, <<>>, x)
      BY <2>0, <2>1, <2>2, <1>5, <1>a, GetBytes
    <2>4. Took(w, x, 0) /\ x.strings = w.strings /\ (~x.thrown => x.str = <<>>)
      BY <2>0, <2>3 DEF GotBytes
    <2>5. ~x.thrown
      <3>1. Left(w) \in Nat
        BY <1>a, ReadingIs
      <3> QED BY <2>4, <3>1 DEF Took
    <2>6. w.num % 2 # 0
      BY <1>5, <1>a
    <2>7. u = x
      BY <1>2, <1>5, <2>4, <2>5, <2>6 DEF Remember
    <2>8. Took(r, x, 1 + 0)
      BY <1>5, <1>a, <2>4, TookOn
    <2> QED BY <1>a, <2>4, <2>5, <2>7, <2>8 DEF GotString
  <1> QED BY <1>4, <1>5

LEMMA GetOld ==
    ASSUME NEW r, Reading(r), ~r.thrown, NEW i \in Nat, i \in 1 .. Len(r.strings), i - 1 < 64,
           Offers(r, ByteOf(i)), NEW u, u = ReadString(r)
    PROVE  GotString(r, r.strings[i], 1, r.strings, u)
  <1> DEFINE w == ReadInteger(r)
             v == (i - 1) * 2
  <1>0. v \in 0 .. 127 /\ v % 256 = v /\ v % 2 = 0 /\ v \div 2 + 1 = i
    OBVIOUS
  <1>1. ByteOf(i) = <<v>>
    BY <1>0 DEF ByteOf
  <1>2. GotInteger(r, v, 1, w)
    <2> HIDE DEF v
    <2> QED BY <1>0, <1>1, GetSmall
  <1>3. /\ w.thrown => u = w
        /\ ~w.thrown /\ w.num % 2 = 0 => u = GetString(w)
    BY ReadStringIs
  <1>4. Took(r, w, 1) /\ Reading(w) /\ w.strings = r.strings /\ (~w.thrown => w.num = v)
    BY <1>2 DEF GotInteger, Took
  <1> HIDE DEF w, v
  <1>5. CASE w.thrown
    BY <1>3, <1>4, <1>5 DEF GotString
  <1>6. CASE ~w.thrown
    <2>1. i \in DOMAIN w.strings /\ w.strings[i] \in Strings
      <3>1. w.strings \in Seq(Strings \ {<<>>})
        BY <1>4 DEF Reading
      <3>2. i \in DOMAIN w.strings
        BY <1>4, <3>1
      <3> QED BY <3>1, <3>2
    <2>2. u = [w EXCEPT !.str = w.strings[i]]
      <3>1. u = GetString(w) /\ w.num \div 2 + 1 = i
        BY <1>0, <1>3, <1>4, <1>6
      <3> QED BY <2>1, <3>1 DEF GetString
    <2>3. /\ DOMAIN u = Fields /\ u.str = w.strings[i] /\ u.strings = w.strings /\ u.at = w.at
          /\ u.data = w.data /\ u.num = w.num /\ u.thrown = w.thrown /\ u.stack = w.stack
          /\ u.objects = w.objects /\ u.traits = w.traits /\ u.trait = w.trait
          /\ u.list = w.list /\ u.item = w.item
      BY <1>4, <2>2, FieldsAre DEF Reading
    <2>4. Reading(u) /\ Keeps(w, u)
      BY <1>4, <2>1, <2>3 DEF Reading, Keeps
    <2>5. Took(r, u, 1)
      BY <1>4, <1>6, <2>3, <2>4 DEF Took, Keeps
    <2> QED BY <1>4, <2>3, <2>5 DEF GotString
  <1> QED BY <1>5, <1>6

LEMMA GetNew ==
    ASSUME NEW r, Reading(r), ~r.thrown, NEW s \in Strings, s # <<>>, Len(s) < LengthLimit,
           Offers(r, Spelled(s)), NEW u, u = ReadString(r)
    PROVE  GotString(r, s, Len(Spelled(s)), Append(r.strings, s), u)
  <1> DEFINE w == ReadInteger(r)
             x == ReadBytes(w, w.num \div 2)
             l == LengthBytes(Len(s))
             n == Len(s)
  <1>0. n \in Nat /\ l \in Strings /\ Len(l) \in Nat /\ Len(Spelled(s)) = Len(l) + n
    <2>1. n \in Nat /\ l \in Strings
      BY LengthIsString, StringHas DEF LengthLimit
    <2> HIDE DEF l
    <2> QED BY <2>1, ConcatIsString DEF Spelled, l
  <1>1. Offers(r, l \o s)
    BY DEF Spelled
  <1>2. Offers(r, l)
    <2> HIDE DEF l
    <2> QED BY <1>0, <1>1, OffersFirst
  <1>3. /\ GotInteger(r, 2 * n + 1, Len(l), w)
        /\ ~w.thrown => w.num % 2 = 1 /\ w.num \div 2 = n
    BY <1>0, <1>2, GetLength
  <1>4. /\ w.thrown => u = w
        /\ ~w.thrown /\ w.num % 2 # 0 /\ x.thrown => u = x
        /\ ~w.thrown /\ w.num % 2 # 0 /\ ~x.thrown => u = Remember(x)
    BY ReadStringIs
  <1>5. Took(r, w, Len(l)) /\ Reading(w) /\ w.strings = r.strings
    BY <1>3 DEF GotInteger, Took
  <1>6. ~w.thrown => x = ReadBytes(w, n) /\ w.num % 2 # 0
    BY <1>3
  <1> HIDE DEF w, x, l
  <1>7. CASE w.thrown
    <2>1. Len(l) <= Len(Spelled(s)) /\ Len(Spelled(s)) \in Nat
      BY <1>0
    <2>2. Took(r, w, Len(Spelled(s)))
      BY <1>0, <1>5, <1>7, <2>1, TookLess
    <2> QED BY <1>4, <1>7, <2>2 DEF GotString
  <1>8. CASE ~w.thrown
    <2>1. Offers(w, s)
      BY <1>0, <1>1, <1>5, <1>8, OffersRest
    <2>2. GotBytes(w, s, x)
      BY <2>1, <1>5, <1>6, <1>8, GetBytes
    <2>3. Took(w, x, n) /\ x.strings = w.strings /\ (~x.thrown => x.str = s) /\ Reading(x)
      BY <2>2 DEF GotBytes, Took
    <2>4. Took(r, x, Len(l) + n)
      BY <1>0, <1>5, <1>8, <2>3, TookOn
    <2>5. Took(r, x, Len(Spelled(s)))
      BY <1>0, <2>4
    <2>6. CASE x.thrown
      <3>1. u = x
        BY <1>4, <1>6, <1>8, <2>6
      <3> QED BY <2>5, <2>6, <3>1 DEF GotString
    <2>7. CASE ~x.thrown
      <3>1. u = [x EXCEPT !.strings = Append(x.strings, s)]
        <4>1. u = Remember(x)
          BY <1>4, <1>6, <1>8, <2>7
        <4> QED BY <4>1, <2>3, <2>7 DEF Remember
      <3>2. /\ DOMAIN u = Fields /\ u.str = x.str /\ u.strings = Append(x.strings, s) /\ u.at = x.at
            /\ u.data = x.data /\ u.num = x.num /\ u.thrown = x.thrown /\ u.stack = x.stack
            /\ u.objects = x.objects /\ u.traits = x.traits /\ u.trait = x.trait
            /\ u.list = x.list /\ u.item = x.item
        BY <2>3, <3>1, FieldsAre DEF Reading
      <3>3. Append(x.strings, s) \in Seq(Strings \ {<<>>})
        BY <2>3, AppendProperties DEF Reading
      <3>4. Reading(u) /\ Keeps(x, u)
        BY <2>3, <3>2, <3>3 DEF Reading, Keeps
      <3>5. Took(r, u, Len(Spelled(s)))
        BY <2>5, <2>7, <3>2, <3>4 DEF Took, Keeps
      <3> QED BY <1>5, <2>3, <2>7, <3>2, <3>5 DEF GotString
    <2> QED BY <2>6, <2>7
  <1> QED BY <1>7, <1>8

\* A string that was written is read, and the tables stay in step.
HearsString(r, c, s, u, d, off) ==
    /\ Hears(r, c, u, d, off) /\ Keeps(r, u)
    /\ ~u.thrown => u.str = s /\ SameStrings(u, d)

LEMMA GotHears ==
    ASSUME NEW r, NEW c, NEW off, Meets(r, c, off), NEW b \in Strings, NEW d,
           Writes(d), ~d.thrown, d.buf = c.buf \o b, NEW u, NEW s, NEW stored,
           GotString(r, s, Len(b), stored, u), d.drifted \/ stored = d.strings
    PROVE  HearsString(r, c, s, u, d, off)
  <1>1. Took(r, u, Len(b)) /\ (~u.thrown => u.str = s /\ u.strings = stored)
    BY DEF GotString
  <1>2. Hears(r, c, u, d, off)
    BY <1>1, TookHears
  <1> QED BY <1>1, <1>2 DEF HearsString, Took, SameStrings

THEOREM StringRoundTrip ==
    ASSUME NEW r, NEW c, NEW off, Meets(r, c, off), SameStrings(r, c), NEW s \in Strings,
           NEW d, d = WriteString(s, c), ~d.thrown, d.sound, Tied(r.data, off, d.buf),
           NEW u, u = ReadString(r)
    PROVE  HearsString(r, c, s, u, d, off)
  <1>1. Writes(c) /\ ~c.thrown /\ Reading(r) /\ ~r.thrown
    BY DEF Meets
  <1>2. Writes(d) /\ d.drifted = c.drifted
    <2>1. Adds(c, d)
      BY <1>1, WriteStringAdds
    <2> QED BY <2>1 DEF Adds, Grows
  <1>3. CASE s = <<>> /\ StringNone(c, d)
    <2> DEFINE b == <<1>>
    <2>1. b \in Strings /\ Len(b) = 1
      <3>1. 1 \in Bytes
        BY SmallIsByte
      <3> QED BY <3>1, ByteIsString
    <2>2. d.buf = c.buf \o b /\ d.strings = c.strings
      BY <1>3 DEF StringNone
    <2>3. Offers(r, b)
      <3> HIDE DEF b
      <3> QED BY <2>1, <2>2, MeetsOffers
    <2>4. GotString(r, s, 1, r.strings, u)
      BY <1>1, <1>3, <2>3, GetEmpty
    <2>5. d.drifted \/ r.strings = d.strings
      BY <1>2, <2>2 DEF SameStrings
    <2> HIDE DEF b
    <2>6. GotString(r, s, Len(b), r.strings, u)
      BY <2>1, <2>4
    <2> QED BY <1>2, <2>1, <2>2, <2>5, <2>6, GotHears
  <1>4. CASE s # <<>> /\ StringIndex(s, c) # 0 /\ StringOld(s, c, StringIndex(s, c), d)
    <2> DEFINE i == StringIndex(s, c)
               b == ByteOf(i)
    <2>1. /\ d.strings = c.strings /\ i \in 1 .. Len(c.strings) /\ c.strings[i] = s
          /\ d.buf = c.buf \o b /\ d.sound = (c.sound /\ i - 1 < 64 /\ ~c.drifted)
      BY <1>4 DEF StringOld
    <2> HIDE DEF i
    <2>2. i - 1 < 64 /\ ~c.drifted
      BY <2>1
    <2>3. r.strings = c.strings /\ i \in Nat
      <3>1. Len(c.strings) \in Nat
        BY <1>1, WritesIs
      <3> QED BY <2>1, <2>2, <3>1 DEF SameStrings
    <2>4. b \in Strings /\ Len(b) = 1
      <3> DEFINE v == ((i - 1) * 2) % 256
      <3>1. v \in Bytes
        BY <2>3, SmallIsByte
      <3> HIDE DEF v
      <3>2. b = <<v>>
        BY DEF v, ByteOf
      <3> QED BY <3>1, <3>2, ByteIsString
    <2> HIDE DEF b
    <2>5. Offers(r, b)
      BY <2>1, <2>4, MeetsOffers
    <2>6. GotString(r, s, Len(b), r.strings, u)
      <3>1. i \in 1 .. Len(r.strings) /\ r.strings[i] = s
        BY <2>1, <2>3
      <3>2. GotString(r, r.strings[i], 1, r.strings, u)
        BY <1>1, <2>2, <2>3, <2>5, <3>1, GetOld DEF b
      <3> QED BY <2>4, <3>1, <3>2
    <2>7. d.drifted \/ r.strings = d.strings
      BY <2>1, <2>3
    <2> QED BY <1>2, <2>1, <2>4, <2>6, <2>7, GotHears
  <1>5. CASE s # <<>> /\ StringIndex(s, c) = 0 /\ StringNew(s, c, d)
    <2> DEFINE b == Spelled(s)
    <2>1. /\ d.strings = Append(c.strings, s) /\ Len(s) < LengthLimit /\ d.buf = c.buf \o b
          /\ LengthBytes(Len(s)) \in Strings
      BY <1>5 DEF StringNew
    <2>2. b \in Strings
      BY <2>1, ConcatIsString DEF Spelled
    <2>3. Offers(r, b)
      <3> HIDE DEF b
      <3> QED BY <2>1, <2>2, MeetsOffers
    <2>4. GotString(r, s, Len(b), Append(r.strings, s), u)
      BY <1>1, <1>5, <2>1, <2>3, GetNew
    <2>5. d.drifted \/ Append(r.strings, s) = d.strings
      BY <1>2, <2>1 DEF SameStrings
    <2> HIDE DEF b
    <2> QED BY <1>2, <2>1, <2>2, <2>4, <2>5, GotHears
  <1> QED BY <1>1, <1>3, <1>4, <1>5, StringIsWritten

-----------------------------------------------------------------------------
(* What is written is read: the traits of objects.                         *)

\* The first elements of a sequence
LEMMA FirstOnes ==
    ASSUME NEW S, NEW s \in Seq(S), NEW n \in Nat, n <= Len(s)
    PROVE  LET t == SubSeq(s, 1, n)
           IN IsSeq(t) /\ Len(t) = n /\ \A i \in 1 .. n : t[i] = s[i]
  <1> DEFINE a == 1
             t == SubSeq(s, a, n)
  <1>1. a = 1 /\ a \in Int
    OBVIOUS
  <1> HIDE DEF a
  <1>2. \A i \in a .. n : s[i] \in S
    BY <1>1
  <1>3. /\ t \in Seq(S) /\ Len(t) = (IF a <= n THEN n - a + 1 ELSE 0)
        /\ \A i \in 1 .. n - a + 1 : t[i] = s[a + i - 1]
    BY <1>1, <1>2, SubSeqProperties
  <1> HIDE DEF t
  <1>4. IsSeq(t) /\ Len(t) = n /\ \A i \in 1 .. n : t[i] = s[i]
    BY <1>1, <1>3 DEF IsSeq
  <1> QED BY <1>1, <1>4 DEF t

LEMMA SubSeqAll ==
    ASSUME NEW S, NEW s \in Seq(S)
    PROVE  SubSeq(s, 1, Len(s)) = s
  <1> DEFINE n == Len(s)
             t == SubSeq(s, 1, n)
  <1>1. n \in Nat /\ n <= Len(s) /\ IsSeq(s)
    BY SeqIs
  <1>2. IsSeq(t) /\ Len(t) = n /\ \A i \in 1 .. n : t[i] = s[i]
    <2> HIDE DEF n
    <2> QED BY <1>1, FirstOnes
  <1> HIDE DEF t
  <1>3. t = s
    BY <1>1, <1>2, SeqSame
  <1> QED BY <1>3 DEF t

LEMMA SubSeqMore ==
    ASSUME NEW S, NEW s \in Seq(S), NEW n \in Nat, n + 1 <= Len(s)
    PROVE  SubSeq(s, 1, n + 1) = Append(SubSeq(s, 1, n), s[n + 1])
  <1> DEFINE m == n + 1
             t == SubSeq(s, 1, n)
             u == SubSeq(s, 1, m)
             v == Append(t, s[m])
  <1>1. m \in Nat /\ m <= Len(s) /\ n <= Len(s) /\ m = n + 1
    OBVIOUS
  <1> HIDE DEF m
  <1>2. IsSeq(t) /\ Len(t) = n /\ \A i \in 1 .. n : t[i] = s[i]
    BY <1>1, FirstOnes
  <1>3. IsSeq(u) /\ Len(u) = m /\ \A i \in 1 .. m : u[i] = s[i]
    BY <1>1, FirstOnes
  <1> HIDE DEF t, u
  <1>4. IsSeq(v) /\ Len(v) = n + 1 /\ (\A i \in 1 .. n : v[i] = t[i]) /\ v[n + 1] = s[m]
    BY <1>2, SeqAppend
  <1> HIDE DEF v
  <1>5. \A i \in 1 .. Len(u) : u[i] = v[i]
    BY <1>1, <1>2, <1>3, <1>4
  <1>6. u = v
    BY <1>1, <1>3, <1>4, <1>5, SeqSame
  <1> QED BY <1>6 DEF m, t, u, v

\* Reading names and traits changes nothing of the items.
Within(r, u) == /\ u.data = r.data /\ u.objects = r.objects /\ u.stack = r.stack
                /\ u.list = r.list /\ u.item = r.item

LEMMA RunAdds ==
    ASSUME NEW c, Writes(c), NEW names \in Seq(Strings), NEW k \in Nat, k = Len(names),
           NEW run, run[0] = c, \A i \in 1 .. k : run[i] = WriteString(names[i], run[i - 1])
    PROVE  \A i \in 0 .. k : Writes(run[i]) /\ Adds(run[i], run[k])
  <1> DEFINE Q(j) == \A i \in 0 .. j : Writes(run[i]) /\ Adds(run[i], run[j])
             T == {j \in Nat : j <= k => Q(j)}
  <1>1. 0 \in T
    <2>1. Adds(c, c)
      BY AddsSelf
    <2>2. Q(0)
      BY <2>1, \A i \in 0 .. 0 : i = 0
    <2> QED BY <2>2
  <1>2. ASSUME NEW j \in Nat, j \in T PROVE j + 1 \in T
    <2> HIDE DEF Q
    <2>1. SUFFICES ASSUME j + 1 <= k PROVE Q(j + 1)
      OBVIOUS
    <2> DEFINE a == run[j]
               b == run[j + 1]
               s == names[j + 1]
    <2>2. j + 1 \in 1 .. k /\ (j + 1) - 1 = j /\ Q(j)
      BY <1>2, <2>1
    <2>3. b = WriteString(s, a) /\ s \in Strings
      BY <2>2
    <2>4. Writes(a) /\ \A i \in 0 .. j : Writes(run[i]) /\ Adds(run[i], a)
      BY <2>2 DEF Q
    <2> HIDE DEF a, b, s
    <2>6. Adds(a, b)
      BY <2>3, <2>4, WriteStringAdds
    <2>7. Writes(b)
      BY <2>6 DEF Adds
    <2>8. \A i \in 0 .. j : Adds(run[i], b)
      BY <2>4, <2>6, AddsOn
    <2>9. Adds(b, b)
      BY <2>7, AddsSelf
    <2>10. \A i \in 0 .. (j + 1) : i \in 0 .. j \/ i = j + 1
      OBVIOUS
    <2> QED BY <2>4, <2>7, <2>8, <2>9, <2>10 DEF Q, b
  <1> HIDE DEF T
  <1>3. Nat \subseteq T
    BY <1>1, <1>2, Induct
  <1> QED BY <1>3 DEF T

TraitOf(name, flags, attrs) == [name |-> name, flags |-> flags, attrs |-> attrs]

\* The trait of r is t.
Traitful(r, t, u) ==
    /\ Reading(u) /\ Within(r, u) /\ u.at = r.at /\ u.thrown = r.thrown /\ u.num = r.num
    /\ u.str = r.str /\ u.strings = r.strings /\ u.traits = r.traits /\ u.trait = t

LEMMA NameTrait ==
    ASSUME NEW r, Reading(r), NEW t, NEW u, u = [r EXCEPT !.trait = t]
    PROVE  Traitful(r, t, u)
  <1>1. /\ DOMAIN u = Fields /\ u.data = r.data /\ u.objects = r.objects /\ u.stack = r.stack
        /\ u.list = r.list /\ u.item = r.item /\ u.at = r.at /\ u.thrown = r.thrown
        /\ u.num = r.num /\ u.str = r.str /\ u.strings = r.strings /\ u.traits = r.traits
        /\ u.trait = t
    BY FieldsAre DEF Reading
  <1>2. Reading(u)
    BY <1>1 DEF Reading
  <1> QED BY <1>1, <1>2 DEF Traitful, Within

LEMMA AddTrait ==
    ASSUME NEW r, Reading(r), NEW name, NEW flags, NEW s, r.trait = TraitOf(name, flags, s),
           NEW u, u = [r EXCEPT !.trait.attrs = Append(@, r.str)]
    PROVE  Traitful(r, TraitOf(name, flags, Append(s, r.str)), u)
  <1> DEFINE t == [r.trait EXCEPT !.attrs = Append(@, r.str)]
  <1>1. u = [r EXCEPT !.trait = t]
    OBVIOUS
  <1>2. t = TraitOf(name, flags, Append(s, r.str))
    <2> DEFINE x == Append(s, r.str)
               z == TraitOf(name, flags, s)
    <2>1. t = [z EXCEPT !.attrs = x]
      BY DEF TraitOf
    <2> HIDE DEF x
    <2>2. [z EXCEPT !.attrs = x] = TraitOf(name, flags, x)
      BY DEF TraitOf
    <2> QED BY <2>1, <2>2 DEF x
  <1> HIDE DEF t
  <1>3. Traitful(r, t, u)
    BY <1>1, NameTrait
  <1> QED BY <1>2, <1>3

\* ReadAttribute by its cases
LEMMA ReadAttributeIs ==
    ASSUME NEW r, NEW n, n = ReadString(r)
    PROVE  /\ r.thrown => ReadAttribute(r) = r
           /\ ~r.thrown /\ n.thrown => ReadAttribute(r) = n
           /\ ~r.thrown /\ ~n.thrown => ReadAttribute(r) = [n EXCEPT !.trait.attrs = Append(@, n.str)]
  BY DEF ReadAttribute, Then

\* As many of the names as were written are read, or one of them is missed.
HearsNames(r, c, name, flags, names, u, d, off) ==
    /\ Hears(r, c, u, d, off) /\ Within(r, u)
    /\ ~u.thrown => /\ SameStrings(u, d) /\ u.traits = r.traits
                    /\ u.trait = TraitOf(name, flags, names)

LEMMA NextName ==
    ASSUME NEW r, NEW c, NEW name, NEW flags, NEW s, NEW v, NEW e, NEW off, off \in Nat,
           HearsNames(r, c, name, flags, s, v, e, off), Writes(e),
           NEW x \in Strings, NEW d, d = WriteString(x, e), ~d.thrown, d.sound,
           Tied(r.data, off, d.buf), NEW u, u = ReadAttribute(v)
    PROVE  HearsNames(r, c, name, flags, Append(s, x), u, d, off)
  <1>1. /\ Hears(r, c, v, e, off) /\ Within(r, v)
        /\ ~v.thrown => /\ SameStrings(v, e) /\ v.traits = r.traits
                        /\ v.trait = TraitOf(name, flags, s)
    BY DEF HearsNames
  <1>2. Adds(e, d)
    BY WriteStringAdds
  <1>3. Writes(d) /\ Begins(e.buf, d.buf) /\ ~e.thrown
    BY <1>2 DEF Adds, Grows, Writes
  <1> DEFINE n == ReadString(v)
  <1>4. /\ v.thrown => u = v
        /\ ~v.thrown /\ n.thrown => u = n
        /\ ~v.thrown /\ ~n.thrown => u = [n EXCEPT !.trait.attrs = Append(@, n.str)]
    BY ReadAttributeIs
  <1>5. ASSUME ~v.thrown
        PROVE  HearsString(v, e, x, n, d, off)
    <2>1. Meets(v, e, off) /\ SameStrings(v, e) /\ v.data = r.data
      BY <1>1, <1>5 DEF Hears
    <2> HIDE DEF n
    <2>2. n = ReadString(v)
      BY DEF n
    <2>3. Tied(v.data, off, d.buf)
      BY <2>1
    <2> QED BY <2>1, <2>2, <2>3, StringRoundTrip
  <1> HIDE DEF n
  <1>6. ASSUME ~v.thrown
        PROVE  /\ Hears(v, e, u, d, off) /\ Within(v, u)
               /\ ~u.thrown => /\ SameStrings(u, d) /\ u.traits = v.traits
                               /\ u.trait = TraitOf(name, flags, Append(s, x))
    <2>1. /\ Hears(v, e, n, d, off) /\ Keeps(v, n)
          /\ ~n.thrown => n.str = x /\ SameStrings(n, d)
      BY <1>5, <1>6 DEF HearsString
    <2>2. CASE n.thrown
      BY <1>4, <1>6, <2>1, <2>2 DEF Keeps, Within
    <2>3. CASE ~n.thrown
      <3>1. u = [n EXCEPT !.trait.attrs = Append(@, n.str)] /\ Reading(n)
        BY <1>4, <1>6, <2>1, <2>3 DEF Hears
      <3>2. n.trait = TraitOf(name, flags, s)
        BY <1>1, <1>6, <2>1 DEF Keeps
      <3>3. Traitful(n, TraitOf(name, flags, Append(s, n.str)), u)
        BY <3>1, <3>2, AddTrait
      <3>4. /\ Reading(u) /\ Within(n, u) /\ u.at = n.at /\ ~u.thrown
            /\ u.strings = n.strings /\ u.traits = n.traits
            /\ u.trait = TraitOf(name, flags, Append(s, x))
        BY <2>1, <2>3, <3>3 DEF Traitful
      <3>5. Meets(u, d, off) /\ u.data = v.data
        BY <2>1, <2>3, <3>4 DEF Hears, Meets, Within
      <3>6. Hears(v, e, u, d, off)
        BY <3>4, <3>5 DEF Hears
      <3>7. Within(v, u) /\ u.traits = v.traits /\ SameStrings(u, d)
        BY <2>1, <2>3, <3>4 DEF Within, Keeps, SameStrings
      <3> QED BY <3>4, <3>6, <3>7
    <2> QED BY <2>2, <2>3
  <1>7. Hears(r, c, u, d, off)
    <2>1. v.thrown => u = v
      BY <1>4
    <2>2. ~v.thrown => Hears(v, e, u, d, off)
      BY <1>6
    <2> QED BY <1>1, <1>3, <2>1, <2>2, HearsOn
  <1>8. CASE v.thrown
    BY <1>1, <1>4, <1>7, <1>8 DEF HearsNames
  <1>9. CASE ~v.thrown
    BY <1>1, <1>6, <1>7, <1>9 DEF HearsNames, Within
  <1> QED BY <1>8, <1>9

LEMMA NamesRoundTrip ==
    ASSUME NEW r, NEW c, NEW off, Meets(r, c, off), SameStrings(r, c), NEW name, NEW flags,
           r.trait = TraitOf(name, flags, <<>>), NEW names \in Seq(Strings),
           NEW d, d = WriteStrings(names, c), ~d.thrown, d.sound, Tied(r.data, off, d.buf),
           NEW u, u = ReadAttributes(r, Len(names))
    PROVE  HearsNames(r, c, name, flags, names, u, d, off)
  <1> DEFINE k == Len(names)
  <1>0. /\ Writes(c) /\ ~c.thrown /\ Reading(r) /\ ~r.thrown /\ off \in Nat
        /\ r.at = off + Len(c.buf) + 1 /\ Len(c.buf) \in Nat /\ c.buf \in Strings
    BY StringHas DEF Meets, Writes
  <1>1. k \in Nat /\ \A i \in 1 .. k : names[i] \in Strings
    OBVIOUS
  <1>2. /\ Adds(c, d) /\ Writes(d) /\ Len(d.buf) >= Len(c.buf) + k /\ Len(d.buf) \in Nat
        /\ d.buf \in Strings
    <2>1. Adds(c, d) /\ Len(d.buf) >= Len(c.buf) + k
      BY <1>0, WriteStringsAdds
    <2>2. Writes(d) /\ d.buf \in Strings
      BY <2>1 DEF Adds, Writes
    <2> QED BY <2>1, <2>2, StringHas
  <1>3. Left(r) \in Nat /\ Left(r) = Len(r.data) - r.at + 1 /\ Len(r.data) \in Nat
    BY <1>0, ReadingIs
  <1>4. CASE k > Left(r)
    <2>1. u = Refuse(r)
      BY <1>4 DEF ReadAttributes
    <2>2. Reads(r, u, 0) /\ u.thrown
      BY <1>0, <2>1, RefuseReads
    <2>3. Reading(u) /\ Keeps(r, u)
      BY <2>2 DEF Reads
    <2>4. Len(r.data) < off + Len(d.buf)
      <3> DEFINE x == Len(r.data)
                 y == Len(c.buf)
                 z == Len(d.buf)
                 l == Left(r)
                 a == r.at
      <3>1. /\ x \in Nat /\ y \in Nat /\ z \in Nat /\ a = off + y + 1 /\ z >= y + k
            /\ l = x - a + 1 /\ k > l /\ off \in Nat
        BY <1>0, <1>2, <1>3, <1>4
      <3> HIDE DEF x, y, z, l, a, k
      <3>2. x < off + z
        BY <1>1, <3>1
      <3> QED BY <3>2 DEF x, z
    <2>5. Misses(u, d, off)
      BY <2>2, <2>3, <2>4 DEF Misses, Keeps
    <2>6. Hears(r, c, u, d, off)
      BY <2>2, <2>3, <2>5 DEF Hears, Keeps
    <2> QED BY <2>2, <2>3, <2>6 DEF HearsNames, Keeps, Within
  <1>h. HearsNames(r, c, name, flags, <<>>, r, c, off)
    <2>1. Hears(r, c, r, c, off)
      BY <1>0 DEF Hears
    <2> QED BY <2>1 DEF HearsNames, Within
  <1>5. CASE k = 0
    <2>1. u = r
      BY <1>3, <1>5 DEF ReadAttributes
    <2>2. names = <<>>
      BY <1>5
    <2>3. d = c
      <3>1. PICK run : /\ run[0] = c
                       /\ WriteStrings(names, c) = run[k]
        BY <1>1, StringsComputed DEF k
      <3> QED BY <3>1, <1>5
    <2> QED BY <1>h, <2>1, <2>2, <2>3
  <1>6. CASE k <= Left(r) /\ k > 0
    <2> HIDE DEF k
    <2>a. k \in Nat /\ k <= Left(r) /\ k > 0 /\ Left(r) \in Nat
      BY <1>1, <1>3, <1>6
    <2>b. \E read : AttributeRun(r, k, read)
      BY <2>a, AttributesComputed
    <2>c. PICK read : AttributeRun(r, k, read)
      BY <2>b
    <2>1. /\ read[0] = r
          /\ \A i \in 1 .. k : read[i] = ReadAttribute(read[i - 1])
          /\ ReadAttributes(r, k) = read[k]
      BY <2>c DEF AttributeRun
    <2>2. PICK run : /\ run[0] = c
                     /\ \A i \in 1 .. k : run[i] = WriteString(names[i], run[i - 1])
                     /\ WriteStrings(names, c) = run[k]
      BY <1>1, StringsComputed DEF k
    <2>3. d = run[k] /\ u = read[k]
      BY <2>1, <2>2 DEF k
    <2>4. \A i \in 0 .. k : Writes(run[i]) /\ Adds(run[i], d)
      BY <1>0, <1>1, <2>2, <2>3, RunAdds DEF k
    <2>5. \A i \in 0 .. k : ~run[i].thrown /\ run[i].sound /\ Tied(r.data, off, run[i].buf)
      <3>1. TAKE i \in 0 .. k
      <3>2. Adds(run[i], d) /\ Writes(run[i])
        BY <2>4
      <3>3. Begins(run[i].buf, d.buf) /\ ~run[i].thrown /\ run[i].sound
        BY <3>2 DEF Adds, Grows, Writes
      <3>4. run[i].buf \in Strings
        BY <3>2 DEF Writes
      <3> QED BY <3>3, <3>4, TiedBegins
    <2> DEFINE P(i) == HearsNames(r, c, name, flags, SubSeq(names, 1, i), read[i], run[i], off)
               T == {i \in Nat : i <= k => P(i)}
    <2>6. 0 \in T
      <3>1. SubSeq(names, 1, 0) = <<>>
        OBVIOUS
      <3>2. P(0)
        BY <1>h, <2>1, <2>2, <3>1
      <3> QED BY <3>2
    <2>7. ASSUME NEW i \in Nat, i \in T PROVE i + 1 \in T
      <3> DEFINE s == SubSeq(names, 1, i)
                 v == read[i]
                 e == run[i]
                 y == read[i + 1]
                 z == run[i + 1]
                 x == names[i + 1]
      <3>1. SUFFICES ASSUME i + 1 <= k PROVE P(i + 1)
        OBVIOUS
      <3>2. i + 1 \in 1 .. k /\ (i + 1) - 1 = i /\ P(i) /\ i \in 0 .. k /\ i + 1 \in 0 .. k
        BY <1>1, <2>7, <3>1
      <3>3. SubSeq(names, 1, i + 1) = Append(s, x)
        BY <1>1, <3>2, SubSeqMore DEF k
      <3>4. z = WriteString(x, e) /\ y = ReadAttribute(v) /\ x \in Strings
        BY <1>1, <2>1, <2>2, <3>2
      <3>5. Writes(e) /\ ~z.thrown /\ z.sound /\ Tied(r.data, off, z.buf)
        BY <2>4, <2>5, <3>2
      <3>6. HearsNames(r, c, name, flags, s, v, e, off)
        BY <3>2
      <3> HIDE DEF s, v, e, y, z, x
      <3>7. HearsNames(r, c, name, flags, Append(s, x), y, z, off)
        BY <1>0, <3>4, <3>5, <3>6, NextName
      <3> QED BY <3>3, <3>7 DEF y, z
    <2> HIDE DEF T
    <2>8. Nat \subseteq T
      BY <2>6, <2>7, Induct
    <2>9. P(k)
      BY <1>1, <2>8 DEF T
    <2>10. SubSeq(names, 1, k) = names
      BY SubSeqAll DEF k
    <2> QED BY <2>3, <2>9, <2>10
  <1> QED BY <1>1, <1>3, <1>4, <1>5, <1>6

\* The integer in front of traits in full says of which kind they are, and how
\* many names follow.
MarkGot(r, n, w) ==
    /\ Took(r, w, Len(TraitsMark(n))) /\ w.strings = r.strings
    /\ ~w.thrown => /\ w.num % 2 = 1 /\ w.num % 4 # 1
                    /\ ("externalizable" \in n.flags) = (w.num % 8 = 7)
                    /\ "externalizable" \notin n.flags =>
                          /\ w.num \div 16 = Len(AttrNames(n))
                          /\ ("dynamic" \in n.flags) = ((w.num \div 8) % 2 = 1)

LEMMA GetMark ==
    ASSUME NEW r, Reading(r), ~r.thrown, NEW n \in Nodes, Offers(r, TraitsMark(n)),
           NEW w, w = ReadInteger(r)
    PROVE  MarkGot(r, n, w)
  <1>1. CASE "externalizable" \in n.flags
    <2> DEFINE b == <<7>>
    <2>1. TraitsMark(n) = b /\ Len(b) = 1
      BY <1>1 DEF TraitsMark
    <2>2. GotInteger(r, 7, 1, w)
      <3>1. Offers(r, <<7>>)
        BY <2>1
      <3> QED BY <3>1, GetSmall
    <2> QED BY <1>1, <2>1, <2>2 DEF GotInteger, MarkGot
  <1>2. CASE "externalizable" \notin n.flags
    <2> DEFINE m == Len(AttrNames(n))
               q == IF "dynamic" \in n.flags THEN 8 ELSE 0
               v == m * 16 + 3 + q
               k == Len(TraitsMark(n))
    <2>1. m \in Nat /\ m < AttrsLimit /\ q \in {0, 8}
      BY AttrNamesAre
    <2>q. ("dynamic" \in n.flags) = (q = 8)
      OBVIOUS
    <2>3. TraitsMark(n) = IntegerBytes(v)
      BY <1>2 DEF TraitsMark
    <2> HIDE DEF m, q
    <2>2. v \in Int /\ InRange(v)
      BY <2>1, SMT DEF InRange, AttrsLimit
    <2>4. v % 2 = 1 /\ v % 4 # 1 /\ v % 8 # 7 /\ v \div 16 = m /\ (q = 8) = ((v \div 8) % 2 = 1)
      <3>1. CASE q = 0
        BY <2>1, <3>1
      <3>2. CASE q = 8
        BY <2>1, <3>2
      <3> QED BY <2>1, <3>1, <3>2
    <2> HIDE DEF v
    <2>5. GotInteger(r, v, Len(IntegerBytes(v)), w)
      BY <2>2, <2>3, GetInteger
    <2>6. Took(r, w, k) /\ w.strings = r.strings /\ (~w.thrown => w.num = v)
      BY <2>3, <2>5 DEF GotInteger
    <2> QED BY <1>2, <2>4, <2>6, <2>q DEF MarkGot, m
  <1> QED BY <1>1, <1>2

\* What the one who reads has of traits
Sent(t)       == TraitOf(t.name, t.flags, Sorted(ToSet(t.attrs)))
SentAll(ts)   == [i \in DOMAIN ts |-> Sent(ts[i])]
SameTraits(r, c) == ~c.drifted => r.traits = SentAll(c.traits)

LEMMA SentAppend ==
    ASSUME NEW ts, IsSeq(ts), NEW t
    PROVE  SentAll(Append(ts, t)) = Append(SentAll(ts), Sent(t))
  <1> DEFINE k == Len(ts)
             a == SentAll(ts)
             b == Append(ts, t)
             x == SentAll(b)
             y == Append(a, Sent(t))
  <1>1. k \in Nat /\ DOMAIN ts = 1 .. k
    BY SeqHas
  <1>2. IsSeq(b) /\ Len(b) = k + 1 /\ (\A i \in 1 .. k : b[i] = ts[i]) /\ b[k + 1] = t
    BY SeqAppend
  <1>3. DOMAIN b = 1 .. k + 1
    BY <1>2, SeqHas
  <1> HIDE DEF b, k
  <1>4. DOMAIN a = 1 .. k /\ a = [i \in 1 .. k |-> a[i]] /\ \A i \in 1 .. k : a[i] = Sent(ts[i])
    BY <1>1 DEF SentAll
  <1>5. DOMAIN x = 1 .. k + 1 /\ x = [i \in 1 .. k + 1 |-> x[i]] /\ \A i \in 1 .. k + 1 : x[i] = Sent(b[i])
    BY <1>3 DEF SentAll
  <1> HIDE DEF a, x
  <1>6. IsSeq(a) /\ Len(a) = k
    BY <1>1, <1>4, SeqGiven
  <1>7. IsSeq(x) /\ Len(x) = k + 1
    <2>1. k + 1 \in Nat
      BY <1>1
    <2> QED BY <2>1, <1>5, SeqGiven
  <1>8. IsSeq(y) /\ Len(y) = k + 1 /\ (\A i \in 1 .. k : y[i] = a[i]) /\ y[k + 1] = Sent(t)
    BY <1>6, SeqAppend
  <1> HIDE DEF y
  <1>9. \A i \in 1 .. Len(x) : x[i] = y[i]
    BY <1>1, <1>2, <1>4, <1>5, <1>7, <1>8
  <1>10. x = y
    BY <1>7, <1>8, <1>9, SeqSame
  <1> QED BY <1>10 DEF a, b, x, y

\* The bytes, and what is in the tables
InStep(r, c) == SameStrings(r, c) /\ SameTraits(r, c)

HearsTraits(r, c, n, u, d, off) ==
    /\ Hears(r, c, u, d, off) /\ Within(r, u)
    /\ ~u.thrown => InStep(u, d) /\ u.trait = Sent(Traits(n))

\* The traits that were read are known from then on.
TraitsStored(t, x, u) ==
    /\ Reading(u) /\ Within(t, u) /\ u.at = t.at /\ u.thrown = t.thrown /\ u.strings = t.strings
    /\ u.trait = t.trait /\ u.traits = Append(t.traits, x)

LEMMA StoreTraits ==
    ASSUME NEW t, Reading(t), NEW u, u = [t EXCEPT !.traits = Append(@, t.trait)]
    PROVE  TraitsStored(t, t.trait, u)
  <1> DEFINE x == Append(t.traits, t.trait)
  <1>1. u = [t EXCEPT !.traits = x]
    OBVIOUS
  <1> HIDE DEF x
  <1>2. /\ DOMAIN u = Fields /\ u.data = t.data /\ u.objects = t.objects /\ u.stack = t.stack
        /\ u.list = t.list /\ u.item = t.item /\ u.at = t.at /\ u.thrown = t.thrown
        /\ u.num = t.num /\ u.str = t.str /\ u.strings = t.strings /\ u.trait = t.trait
        /\ u.traits = x
    BY <1>1, FieldsAre DEF Reading
  <1>3. Reading(u)
    BY <1>2 DEF Reading
  <1> QED BY <1>2, <1>3 DEF TraitsStored, Within, x

LEMMA TraitsRest ==
    ASSUME NEW v, NEW a, NEW off, Meets(v, a, off), SameStrings(v, a), NEW n \in Nodes,
           NEW ct, IsSeq(ct), a.traits = Append(ct, Traits(n)),
           ~a.drifted => v.traits = SentAll(ct), v.trait = TraitOf(n.name, n.flags, <<>>),
           NEW d, d = IF "externalizable" \in n.flags THEN a ELSE WriteStrings(AttrNames(n), a),
           ~d.thrown, d.sound, Tied(v.data, off, d.buf),
           NEW t, t = ReadAttributes(v, IF "externalizable" \in n.flags THEN 0 ELSE Len(AttrNames(n))),
           NEW u, t.thrown => u = t, ~t.thrown => u = [t EXCEPT !.traits = Append(@, t.trait)]
    PROVE  HearsTraits(v, a, n, u, d, off)
  <1> DEFINE names == AttrNames(n)
  <1>0. Writes(a) /\ Reading(v) /\ off \in Nat /\ ~v.thrown
    BY DEF Meets
  <1>1. Sent(Traits(n)) = TraitOf(n.name, n.flags, names)
    BY DEF Sent, Traits, AttrNames
  <1>2. names \in Seq(Strings) /\ ("externalizable" \in n.flags => names = <<>>)
    BY AttrNamesAre
  <1> HIDE DEF names
  <1>3. /\ Hears(v, a, t, d, off) /\ Within(v, t)
        /\ ~t.thrown => /\ SameStrings(t, d) /\ t.traits = v.traits
                        /\ t.trait = TraitOf(n.name, n.flags, names)
    <2>1. CASE "externalizable" \in n.flags
      <3>1. t = v
        <4>1. Left(v) \in Nat
          BY <1>0, ReadingIs
        <4> QED BY <2>1, <4>1 DEF ReadAttributes
      <3>2. d = a
        BY <2>1
      <3>3. Hears(v, a, t, d, off)
        BY <1>0, <3>1, <3>2 DEF Hears
      <3> QED BY <1>2, <2>1, <3>1, <3>2, <3>3 DEF Within
    <2>2. CASE "externalizable" \notin n.flags
      <3>1. d = WriteStrings(names, a) /\ t = ReadAttributes(v, Len(names))
        BY <2>2 DEF names
      <3>2. HearsNames(v, a, n.name, n.flags, names, t, d, off)
        BY <1>2, <3>1, NamesRoundTrip
      <3> QED BY <3>2 DEF HearsNames
    <2> QED BY <2>1, <2>2
  <1>4. d.traits = a.traits /\ d.drifted = a.drifted
    <2>1. CASE "externalizable" \in n.flags
      BY <2>1
    <2>2. CASE "externalizable" \notin n.flags
      <3>1. d = WriteStrings(names, a)
        BY <2>2 DEF names
      <3>2. Adds(a, d) /\ d.traits = a.traits
        BY <1>0, <1>2, <3>1, WriteStringsAdds
      <3> QED BY <3>2 DEF Adds, Grows
    <2> QED BY <2>1, <2>2
  <1>5. CASE t.thrown
    BY <1>3, <1>5 DEF HearsTraits
  <1>6. CASE ~t.thrown
    <2>1. Reading(t) /\ u = [t EXCEPT !.traits = Append(@, t.trait)]
      BY <1>3, <1>6 DEF Hears
    <2>2. TraitsStored(t, t.trait, u)
      BY <2>1, StoreTraits
    <2>3. /\ Reading(u) /\ Within(t, u) /\ u.at = t.at /\ ~u.thrown
          /\ u.strings = t.strings /\ u.trait = Sent(Traits(n))
          /\ u.traits = Append(v.traits, Sent(Traits(n)))
      BY <1>1, <1>3, <1>6, <2>2 DEF TraitsStored
    <2>4. Meets(u, d, off) /\ u.data = v.data
      BY <1>3, <1>6, <2>3 DEF Hears, Meets, Within
    <2>5. Hears(v, a, u, d, off)
      BY <2>3, <2>4 DEF Hears
    <2>6. SameStrings(u, d)
      BY <1>3, <1>6, <2>3 DEF SameStrings
    <2>7. SameTraits(u, d)
      <3>1. ASSUME ~d.drifted PROVE u.traits = SentAll(d.traits)
        <4>1. u.traits = Append(SentAll(ct), Sent(Traits(n)))
          BY <1>4, <2>3, <3>1
        <4> DEFINE x == Traits(n)
        <4>2. d.traits = Append(ct, x)
          BY <1>4
        <4> HIDE DEF x
        <4>3. SentAll(Append(ct, x)) = Append(SentAll(ct), Sent(x))
          BY SentAppend
        <4> QED BY <4>1, <4>2, <4>3 DEF x
      <3> QED BY <3>1 DEF SameTraits
    <2>8. Within(v, u)
      BY <1>3, <2>3 DEF Within
    <2> QED BY <2>3, <2>5, <2>6, <2>7, <2>8 DEF HearsTraits, InStep
  <1> QED BY <1>5, <1>6

\* The integer in front of the traits, and the traits
TraitsHeard(r, c, n, w, u, d, off) ==
    /\ ~w.thrown => w.num % 2 = 1
    /\ HearsTraits(r, c, n, u, d, off)

LEMMA OldTraitsHeard ==
    ASSUME NEW r, NEW c, NEW off, Meets(r, c, off), InStep(r, c), NEW n \in Nodes, NEW i,
           NEW d, TraitsOld(n, c, i, d), d.sound, Tied(r.data, off, d.buf),
           NEW w, w = ReadInteger(r), NEW u, u = IF w.thrown THEN w ELSE ReadTraits(w)
    PROVE  TraitsHeard(r, c, n, w, u, d, off)
  <1> DEFINE v == (i - 1) * 4 + 1
             b == <<v>>
  <1>0. Writes(c) /\ Reading(r) /\ ~r.thrown /\ off \in Nat
    BY DEF Meets
  <1>1. /\ Adds(c, d) /\ Writes(d) /\ ~d.thrown /\ d.traits = c.traits /\ d.strings = c.strings
        /\ d.drifted = c.drifted
        /\ i \in 1 .. Len(c.traits) /\ c.traits[i] = Traits(n) /\ d.buf = c.buf \o TraitsByte(i)
        /\ i - 1 < 32 /\ ~c.drifted /\ Len(c.traits) \in Nat
    BY <1>0, WritesIs DEF TraitsOld, Adds, Grows
  <1>2. /\ v \in 0 .. 127 /\ v % 256 = v /\ v % 2 = 1 /\ v % 4 = 1 /\ v \div 4 + 1 = i /\ i \in Nat
    <2>1. i \in Nat /\ i >= 1 /\ i <= 32
      BY <1>1
    <2>2. v \in 0 .. 127
      BY <2>1
    <2>3. v % 2 = 1 /\ v % 4 = 1
      BY <2>1
    <2>4. v \div 4 + 1 = i
      BY <2>1
    <2> QED BY <2>1, <2>2, <2>3, <2>4
  <1>3. TraitsByte(i) = b
    BY <1>2 DEF TraitsByte
  <1> HIDE DEF v
  <1>4. b \in Strings /\ Len(b) = 1
    <2>1. v \in Bytes
      BY <1>2, SmallIsByte
    <2> QED BY <2>1, ByteIsString
  <1>5. Offers(r, b)
    <2>1. d.buf = c.buf \o b
      BY <1>1, <1>3
    <2> HIDE DEF b
    <2> QED BY <1>4, <2>1, MeetsOffers
  <1>6. GotInteger(r, v, 1, w)
    BY <1>0, <1>2, <1>5, GetSmall
  <1>7. /\ Took(r, w, Len(b)) /\ Reading(w) /\ Keeps(r, w) /\ w.strings = r.strings
        /\ ~w.thrown => w.num = v
    BY <1>4, <1>6 DEF GotInteger, Took
  <1>8. Hears(r, c, w, d, off)
    <2>1. d.buf = c.buf \o b
      BY <1>1, <1>3
    <2> HIDE DEF b
    <2> QED BY <1>1, <1>4, <1>7, <2>1, TookHears
  <1>9. CASE w.thrown
    BY <1>7, <1>8, <1>9 DEF TraitsHeard, HearsTraits, Within, Keeps
  <1>10. CASE ~w.thrown
    <2> DEFINE x == w.traits[i]
    <2>1. w.traits = SentAll(c.traits)
      BY <1>1, <1>7 DEF InStep, SameTraits, Keeps
    <2>2. i \in DOMAIN w.traits /\ w.traits[i] = Sent(Traits(n))
      <3>1. i \in DOMAIN c.traits
        BY <1>0, <1>1, SeqHas DEF Writes
      <3> QED BY <1>1, <2>1, <3>1 DEF SentAll
    <2>3. u = [w EXCEPT !.trait = x]
      <3>1. u = GetTraits(w)
        BY <1>2, <1>7, <1>10 DEF ReadTraits
      <3> QED BY <1>2, <1>7, <1>10, <2>2, <3>1 DEF GetTraits
    <2> HIDE DEF x
    <2>4. Traitful(w, x, u)
      BY <1>7, <2>3, NameTrait
    <2>5. /\ Reading(u) /\ Within(w, u) /\ u.at = w.at /\ ~u.thrown /\ u.strings = w.strings
          /\ u.traits = w.traits /\ u.trait = Sent(Traits(n))
      BY <1>10, <2>2, <2>4 DEF Traitful, x
    <2>6. Hears(r, c, u, d, off)
      BY <1>8, <1>10, <2>5 DEF Hears, Meets, Within
    <2>7. InStep(u, d)
      BY <1>1, <1>7, <2>1, <2>5 DEF InStep, SameStrings, SameTraits
    <2>8. Within(r, u)
      BY <1>7, <2>5 DEF Within, Keeps
    <2> QED BY <1>2, <1>7, <2>5, <2>6, <2>7, <2>8 DEF TraitsHeard, HearsTraits
  <1> QED BY <1>9, <1>10

\* What the one who wrote had on the way to traits in full
LEMMA NewTraitsOnTheWay ==
    ASSUME NEW c, Writes(c), ~c.thrown, NEW n \in Nodes, NEW a, NEW d, TraitsNew(n, c, a, d),
           NEW e, e = Emit(c, TraitsMark(n)), NEW y, y = WriteString(n.name, e)
    PROVE  /\ Writes(e) /\ ~e.thrown /\ e.buf = c.buf \o TraitsMark(n) /\ e.strings = c.strings
           /\ e.drifted = c.drifted /\ Adds(e, y)
           /\ Writes(y) /\ ~y.thrown /\ y.drifted = c.drifted
           /\ Writes(a) /\ Adds(a, d) /\ a.buf = y.buf /\ a.strings = y.strings
           /\ a.sound = y.sound /\ a.drifted = c.drifted /\ ~a.thrown
  <1>1. TraitsMark(n) \in Strings /\ n.name \in Strings
    BY TraitsMarkIs, NodeIs DEF ItemOf
  <1>2. /\ Adds(c, e) /\ e.buf = c.buf \o TraitsMark(n) /\ e.strings = c.strings
        /\ e.thrown = c.thrown
    BY <1>1, EmitAdds
  <1>3. Writes(e) /\ e.drifted = c.drifted
    BY <1>2 DEF Adds, Grows
  <1>4. Adds(e, y)
    BY <1>1, <1>3, WriteStringAdds
  <1>5. Writes(y) /\ y.drifted = e.drifted
    BY <1>4 DEF Adds, Grows
  <1>6. /\ Writes(a) /\ Adds(c, a) /\ ~a.thrown /\ a.buf = y.buf /\ a.strings = y.strings
        /\ a.sound = y.sound /\ ~y.thrown
        /\ IF "externalizable" \in n.flags THEN d = a ELSE d = WriteStrings(AttrNames(n), a)
    BY DEF TraitsNew
  <1>7. a.drifted = c.drifted
    BY <1>6 DEF Adds, Grows
  <1>8. Adds(a, d)
    <2>1. CASE "externalizable" \in n.flags
      BY <1>6, <2>1, AddsSelf
    <2>2. CASE "externalizable" \notin n.flags
      BY <1>6, <2>2, AttrNamesAre, WriteStringsAdds
    <2> QED BY <2>1, <2>2
  <1> QED BY <1>2, <1>3, <1>4, <1>5, <1>6, <1>7, <1>8

FlagsRead(num) == IF num % 8 = 7 THEN {"externalizable"}
                  ELSE IF (num \div 8) % 2 = 1 THEN {"dynamic"} ELSE {}

LEMMA FlagsAreRead ==
    ASSUME NEW r, NEW n \in Nodes, n.type = "object", NEW w, MarkGot(r, n, w), ~w.thrown
    PROVE  /\ w.num % 2 = 1 /\ w.num % 4 # 1 /\ FlagsRead(w.num) = n.flags
           /\ (IF w.num % 8 = 7 THEN 0 ELSE w.num \div 16)
                 = (IF "externalizable" \in n.flags THEN 0 ELSE Len(AttrNames(n)))
  <1>1. n.flags \in {{}, {"dynamic"}, {"externalizable"}}
    BY NodeIs DEF ItemOf, FlagsOf, Vectors
  <1>2. n.flags = IF "externalizable" \in n.flags THEN {"externalizable"}
                  ELSE IF "dynamic" \in n.flags THEN {"dynamic"} ELSE {}
    BY <1>1
  <1> QED BY <1>2 DEF MarkGot, FlagsRead

LEMMA NewTraitsHeard ==
    ASSUME NEW r, NEW c, NEW off, Meets(r, c, off), InStep(r, c), NEW n \in Nodes, n.type = "object",
           NEW a, NEW d, TraitsNew(n, c, a, d), ~d.thrown, d.sound, Tied(r.data, off, d.buf),
           NEW w, w = ReadInteger(r), NEW u, u = IF w.thrown THEN w ELSE ReadTraits(w)
    PROVE  TraitsHeard(r, c, n, w, u, d, off)
  <1> DEFINE mark == TraitsMark(n)
             e == Emit(c, mark)
             y == WriteString(n.name, e)
             s == ReadString(w)
             flags == FlagsRead(w.num)
             v == [s EXCEPT !.trait = TraitOf(s.str, flags, <<>>)]
             t == ReadAttributes(v, IF w.num % 8 = 7 THEN 0 ELSE w.num \div 16)
  <1>0. Writes(c) /\ ~c.thrown /\ Reading(r) /\ ~r.thrown /\ off \in Nat /\ IsSeq(c.traits)
    BY DEF Meets, Writes
  <1>1. /\ Writes(e) /\ ~e.thrown /\ e.buf = c.buf \o mark /\ e.strings = c.strings
        /\ e.drifted = c.drifted /\ Adds(e, y)
        /\ Writes(y) /\ ~y.thrown /\ y.drifted = c.drifted
        /\ Writes(a) /\ Adds(a, d) /\ a.buf = y.buf /\ a.strings = y.strings
        /\ a.sound = y.sound /\ a.drifted = c.drifted /\ ~a.thrown
    BY <1>0, NewTraitsOnTheWay
  <1>2. a.traits = Append(c.traits, Traits(n)) /\ n.name \in Strings /\ mark \in Strings
    BY TraitsMarkIs, NodeIs DEF TraitsNew, ItemOf
  <1>3. d = IF "externalizable" \in n.flags THEN a ELSE WriteStrings(AttrNames(n), a)
    BY DEF TraitsNew
  <1>4. Writes(d) /\ Begins(y.buf, d.buf) /\ a.sound /\ Begins(e.buf, y.buf) /\ Begins(e.buf, d.buf)
    <2>1. Writes(d) /\ Begins(a.buf, d.buf) /\ a.sound
      BY <1>1 DEF Adds, Grows
    <2>2. Begins(e.buf, y.buf)
      BY <1>1 DEF Adds, Grows
    <2>3. e.buf \in Strings /\ y.buf \in Strings /\ d.buf \in Strings
      BY <1>1, <2>1 DEF Writes
    <2> QED BY <1>1, <2>1, <2>2, <2>3, BeginsOn
  <1>y. y = WriteString(n.name, e)
    OBVIOUS
  <1> HIDE DEF mark, e, y
  <1>5. Tied(r.data, off, y.buf) /\ Tied(r.data, off, e.buf)
    <2>1. e.buf \in Strings /\ y.buf \in Strings
      BY <1>1 DEF Writes
    <2> QED BY <1>4, <2>1, TiedBegins
  <1>6. MarkGot(r, n, w)
    <2>1. Offers(r, mark)
      BY <1>1, <1>2, <1>5, MeetsOffers
    <2> QED BY <1>0, <2>1, GetMark DEF mark
  <1>7. /\ Took(r, w, Len(mark)) /\ w.strings = r.strings /\ Keeps(r, w)
        /\ ~w.thrown => w.num % 2 = 1
    BY <1>6 DEF MarkGot, mark, Took
  <1>8. Hears(r, c, w, e, off)
    BY <1>1, <1>2, <1>7, TookHears
  <1>9. ASSUME ~w.thrown PROVE HearsTraits(w, e, n, u, d, off)
    <2>1. Meets(w, e, off) /\ SameStrings(w, e) /\ w.data = r.data
      BY <1>1, <1>7, <1>8, <1>9 DEF Hears, InStep, SameStrings
    <2>2. HearsString(w, e, n.name, s, y, off)
      <3>1. Tied(w.data, off, y.buf) /\ y.sound
        BY <1>1, <1>4, <1>5, <2>1
      <3>2. s = ReadString(w)
        OBVIOUS
      <3> HIDE DEF s
      <3> QED BY <1>1, <1>2, <1>y, <2>1, <3>1, <3>2, StringRoundTrip
    <2>3. /\ Hears(w, e, s, y, off) /\ Keeps(w, s)
          /\ ~s.thrown => s.str = n.name /\ SameStrings(s, y)
      BY <2>2 DEF HearsString
    <2>4. /\ w.num % 4 # 1 /\ flags = n.flags
          /\ (IF w.num % 8 = 7 THEN 0 ELSE w.num \div 16)
               = (IF "externalizable" \in n.flags THEN 0 ELSE Len(AttrNames(n)))
      BY <1>6, <1>9, FlagsAreRead
    <2>5. /\ s.thrown => u = s
          /\ ~s.thrown => /\ t.thrown => u = t
                          /\ ~t.thrown => u = [t EXCEPT !.traits = Append(@, t.trait)]
      <3>1. flags = IF w.num % 8 = 7 THEN {"externalizable"}
                    ELSE IF (w.num \div 8) % 2 = 1 THEN {"dynamic"} ELSE {}
        BY DEF FlagsRead
      <3>2. u = ReadTraits(w)
        BY <1>9
      <3>a. v = [s EXCEPT !.trait = TraitOf(s.str, flags, <<>>)] /\ s = ReadString(w)
        OBVIOUS
      <3>b. t = ReadAttributes(v, IF w.num % 8 = 7 THEN 0 ELSE w.num \div 16)
        OBVIOUS
      <3> HIDE DEF flags, s, v, t
      <3>3. /\ w.num % 4 # 1 /\ s.thrown => ReadTraits(w) = s
            /\ w.num % 4 # 1 /\ ~s.thrown /\ t.thrown => ReadTraits(w) = t
            /\ w.num % 4 # 1 /\ ~s.thrown /\ ~t.thrown =>
                 ReadTraits(w) = [t EXCEPT !.traits = Append(@, t.trait)]
        BY ONLY <3>1, <3>a, <3>b DEF ReadTraits, Then, TraitOf
      <3> QED BY <2>4, <3>2, <3>3
    <2>t. t = ReadAttributes(v, IF "externalizable" \in n.flags THEN 0 ELSE Len(AttrNames(n)))
      BY <2>4
    <2>v. v = [s EXCEPT !.trait = TraitOf(s.str, n.flags, <<>>)]
      BY <2>4
    <2> HIDE DEF s, flags, v, t
    <2>6. CASE s.thrown
      <3>1. u = s
        BY <2>5, <2>6
      <3>2. Misses(s, d, off) /\ Reading(s) /\ s.data = w.data
        <4>1. Hears(w, e, s, d, off)
          <5>1. s.thrown => s = s
            OBVIOUS
          <5> QED BY <1>0, <1>1, <1>4, <2>3, <2>6, HearsOn
        <4> QED BY <4>1, <2>6 DEF Hears
      <3>3. Hears(w, e, u, d, off)
        BY <2>6, <3>1, <3>2 DEF Hears
      <3> QED BY <2>3, <2>6, <3>1, <3>3 DEF HearsTraits, Keeps, Within
    <2>7. CASE ~s.thrown
      <3>1. Traitful(s, TraitOf(s.str, n.flags, <<>>), v)
        BY <2>3, <2>v, NameTrait DEF Hears
      <3>2. /\ Reading(v) /\ Within(s, v) /\ v.at = s.at /\ ~v.thrown /\ v.strings = s.strings
            /\ v.traits = s.traits /\ v.trait = TraitOf(n.name, n.flags, <<>>)
        BY <2>3, <2>7, <3>1 DEF Traitful
      <3>3. Meets(v, a, off) /\ SameStrings(v, a)
        BY <1>1, <2>3, <2>7, <3>2 DEF Hears, Meets, SameStrings
      <3>4. ~a.drifted => v.traits = SentAll(c.traits)
        BY <1>1, <1>7, <2>3, <3>2 DEF Keeps, InStep, SameTraits
      <3>5. Tied(v.data, off, d.buf)
        BY <2>1, <2>3, <3>2 DEF Within, Hears
      <3>6. HearsTraits(v, a, n, u, d, off)
        BY <1>0, <1>2, <1>3, <2>5, <2>7, <2>t, <3>2, <3>3, <3>4, <3>5, TraitsRest
      <3>7. Hears(w, e, u, d, off)
        BY <2>3, <3>2, <3>6 DEF HearsTraits, Hears, Within
      <3>8. Within(w, u)
        BY <2>3, <3>2, <3>6 DEF HearsTraits, Within, Keeps
      <3> QED BY <3>6, <3>7, <3>8 DEF HearsTraits
    <2> QED BY <2>6, <2>7
  <1>10. Hears(r, c, u, d, off)
    <2>1. w.thrown => u = w
      OBVIOUS
    <2>2. ~w.thrown => Hears(w, e, u, d, off)
      BY <1>9 DEF HearsTraits
    <2>3. off \in Nat /\ Writes(e) /\ Writes(d) /\ Begins(e.buf, d.buf)
      BY <1>0, <1>1, <1>4
    <2> QED BY ONLY <1>8, <2>1, <2>2, <2>3, HearsOn
  <1>11. CASE w.thrown
    <2>1. u = w
      BY <1>11
    <2> QED BY <1>7, <1>10, <1>11, <2>1 DEF TraitsHeard, HearsTraits, Within, Keeps
  <1>12. CASE ~w.thrown
    <2>1. Within(w, u) /\ (~u.thrown => InStep(u, d) /\ u.trait = Sent(Traits(n)))
      BY <1>9, <1>12 DEF HearsTraits
    <2>2. Within(r, u)
      BY <1>7, <2>1 DEF Keeps, Within
    <2> QED BY <1>7, <1>10, <1>12, <2>1, <2>2 DEF TraitsHeard, HearsTraits
  <1> QED BY <1>11, <1>12

\* The traits of an object, with the integer in front of them: whatever the tables
\* hold, the one who reads has the class, and the names of its attributes in order,
\* and the tables go on in step; or the bytes end too early.
THEOREM TraitsRoundTrip ==
    ASSUME NEW r, NEW c, NEW off, Meets(r, c, off), InStep(r, c), NEW n \in Nodes, n.type = "object",
           NEW d, d = SerializeTraits(n, c), ~d.thrown, d.sound, Tied(r.data, off, d.buf),
           NEW w, w = ReadInteger(r), NEW u, u = IF w.thrown THEN w ELSE ReadTraits(w)
    PROVE  TraitsHeard(r, c, n, w, u, d, off)
  <1> DEFINE x == WriteString(n.name, [c EXCEPT !.buf = <<>>])
  <1>1. Writes(c) /\ ~c.thrown
    BY DEF Meets
  <1>2. ~x.thrown
    BY TraitsThrown
  <1>3. CASE TraitsIndex(n, x) # 0
    <2> DEFINE i == TraitsIndex(n, x)
    <2>1. TraitsOld(n, c, i, d)
      BY <1>1, <1>2, <1>3, TraitsOldWritten
    <2> HIDE DEF i
    <2> QED BY <2>1, OldTraitsHeard
  <1>4. CASE TraitsIndex(n, x) = 0
    <2>1. PICK a : TraitsNew(n, c, a, d)
      BY <1>1, <1>2, <1>4, TraitsNewWritten
    <2> QED BY <2>1, NewTraitsHeard
  <1> QED BY <1>3, <1>4

-----------------------------------------------------------------------------
(* Items with all that is inside of them: TreeOf and ShownOf are defined   *)
(* by recursion, and no item contains itself.                              *)

\* The two of them as one
Made(kind, n, f) == IF kind = "tree" THEN Inside(n, f) ELSE Shown(n, f)

LEMMA KeySame ==
    ASSUME NEW n, NEW o, NEW f, NEW g, f[o] = g[o]
    PROVE  Key(n, o, f) = Key(n, o, g)
  BY DEF Key

\* What is made of an item depends on the items that it points to.
LEMMA InsideSame ==
    ASSUME NEW n \in Nodes, NEW f, NEW g, \A o \in PointsTo(n) : f[o] = g[o]
    PROVE  Inside(n, f) = Inside(n, g)
  <1>1. /\ \A i \in DOMAIN n.items : f[n.items[i]] = g[n.items[i]]
        /\ \A k \in DOMAIN n.members : f[n.members[k]] = g[n.members[k]]
        /\ \A k \in DOMAIN n.sealed : f[n.sealed[k]] = g[n.sealed[k]]
        /\ \A p \in n.pairs : f[p[1]] = g[p[1]] /\ f[p[2]] = g[p[2]]
    BY PointsToIs
  <1> DEFINE K == {m \in DOMAIN n.members : n.type = "object" => "dynamic" \in n.flags}
  <1>2. [k \in DOMAIN n.sealed |-> f[n.sealed[k]]] = [k \in DOMAIN n.sealed |-> g[n.sealed[k]]]
    BY <1>1
  <1>3. [k \in K |-> f[n.members[k]]] = [k \in K |-> g[n.members[k]]]
    BY <1>1
  <1>4. [i \in DOMAIN n.items |-> f[n.items[i]]] = [i \in DOMAIN n.items |-> g[n.items[i]]]
    BY <1>1
  <1>5. {<<f[p[1]], f[p[2]]>> : p \in n.pairs} = {<<g[p[1]], g[p[2]]>> : p \in n.pairs}
    BY <1>1
  <1> QED BY <1>2, <1>3, <1>4, <1>5 DEF Inside

LEMMA ShownSame ==
    ASSUME NEW n \in Nodes, NEW f, NEW g, \A o \in PointsTo(n) : f[o] = g[o]
    PROVE  Shown(n, f) = Shown(n, g)
  <1>1. Inside(n, f) = Inside(n, g)
    BY InsideSame
  <1>2. /\ \A k \in DOMAIN n.sealed : f[n.sealed[k]] = g[n.sealed[k]]
        /\ \A p \in n.pairs : f[p[1]] = g[p[1]] /\ f[p[2]] = g[p[2]]
    BY PointsToIs
  <1> DEFINE K == DOMAIN n.sealed \cap ToSet(n.attrs)
  <1>3. [k \in K |-> f[n.sealed[k]]] = [k \in K |-> g[n.sealed[k]]]
    BY <1>2
  <1>4. {<<Key(n, p[1], f), f[p[2]]>> : p \in n.pairs} = {<<Key(n, p[1], g), g[p[2]]>> : p \in n.pairs}
    BY <1>2, KeySame
  <1>5. CASE n.type = "integer" /\ ~InRange(n.value[1])
    BY <1>5 DEF Shown
  <1>6. CASE ~(n.type = "integer" /\ ~InRange(n.value[1]))
    <2> HIDE DEF K
    <2> QED BY <1>1, <1>3, <1>4, <1>6 DEF Shown, K
  <1> QED BY <1>5, <1>6

LEMMA MadeSame ==
    ASSUME NEW kind, NEW n \in Nodes, NEW f, NEW g, \A o \in PointsTo(n) : f[o] = g[o]
    PROVE  Made(kind, n, f) = Made(kind, n, g)
  BY InsideSame, ShownSame DEF Made

\* f is right for the items of less than the height m.
Solves(kind, f, m) == \A o \in Names : Height[o] < m => f[o] = Made(kind, At(o), f)

LEMMA HeightIs ==
    ASSUME HeapOK, NEW o \in Names
    PROVE  /\ Height[o] \in Nat /\ At(o) \in Nodes
           /\ \A p \in PointsTo(At(o)) : p \in Names /\ Height[p] \in Nat /\ Height[p] < Height[o]
  <1>1. At(o) \in Versions(o) /\ At(o) \in Nodes
    BY AtIs
  <1>2. Descends
    BY AMF3Assumption
  <1>3. PointsTo(At(o)) \subseteq Names
    BY <1>1, PointsToIs
  <1> QED BY <1>1, <1>2, <1>3 DEF Descends

LEMMA SolutionsAgree ==
    ASSUME HeapOK, NEW kind, NEW m \in Nat, NEW f, NEW g, Solves(kind, f, m), Solves(kind, g, m)
    PROVE  \A o \in Names : Height[o] < m => f[o] = g[o]
  <1> DEFINE T == {k \in Nat : k <= m => \A o \in Names : Height[o] < k => f[o] = g[o]}
  <1>1. 0 \in T
    BY HeightIs
  <1>2. ASSUME NEW k \in Nat, k \in T PROVE k + 1 \in T
    <2>1. SUFFICES ASSUME k + 1 <= m, NEW o \in Names, Height[o] < k + 1 PROVE f[o] = g[o]
      OBVIOUS
    <2>2. /\ Height[o] \in Nat /\ At(o) \in Nodes
          /\ \A p \in PointsTo(At(o)) : p \in Names /\ Height[p] \in Nat /\ Height[p] < Height[o]
      BY HeightIs
    <2>3. \A p \in PointsTo(At(o)) : f[p] = g[p]
      BY <1>2, <2>1, <2>2
    <2>4. Made(kind, At(o), f) = Made(kind, At(o), g)
      BY <2>2, <2>3, MadeSame
    <2>5. Height[o] < m
      BY <2>1, <2>2
    <2> QED BY <2>4, <2>5 DEF Solves
  <1> HIDE DEF T
  <1>3. Nat \subseteq T
    BY <1>1, <1>2, Induct
  <1> QED BY <1>3 DEF T

LEMMA SolutionExists ==
    ASSUME HeapOK, NEW kind, NEW m \in Nat
    PROVE  \E f : Solves(kind, f, m)
  <1> DEFINE T == {k \in Nat : \E f : Solves(kind, f, k)}
  <1>1. 0 \in T
    BY HeightIs DEF Solves
  <1>2. ASSUME NEW k \in Nat, k \in T PROVE k + 1 \in T
    <2>1. PICK f : Solves(kind, f, k)
      BY <1>2
    <2> DEFINE g == [o \in Names |-> Made(kind, At(o), f)]
    <2>2. ASSUME NEW o \in Names, Height[o] < k + 1 PROVE g[o] = Made(kind, At(o), g)
      <3>1. /\ Height[o] \in Nat /\ At(o) \in Nodes
            /\ \A p \in PointsTo(At(o)) : p \in Names /\ Height[p] \in Nat /\ Height[p] < Height[o]
        BY HeightIs
      <3>2. \A p \in PointsTo(At(o)) : f[p] = g[p]
        <4>1. TAKE p \in PointsTo(At(o))
        <4>2. p \in Names /\ Height[p] < k
          BY <2>2, <3>1
        <4> QED BY <2>1, <4>2 DEF Solves
      <3>3. g[o] = Made(kind, At(o), f)
        OBVIOUS
      <3> HIDE DEF g
      <3> QED BY <3>1, <3>2, <3>3, MadeSame
    <2> HIDE DEF g
    <2>3. Solves(kind, g, k + 1)
      BY <2>2 DEF Solves
    <2> QED BY <2>3
  <1> HIDE DEF T
  <1>3. Nat \subseteq T
    BY <1>1, <1>2, Induct
  <1> QED BY <1>3 DEF T

\* So there is one that is right for all.
LEMMA WholeSolution ==
    ASSUME HeapOK, NEW kind
    PROVE  \E g : g = [o \in Names |-> Made(kind, At(o), g)]
  <1> DEFINE F == [m \in Nat |-> CHOOSE f : Solves(kind, f, m)]
             g == [o \in Names |-> F[Height[o] + 1][o]]
  <1>1. ASSUME NEW m \in Nat PROVE Solves(kind, F[m], m)
    <2>1. F[m] = CHOOSE f : Solves(kind, f, m)
      OBVIOUS
    <2> HIDE DEF F
    <2> QED BY <2>1, SolutionExists
  <1> HIDE DEF F
  <1>2. ASSUME NEW o \in Names PROVE g[o] = Made(kind, At(o), g)
    <2> DEFINE h == Height[o] + 1
               f == F[h]
    <2>1. /\ Height[o] \in Nat /\ At(o) \in Nodes
          /\ \A p \in PointsTo(At(o)) : p \in Names /\ Height[p] \in Nat /\ Height[p] < Height[o]
      BY HeightIs
    <2>2. h \in Nat /\ Height[o] < h /\ g[o] = f[o]
      BY <2>1
    <2>3. f[o] = Made(kind, At(o), f)
      BY <1>1, <2>2 DEF Solves
    <2>4. ASSUME NEW p \in PointsTo(At(o)) PROVE f[p] = g[p]
      <3> DEFINE k == Height[p] + 1
                 e == F[k]
      <3>1. p \in Names /\ k \in Nat /\ Height[p] < k /\ k <= h /\ Height[p] \in Nat
        BY <2>1
      <3>2. g[p] = e[p]
        BY <3>1
      <3>3. Solves(kind, e, k) /\ Solves(kind, f, h)
        BY <1>1, <2>2, <3>1
      <3>4. \A q \in Names : Height[q] \in Nat
        BY HeightIs
      <3> HIDE DEF k, e, h, f
      <3>5. Solves(kind, f, k)
        BY <2>2, <3>1, <3>3, <3>4 DEF Solves
      <3>6. e[p] = f[p]
        BY <3>1, <3>3, <3>5, SolutionsAgree
      <3> QED BY <3>2, <3>6
    <2> HIDE DEF f, g
    <2>5. Made(kind, At(o), f) = Made(kind, At(o), g)
      BY <2>1, <2>4, MadeSame
    <2> QED BY <2>2, <2>3, <2>5
  <1>3. g = [o \in Names |-> g[o]]
    OBVIOUS
  <1> HIDE DEF g
  <1>4. g = [o \in Names |-> Made(kind, At(o), g)]
    BY <1>2, <1>3
  <1> QED BY <1>4

LEMMA TreeIs ==
    ASSUME HeapOK
    PROVE  TreeOf = [o \in Names |-> Inside(At(o), TreeOf)]
  <1>1. PICK g : g = [o \in Names |-> Made("tree", At(o), g)]
    BY WholeSolution
  <1>2. g = [o \in DOMAIN Heap0 |-> Inside(At(o), g)]
    BY <1>1 DEF Made, Names
  <1>3. TreeOf = CHOOSE f : f = [o \in DOMAIN Heap0 |-> Inside(At(o), f)]
    BY DEF TreeOf
  <1>4. TreeOf = [o \in DOMAIN Heap0 |-> Inside(At(o), TreeOf)]
    BY <1>2, <1>3
  <1> QED BY <1>4 DEF Names

LEMMA ShownIs ==
    ASSUME HeapOK
    PROVE  ShownOf = [o \in Names |-> Shown(At(o), ShownOf)]
  <1>1. PICK g : g = [o \in Names |-> Made("shown", At(o), g)]
    BY WholeSolution
  <1>2. g = [o \in DOMAIN Heap0 |-> Shown(At(o), g)]
    BY <1>1 DEF Made, Names
  <1>3. ShownOf = CHOOSE f : f = [o \in DOMAIN Heap0 |-> Shown(At(o), f)]
    BY DEF ShownOf
  <1>4. ShownOf = [o \in DOMAIN Heap0 |-> Shown(At(o), ShownOf)]
    BY <1>2, <1>3
  <1> QED BY <1>4 DEF Names

\* The members that count
Counts(n) == {m \in DOMAIN n.members : n.type = "object" => "dynamic" \in n.flags}

LEMMA NodeHas ==
    ASSUME NEW n \in Nodes
    PROVE  /\ DOMAIN n = DOMAIN Item
           /\ DOMAIN Item = {"type", "value", "name", "flags", "attrs", "sealed", "members",
                             "items", "pairs"}
  BY NodeIs DEF ItemOf, Item

\* The fields of an item with what is inside
InsideFields(n, f, t) ==
    /\ DOMAIN t = DOMAIN Item
    /\ t.type = n.type /\ t.value = n.value /\ t.name = n.name /\ t.flags = n.flags
    /\ t.attrs = n.attrs
    /\ t.sealed = [k \in DOMAIN n.sealed |-> f[n.sealed[k]]]
    /\ t.members = [k \in Counts(n) |-> f[n.members[k]]]
    /\ t.items = [i \in DOMAIN n.items |-> f[n.items[i]]]
    /\ t.pairs = {<<f[p[1]], f[p[2]]>> : p \in n.pairs}

LEMMA InsideHas ==
    ASSUME NEW n \in Nodes, NEW f, NEW t, t = Inside(n, f)
    PROVE  InsideFields(n, f, t)
  <1> DEFINE s == [k \in DOMAIN n.sealed |-> f[n.sealed[k]]]
             m == [k \in Counts(n) |-> f[n.members[k]]]
             i == [i \in DOMAIN n.items |-> f[n.items[i]]]
             p == {<<f[p[1]], f[p[2]]>> : p \in n.pairs}
  <1>1. t = [n EXCEPT !.sealed = s, !.members = m, !.items = i, !.pairs = p]
    BY DEF Inside, Counts
  <1> HIDE DEF s, m, i, p
  <1>2. /\ DOMAIN t = DOMAIN Item
        /\ t.type = n.type /\ t.value = n.value /\ t.name = n.name /\ t.flags = n.flags
        /\ t.attrs = n.attrs /\ t.sealed = s /\ t.members = m /\ t.items = i /\ t.pairs = p
    BY <1>1, NodeHas
  <1> QED BY <1>2 DEF InsideFields, s, m, i, p

\* The same of what is shown of it
Attributed(n) == DOMAIN n.sealed \cap ToSet(n.attrs)
KeyPairs(n, f) == {<<Key(n, p[1], f), f[p[2]]>> : p \in n.pairs}

Plainly(n) == ~(n.type = "integer" /\ ~InRange(n.value[1]))

\* An item of these fields
Built(type, value, name, flags, attrs, sealed, members, items, pairs) ==
    [type |-> type, value |-> value, name |-> name, flags |-> flags, attrs |-> attrs,
     sealed |-> sealed, members |-> members, items |-> items, pairs |-> pairs]

ShownBuild(n, f) ==
    Built(n.type, n.value, n.name, n.flags \ {"asString"}, AttrNames(n),
          [k \in Attributed(n) |-> f[n.sealed[k]]], [k \in Counts(n) |-> f[n.members[k]]],
          [i \in DOMAIN n.items |-> f[n.items[i]]], KeyPairs(n, f))

LEMMA ShownIsBuilt ==
    ASSUME NEW n \in Nodes, Plainly(n), NEW f
    PROVE  Shown(n, f) = ShownBuild(n, f)
  <1> DEFINE y == Inside(n, f)
             t == Shown(n, f)
             fl == n.flags \ {"asString"}
             a == AttrNames(n)
             s == [k \in Attributed(n) |-> f[n.sealed[k]]]
             m == [k \in Counts(n) |-> f[n.members[k]]]
             j == [i \in DOMAIN n.items |-> f[n.items[i]]]
             p == KeyPairs(n, f)
  <1>1. t = [y EXCEPT !.flags = fl, !.attrs = a, !.sealed = s, !.pairs = p]
    BY DEF Shown, Plainly, AttrNames, Attributed, KeyPairs
  <1>2. /\ DOMAIN y = DOMAIN Item /\ y.type = n.type /\ y.value = n.value /\ y.name = n.name
        /\ y.members = m /\ y.items = j
    <2>1. InsideFields(n, f, y)
      BY InsideHas
    <2> HIDE DEF y
    <2> QED BY <2>1 DEF InsideFields
  <1> HIDE DEF y, fl, a, s, p, m, j
  <1> DEFINE b == Built(n.type, n.value, n.name, fl, a, s, m, j, p)
             K == {"type", "value", "name", "flags", "attrs", "sealed", "members", "items", "pairs"}
  <1>4. DOMAIN t = K /\ t = [x \in DOMAIN t |-> t[x]]
    BY <1>1, <1>2, NodeHas
  <1>5. /\ t.type = n.type /\ t.value = n.value /\ t.name = n.name
        /\ t.flags = fl /\ t.attrs = a /\ t.sealed = s /\ t.members = m
        /\ t.items = j /\ t.pairs = p
    BY <1>1, <1>2, NodeHas
  <1>6. DOMAIN b = K /\ b = [x \in DOMAIN b |-> b[x]]
    BY DEF Built
  <1>7. /\ b.type = n.type /\ b.value = n.value /\ b.name = n.name
        /\ b.flags = fl /\ b.attrs = a /\ b.sealed = s /\ b.members = m
        /\ b.items = j /\ b.pairs = p
    BY DEF Built
  <1> HIDE DEF t, b
  <1>3. t = b
    <2>1. \A x \in K : t[x] = b[x]
      BY <1>5, <1>7
    <2> HIDE DEF K
    <2> QED BY <1>4, <1>6, <2>1
  <1> QED BY <1>3 DEF t, b, ShownBuild, fl, a, s, m, j, p

\* An item with nothing inside
Leaf(type, value, flags) == Built(type, value, <<>>, flags, <<>>, <<>>, <<>>, <<>>, {})

LeafTypes == Scalars \cup {"string"} \cup Texts \cup Vectors

LeafOf(n) ==
    IF n.type = "integer" /\ ~InRange(n.value[1]) THEN Leaf("double", DoubleOf[n.value[1]], {})
    ELSE Leaf(n.type, n.value, n.flags)

LEMMA BuiltFields ==
    ASSUME NEW type, NEW value, NEW name, NEW flags, NEW attrs, NEW sealed, NEW members, NEW items,
           NEW pairs, NEW b, b = Built(type, value, name, flags, attrs, sealed, members, items, pairs)
    PROVE  /\ DOMAIN b = DOMAIN Item /\ b = [x \in DOMAIN b |-> b[x]]
           /\ b.type = type /\ b.value = value /\ b.name = name /\ b.flags = flags
           /\ b.attrs = attrs /\ b.sealed = sealed /\ b.members = members
           /\ b.items = items /\ b.pairs = pairs
  BY DEF Built, Item

\* What has these fields is this item.
LEMMA BuiltIs ==
    ASSUME NEW t, DOMAIN t = DOMAIN Item, t = [x \in DOMAIN t |-> t[x]]
    PROVE  t = Built(t.type, t.value, t.name, t.flags, t.attrs, t.sealed, t.members, t.items, t.pairs)
  <1> DEFINE b == Built(t.type, t.value, t.name, t.flags, t.attrs, t.sealed, t.members, t.items, t.pairs)
             K == {"type", "value", "name", "flags", "attrs", "sealed", "members", "items", "pairs"}
  <1>1. DOMAIN t = K
    BY DEF Item
  <1>2. DOMAIN b = DOMAIN Item /\ b = [x \in DOMAIN b |-> b[x]]
    BY BuiltFields
  <1>3. /\ b.type = t.type /\ b.value = t.value /\ b.name = t.name /\ b.flags = t.flags
        /\ b.attrs = t.attrs /\ b.sealed = t.sealed /\ b.members = t.members
        /\ b.items = t.items /\ b.pairs = t.pairs
    BY BuiltFields
  <1>4. \A x \in K : b[x] = t[x]
    <2> HIDE DEF b
    <2> QED BY <1>3
  <1> HIDE DEF b, K
  <1> QED BY <1>1, <1>2, <1>4 DEF b

LEMMA BareIs ==
    ASSUME NEW type, NEW value, NEW flags
    PROVE  /\ [Item EXCEPT !.type = type, !.value = value, !.flags = flags] = Leaf(type, value, flags)
           /\ [Item EXCEPT !.type = type, !.value = value] = Leaf(type, value, {})
  <1> DEFINE t == [Item EXCEPT !.type = type, !.value = value, !.flags = flags]
             u == [Item EXCEPT !.type = type, !.value = value]
  <1>1. /\ DOMAIN t = DOMAIN Item /\ t = [x \in DOMAIN t |-> t[x]]
        /\ t.type = type /\ t.value = value /\ t.name = <<>> /\ t.flags = flags /\ t.attrs = <<>>
        /\ t.sealed = <<>> /\ t.members = <<>> /\ t.items = <<>> /\ t.pairs = {}
    BY DEF Item
  <1>2. /\ DOMAIN u = DOMAIN Item /\ u = [x \in DOMAIN u |-> u[x]]
        /\ u.type = type /\ u.value = value /\ u.name = <<>> /\ u.flags = {} /\ u.attrs = <<>>
        /\ u.sealed = <<>> /\ u.members = <<>> /\ u.items = <<>> /\ u.pairs = {}
    BY DEF Item
  <1> HIDE DEF t, u
  <1>3. t = Leaf(type, value, flags)
    <2>1. t = Built(t.type, t.value, t.name, t.flags, t.attrs, t.sealed, t.members, t.items, t.pairs)
      BY <1>1, BuiltIs
    <2> QED BY <1>1, <2>1 DEF Leaf
  <1>4. u = Leaf(type, value, {})
    <2>1. u = Built(u.type, u.value, u.name, u.flags, u.attrs, u.sealed, u.members, u.items, u.pairs)
      BY <1>2, BuiltIs
    <2> QED BY <1>2, <2>1 DEF Leaf
  <1> QED BY <1>3, <1>4 DEF t, u

\* A map with no names
LEMMA NoMap ==
    ASSUME NEW f, DOMAIN f = {}, f = [x \in DOMAIN f |-> f[x]]
    PROVE  f = <<>>
  <1>1. DOMAIN f = 1 .. 0
    OBVIOUS
  <1>2. f = [x \in 1 .. 0 |-> f[x]]
    BY <1>1
  <1>3. IsSeq(f) /\ Len(f) = 0
    BY <1>1, <1>2, SeqGiven
  <1> QED BY <1>3, SeqNone

\* What a class has not
LEMMA UnusedIs ==
    ASSUME NEW n \in Nodes
    PROVE  /\ n.type # "object" => /\ n.attrs = <<>> /\ n.sealed = <<>>
                                   /\ n.type # "array" => n.members = <<>>
           /\ n.type # "dictionary" => n.pairs = {}
           /\ n.type \notin {"array", "vectorObject", "header", "message", "packet"} => n.items = <<>>
           /\ n.type \notin {"object", "vectorObject", "header", "message"} => n.name = <<>>
           /\ n.type \notin Vectors \cup {"vectorObject", "dictionary", "object", "header"} => n.flags = {}
           /\ n.type \in {"undefined", "null", "false", "true", "vectorObject", "array", "dictionary", "header", "packet"}
                => n.value = <<>>
  <1>1. /\ \A x \in DOMAIN Item \ (Uses[n.type] \cup {"type"}) : n[x] = Item[x]
        /\ n.type \in DOMAIN Uses
    BY NodeIs DEF ItemOf
  <1>2. DOMAIN Item = {"type", "value", "name", "flags", "attrs", "sealed", "members", "items", "pairs"}
    BY DEF Item
  <1>3. /\ Item.value = <<>> /\ Item.name = <<>> /\ Item.flags = {} /\ Item.attrs = <<>>
        /\ Item.sealed = <<>> /\ Item.members = <<>> /\ Item.items = <<>> /\ Item.pairs = {}
    BY DEF Item
  <1>4. /\ n.type # "object" => "attrs" \notin Uses[n.type] /\ "sealed" \notin Uses[n.type]
        /\ n.type \notin {"object", "array"} => "members" \notin Uses[n.type]
        /\ n.type # "dictionary" => "pairs" \notin Uses[n.type]
    BY <1>1 DEF Uses
  <1>5. /\ n.type \notin {"array", "vectorObject", "header", "message", "packet"} => "items" \notin Uses[n.type]
        /\ n.type \notin {"object", "vectorObject", "header", "message"} => "name" \notin Uses[n.type]
    BY <1>1 DEF Uses
  <1>6. n.type \notin Vectors \cup {"vectorObject", "dictionary", "object", "header"} => "flags" \notin Uses[n.type]
    BY <1>1 DEF Uses, Vectors
  <1>7. n.type \in {"undefined", "null", "false", "true", "vectorObject", "array", "dictionary", "header", "packet"}
           => "value" \notin Uses[n.type]
    BY <1>1 DEF Uses
  <1>8. \A x \in {"value", "name", "flags", "attrs", "sealed", "members", "items", "pairs"} :
            x \notin Uses[n.type] => n[x] = Item[x]
    BY <1>1, <1>2
  <1> QED BY <1>3, <1>4, <1>5, <1>6, <1>7, <1>8

LEMMA NoAttrs ==
    ASSUME NEW n \in Nodes, n.attrs = <<>>
    PROVE  AttrNames(n) = <<>> /\ Attributed(n) = {}
  <1>1. ToSet(n.attrs) = {}
    BY DEF ToSet
  <1>2. IsSeq(AttrNames(n)) /\ ToSet(AttrNames(n)) = {}
    BY <1>1, AttrNamesAre
  <1>3. Len(AttrNames(n)) = 0
    <2> DEFINE a == AttrNames(n)
    <2>1. Len(a) \in Nat /\ DOMAIN a = 1 .. Len(a)
      BY <1>2, SeqHas
    <2>2. \A i \in DOMAIN a : a[i] \in ToSet(a)
      BY DEF ToSet
    <2> HIDE DEF a
    <2>3. ASSUME Len(a) >= 1 PROVE FALSE
      <3>1. 1 \in DOMAIN a
        BY <2>1, <2>3
      <3> QED BY <3>1, <2>2, <1>2 DEF a
    <2> QED BY <2>1, <2>3 DEF a
  <1> QED BY <1>1, <1>2, <1>3, SeqNone DEF Attributed

\* Where there is nothing, nothing is made of it.
LEMMA EmptyIs ==
    ASSUME NEW n \in Nodes, NEW f
    PROVE  /\ n.attrs = <<>> => [k \in Attributed(n) |-> f[n.sealed[k]]] = <<>>
           /\ n.members = <<>> \/ (n.type = "object" /\ "dynamic" \notin n.flags)
                => [k \in Counts(n) |-> f[n.members[k]]] = <<>>
           /\ n.items = <<>> => [i \in DOMAIN n.items |-> f[n.items[i]]] = <<>>
           /\ n.pairs = {} => KeyPairs(n, f) = {}
  <1>1. ASSUME n.attrs = <<>> PROVE [k \in Attributed(n) |-> f[n.sealed[k]]] = <<>>
    <2>1. Attributed(n) = {}
      BY <1>1, NoAttrs
    <2> DEFINE g == [k \in Attributed(n) |-> f[n.sealed[k]]]
    <2>2. DOMAIN g = {} /\ g = [x \in DOMAIN g |-> g[x]]
      BY <2>1
    <2> HIDE DEF g
    <2>3. g = <<>>
      BY <2>2, NoMap
    <2> QED BY <2>3 DEF g
  <1>2. ASSUME n.members = <<>> \/ (n.type = "object" /\ "dynamic" \notin n.flags)
        PROVE  [k \in Counts(n) |-> f[n.members[k]]] = <<>>
    <2>1. Counts(n) = {}
      BY <1>2 DEF Counts
    <2> DEFINE g == [k \in Counts(n) |-> f[n.members[k]]]
    <2>2. DOMAIN g = {} /\ g = [x \in DOMAIN g |-> g[x]]
      BY <2>1
    <2> HIDE DEF g
    <2>3. g = <<>>
      BY <2>2, NoMap
    <2> QED BY <2>3 DEF g
  <1>3. ASSUME n.items = <<>> PROVE [i \in DOMAIN n.items |-> f[n.items[i]]] = <<>>
    <2> DEFINE g == [i \in DOMAIN n.items |-> f[n.items[i]]]
    <2>2. DOMAIN g = {} /\ g = [x \in DOMAIN g |-> g[x]]
      BY <1>3
    <2> HIDE DEF g
    <2>3. g = <<>>
      BY <2>2, NoMap
    <2> QED BY <2>3 DEF g
  <1>4. n.pairs = {} => KeyPairs(n, f) = {}
    BY DEF KeyPairs
  <1> QED BY <1>1, <1>2, <1>3, <1>4

\* What is shown of an item with nothing inside
LEMMA LeafShown ==
    ASSUME NEW n \in Nodes, n.type \in LeafTypes, NEW f
    PROVE  Shown(n, f) = LeafOf(n)
  <1>t. /\ n.type \notin {"object", "array", "dictionary", "vectorObject", "header", "message", "packet"}
        /\ n.type \notin Vectors => n.flags = {}
        /\ n.attrs = <<>> /\ n.sealed = <<>> /\ n.members = <<>> /\ n.items = <<>> /\ n.pairs = {}
        /\ n.name = <<>>
    <2>1. n.type \notin {"object", "array", "dictionary", "vectorObject", "header", "message", "packet"}
      BY DEF LeafTypes, Scalars, Texts, Vectors
    <2> QED BY <2>1, UnusedIs
  <1>1. CASE n.type = "integer" /\ ~InRange(n.value[1])
    BY <1>1, BareIs DEF Shown, LeafOf
  <1>2. CASE Plainly(n)
    <2>1. Shown(n, f) = ShownBuild(n, f)
      BY <1>2, ShownIsBuilt
    <2>2. AttrNames(n) = <<>>
      BY <1>t, NoAttrs
    <2>3. n.flags \ {"asString"} = n.flags
      <3>1. n.type \in Vectors => n.flags \in {{}, {"fixed"}}
        BY NodeIs DEF ItemOf, FlagsOf, Vectors
      <3> QED BY <3>1, <1>t
    <2>4. ShownBuild(n, f) = Leaf(n.type, n.value, n.flags)
      BY <1>t, <2>2, <2>3, EmptyIs DEF ShownBuild, Leaf
    <2>5. LeafOf(n) = Leaf(n.type, n.value, n.flags)
      BY <1>2 DEF LeafOf, Plainly
    <2> QED BY <2>1, <2>4, <2>5
  <1> QED BY <1>1, <1>2 DEF Plainly

\* What an item is of, the tree of it says.
LEMMA TreeTells ==
    ASSUME HeapOK, NEW o \in Names
    PROVE  TreeOf[o].type = At(o).type /\ TreeOf[o].value = At(o).value
  <1>1. TreeOf[o] = Inside(At(o), TreeOf) /\ At(o) \in Nodes
    BY TreeIs, AtIs
  <1>2. InsideFields(At(o), TreeOf, TreeOf[o])
    BY <1>1, InsideHas
  <1> QED BY <1>2 DEF InsideFields

\* Keys of the same items are the same.
LEMMA KeysAlike ==
    ASSUME HeapOK, NEW m \in Nodes, NEW n \in Nodes, m.flags = n.flags, NEW o \in Names, NEW p \in Names,
           TreeOf[o] = TreeOf[p], ShownOf[o] = ShownOf[p]
    PROVE  Key(m, o, ShownOf) = Key(n, p, ShownOf)
  <1>1. At(o).type = At(p).type /\ At(o).value = At(p).value
    BY TreeTells
  <1>2. IsWord(m, o) <=> IsWord(n, p)
    BY <1>1 DEF IsWord
  <1>3. KeyText(At(o)) = KeyText(At(p))
    BY <1>1 DEF KeyText
  <1> QED BY <1>2, <1>3 DEF Key

\* The items inside of m and of n are the same, one by one.
Alikes(m, n) ==
    /\ m.type = n.type /\ m.value = n.value /\ m.name = n.name /\ m.flags = n.flags
    /\ m.attrs = n.attrs
    /\ DOMAIN m.sealed = DOMAIN n.sealed
    /\ \A k \in DOMAIN m.sealed : TreeOf[m.sealed[k]] = TreeOf[n.sealed[k]]
    /\ Counts(m) = Counts(n)
    /\ \A k \in Counts(m) : TreeOf[m.members[k]] = TreeOf[n.members[k]]
    /\ DOMAIN m.items = DOMAIN n.items
    /\ \A i \in DOMAIN m.items : TreeOf[m.items[i]] = TreeOf[n.items[i]]
    /\ \A p \in m.pairs : \E q \in n.pairs : TreeOf[p[1]] = TreeOf[q[1]] /\ TreeOf[p[2]] = TreeOf[q[2]]
    /\ \A q \in n.pairs : \E p \in m.pairs : TreeOf[p[1]] = TreeOf[q[1]] /\ TreeOf[p[2]] = TreeOf[q[2]]

\* f of what is at each place
LEMMA MapsAlike ==
    ASSUME NEW A, NEW B, NEW f, NEW a, NEW b, [x \in A |-> f[a[x]]] = [x \in B |-> f[b[x]]]
    PROVE  A = B /\ \A x \in A : f[a[x]] = f[b[x]]
  <1> DEFINE F == [x \in A |-> f[a[x]]]
             G == [x \in B |-> f[b[x]]]
  <1>1. DOMAIN F = A /\ DOMAIN G = B
    OBVIOUS
  <1>2. A = B
    BY <1>1
  <1>3. ASSUME NEW x \in A PROVE f[a[x]] = f[b[x]]
    <2>1. F[x] = f[a[x]] /\ G[x] = f[b[x]]
      BY <1>2
    <2> QED BY <2>1
  <1> QED BY <1>2, <1>3

Images(P, f) == {<<f[p[1]], f[p[2]]>> : p \in P}

Covers(P, Q, f) == \A p \in P : \E q \in Q : f[p[1]] = f[q[1]] /\ f[p[2]] = f[q[2]]

LEMMA PairsAlike ==
    ASSUME NEW P, NEW Q, NEW f, Images(P, f) = Images(Q, f)
    PROVE  Covers(P, Q, f)
  <1> SUFFICES ASSUME NEW p \in P PROVE \E q \in Q : f[p[1]] = f[q[1]] /\ f[p[2]] = f[q[2]]
    BY DEF Covers
  <1>1. <<f[p[1]], f[p[2]]>> \in {<<f[q[1]], f[q[2]]>> : q \in Q}
    BY DEF Images
  <1>2. PICK q \in Q : <<f[p[1]], f[p[2]]>> = <<f[q[1]], f[q[2]]>>
    BY <1>1
  <1> QED BY <1>2

LEMMA AlikesAre ==
    ASSUME NEW m \in Nodes, NEW n \in Nodes, Tree(m) = Tree(n)
    PROVE  Alikes(m, n)
  <1> DEFINE t == Inside(m, TreeOf)
  <1>1. InsideFields(m, TreeOf, t) /\ InsideFields(n, TreeOf, t)
    BY InsideHas DEF Tree
  <1> HIDE DEF t
  <1>2. /\ m.type = n.type /\ m.value = n.value /\ m.name = n.name /\ m.flags = n.flags
        /\ m.attrs = n.attrs
    BY <1>1 DEF InsideFields
  <1>3. [k \in DOMAIN m.sealed |-> TreeOf[m.sealed[k]]] = [k \in DOMAIN n.sealed |-> TreeOf[n.sealed[k]]]
    BY <1>1 DEF InsideFields
  <1>4. [k \in Counts(m) |-> TreeOf[m.members[k]]] = [k \in Counts(n) |-> TreeOf[n.members[k]]]
    BY <1>1 DEF InsideFields
  <1>5. [k \in DOMAIN m.items |-> TreeOf[m.items[k]]] = [k \in DOMAIN n.items |-> TreeOf[n.items[k]]]
    BY <1>1 DEF InsideFields
  <1>6. Images(m.pairs, TreeOf) = Images(n.pairs, TreeOf)
    BY <1>1 DEF InsideFields, Images
  <1>7. /\ DOMAIN m.sealed = DOMAIN n.sealed
        /\ \A k \in DOMAIN m.sealed : TreeOf[m.sealed[k]] = TreeOf[n.sealed[k]]
    <2> DEFINE A == DOMAIN m.sealed
               B == DOMAIN n.sealed
    <2> HIDE DEF A, B
    <2>1. [k \in A |-> TreeOf[m.sealed[k]]] = [k \in B |-> TreeOf[n.sealed[k]]]
      BY <1>3 DEF A, B
    <2> QED BY <2>1, MapsAlike DEF A, B
  <1>8. /\ Counts(m) = Counts(n)
        /\ \A k \in Counts(m) : TreeOf[m.members[k]] = TreeOf[n.members[k]]
    <2> DEFINE A == Counts(m)
               B == Counts(n)
    <2> HIDE DEF A, B
    <2>1. [k \in A |-> TreeOf[m.members[k]]] = [k \in B |-> TreeOf[n.members[k]]]
      BY <1>4 DEF A, B
    <2> QED BY <2>1, MapsAlike DEF A, B
  <1>9. /\ DOMAIN m.items = DOMAIN n.items
        /\ \A i \in DOMAIN m.items : TreeOf[m.items[i]] = TreeOf[n.items[i]]
    <2> DEFINE A == DOMAIN m.items
               B == DOMAIN n.items
    <2> HIDE DEF A, B
    <2>1. [k \in A |-> TreeOf[m.items[k]]] = [k \in B |-> TreeOf[n.items[k]]]
      BY <1>5 DEF A, B
    <2> QED BY <2>1, MapsAlike DEF A, B
  <1>10. Covers(m.pairs, n.pairs, TreeOf) /\ Covers(n.pairs, m.pairs, TreeOf)
    BY <1>6, PairsAlike
  <1> QED BY <1>2, <1>7, <1>8, <1>9, <1>10 DEF Alikes, Covers

\* What is the same by its tree is read as the same.
LEMMA AlikesShown ==
    ASSUME HeapOK, NEW m \in Nodes, NEW n \in Nodes, Alikes(m, n),
           \A o \in PointsTo(m) : \A p \in Names : TreeOf[o] = TreeOf[p] => ShownOf[o] = ShownOf[p]
    PROVE  Received(m) = Received(n)
  <1>p. /\ \A i \in DOMAIN m.items : m.items[i] \in PointsTo(m)
        /\ \A k \in DOMAIN m.members : m.members[k] \in PointsTo(m)
        /\ \A k \in DOMAIN m.sealed : m.sealed[k] \in PointsTo(m)
        /\ \A p \in m.pairs : p[1] \in PointsTo(m) /\ p[2] \in PointsTo(m)
        /\ PointsTo(m) \subseteq Names
    BY PointsToIs
  <1>q. /\ \A i \in DOMAIN n.items : n.items[i] \in Names
        /\ \A k \in DOMAIN n.members : n.members[k] \in Names
        /\ \A k \in DOMAIN n.sealed : n.sealed[k] \in Names
        /\ \A p \in n.pairs : p[1] \in Names /\ p[2] \in Names
    BY PointsToIs
  <1>0. /\ m.type = n.type /\ m.value = n.value /\ m.name = n.name /\ m.flags = n.flags
        /\ m.attrs = n.attrs
    BY DEF Alikes
  <1>1. CASE m.type \in LeafTypes
    <2>1. Received(m) = LeafOf(m) /\ Received(n) = LeafOf(n)
      BY <1>0, <1>1, LeafShown DEF Received
    <2> QED BY <1>0, <2>1 DEF LeafOf
  <1>2. CASE m.type \notin LeafTypes
    <2>1. Plainly(m) /\ Plainly(n)
      BY <1>0, <1>2 DEF Plainly, LeafTypes, Scalars
    <2>2. Received(m) = ShownBuild(m, ShownOf) /\ Received(n) = ShownBuild(n, ShownOf)
      BY <2>1, ShownIsBuilt DEF Received
    <2>3. [k \in Attributed(m) |-> ShownOf[m.sealed[k]]] = [k \in Attributed(n) |-> ShownOf[n.sealed[k]]]
      <3>1. Attributed(m) = Attributed(n)
        BY <1>0 DEF Attributed, Alikes
      <3>2. \A k \in Attributed(m) : ShownOf[m.sealed[k]] = ShownOf[n.sealed[k]]
        BY <1>p, <1>q DEF Attributed, Alikes
      <3> QED BY <3>1, <3>2
    <2>4. [k \in Counts(m) |-> ShownOf[m.members[k]]] = [k \in Counts(n) |-> ShownOf[n.members[k]]]
      <3>1. Counts(m) = Counts(n) /\ Counts(m) \subseteq DOMAIN m.members /\ Counts(n) \subseteq DOMAIN n.members
        BY DEF Alikes, Counts
      <3>2. \A k \in Counts(m) : ShownOf[m.members[k]] = ShownOf[n.members[k]]
        BY <1>p, <1>q, <3>1 DEF Alikes
      <3> QED BY <3>1, <3>2
    <2>5. [i \in DOMAIN m.items |-> ShownOf[m.items[i]]] = [i \in DOMAIN n.items |-> ShownOf[n.items[i]]]
      <3>1. DOMAIN m.items = DOMAIN n.items
        BY DEF Alikes
      <3>2. \A i \in DOMAIN m.items : ShownOf[m.items[i]] = ShownOf[n.items[i]]
        BY <1>p, <1>q, <3>1 DEF Alikes
      <3> QED BY <3>1, <3>2
    <2>6. KeyPairs(m, ShownOf) = KeyPairs(n, ShownOf)
      <3>1. ASSUME NEW p \in m.pairs, NEW q \in n.pairs, TreeOf[p[1]] = TreeOf[q[1]], TreeOf[p[2]] = TreeOf[q[2]]
            PROVE  Key(m, p[1], ShownOf) = Key(n, q[1], ShownOf) /\ ShownOf[p[2]] = ShownOf[q[2]]
        <4>1. p[1] \in PointsTo(m) /\ p[2] \in PointsTo(m) /\ p[1] \in Names /\ q[1] \in Names /\ q[2] \in Names
          BY <1>p, <1>q
        <4>2. ShownOf[p[1]] = ShownOf[q[1]] /\ ShownOf[p[2]] = ShownOf[q[2]]
          BY <4>1, <3>1
        <4> QED BY <1>0, <3>1, <4>1, <4>2, KeysAlike
      <3>2. KeyPairs(m, ShownOf) \subseteq KeyPairs(n, ShownOf)
        <4> SUFFICES ASSUME NEW p \in m.pairs
                     PROVE  <<Key(m, p[1], ShownOf), ShownOf[p[2]]>> \in KeyPairs(n, ShownOf)
          BY DEF KeyPairs
        <4>1. PICK q \in n.pairs : TreeOf[p[1]] = TreeOf[q[1]] /\ TreeOf[p[2]] = TreeOf[q[2]]
          BY DEF Alikes
        <4> QED BY <3>1, <4>1 DEF KeyPairs
      <3>3. KeyPairs(n, ShownOf) \subseteq KeyPairs(m, ShownOf)
        <4> SUFFICES ASSUME NEW q \in n.pairs
                     PROVE  <<Key(n, q[1], ShownOf), ShownOf[q[2]]>> \in KeyPairs(m, ShownOf)
          BY DEF KeyPairs
        <4>1. PICK p \in m.pairs : TreeOf[p[1]] = TreeOf[q[1]] /\ TreeOf[p[2]] = TreeOf[q[2]]
          BY DEF Alikes
        <4> QED BY <3>1, <4>1 DEF KeyPairs
      <3> QED BY <3>2, <3>3
    <2>7. AttrNames(m) = AttrNames(n)
      BY <1>0 DEF AttrNames
    <2> QED BY <1>0, <2>2, <2>3, <2>4, <2>5, <2>6, <2>7 DEF ShownBuild
  <1> QED BY <1>1, <1>2

LEMMA TwinsShown ==
    ASSUME HeapOK
    PROVE  \A o \in Names : \A p \in Names : TreeOf[o] = TreeOf[p] => ShownOf[o] = ShownOf[p]
  <1> DEFINE P(o) == \A p \in Names : TreeOf[o] = TreeOf[p] => ShownOf[o] = ShownOf[p]
             T == {k \in Nat : \A o \in Names : Height[o] < k => P(o)}
  <1>1. 0 \in T
    BY HeightIs
  <1>2. ASSUME NEW k \in Nat, k \in T PROVE k + 1 \in T
    <2>1. SUFFICES ASSUME NEW o \in Names, Height[o] < k + 1, NEW p \in Names, TreeOf[o] = TreeOf[p]
                   PROVE  ShownOf[o] = ShownOf[p]
      OBVIOUS
    <2>2. /\ Height[o] \in Nat /\ At(o) \in Nodes /\ At(p) \in Nodes
          /\ \A q \in PointsTo(At(o)) : q \in Names /\ Height[q] \in Nat /\ Height[q] < Height[o]
      BY HeightIs
    <2>3. \A q \in PointsTo(At(o)) : P(q)
      <3> HIDE DEF P
      <3> QED BY <1>2, <2>1, <2>2
    <2>4. TreeOf[o] = Tree(At(o)) /\ TreeOf[p] = Tree(At(p))
      BY TreeIs DEF Tree
    <2>5. Alikes(At(o), At(p))
      BY <2>1, <2>2, <2>4, AlikesAre
    <2>6. Received(At(o)) = Received(At(p))
      BY <2>2, <2>3, <2>5, AlikesShown
    <2>7. ShownOf[o] = Received(At(o)) /\ ShownOf[p] = Received(At(p))
      BY ShownIs DEF Received
    <2> QED BY <2>6, <2>7
  <1>3. Nat \subseteq T
    <2> HIDE DEF T
    <2> QED BY <1>1, <1>2, Induct
  <1>4. ASSUME NEW o \in Names PROVE P(o)
    <2>1. Height[o] \in Nat /\ Height[o] + 1 \in Nat /\ Height[o] < Height[o] + 1
      BY HeightIs
    <2>2. Height[o] + 1 \in T
      BY <1>3, <2>1
    <2> HIDE DEF P
    <2> QED BY <2>1, <2>2
  <1> QED BY <1>4

\* What the serializer refers back to is what the reader got.
LEMMA SameReceived ==
    ASSUME HeapOK, NEW m \in Nodes, NEW n \in Nodes, Same(m, n)
    PROVE  Received(m) = Received(n)
  <1>1. Alikes(m, n)
    BY AlikesAre DEF Same
  <1>2. PointsTo(m) \subseteq Names
    BY PointsToIs
  <1> QED BY <1>1, <1>2, TwinsShown, AlikesShown
=============================================================================
