------------------------- MODULE AMF0DecoderProofs -------------------------
(***************************************************************************)
(* What AMF0Decoder makes of a body, for every packet of every length, a   *)
(* chunk header anywhere in it, and whatever follows it.                   *)
(***************************************************************************)
EXTENDS AMF0Decoder, Recursion, SequenceTheorems, TLAPS
LOCAL INSTANCE SequencesExt

\* A byte is a number below 256.
LEMMA ByteType == \A x \in Byte : x \in Int /\ 0 <= x /\ x <= 255
  BY DEF Byte

\* The elements of a sequence.
LEMMA ElementIn == ASSUME NEW T, NEW s \in Seq(T), NEW i \in 1 .. Len(s) PROVE s[i] \in T
  OBVIOUS

\* The length of a sequence.
LEMMA LenType == ASSUME NEW T, NEW s \in Seq(T) PROVE Len(s) \in Nat
  OBVIOUS

\* The elements of two sequences, one behind the other.
LEMMA Joined ==
    ASSUME NEW T, NEW x \in Seq(T), NEW y \in Seq(T)
    PROVE  /\ x \o y \in Seq(T) /\ Len(x \o y) = Len(x) + Len(y)
           /\ \A i \in 1 .. Len(x) : (x \o y)[i] = x[i]
           /\ \A i \in 1 .. Len(y) : (x \o y)[Len(x) + i] = y[i]
<1> DEFINE z == x \o y
<1>1. Len(x) \in Nat /\ Len(y) \in Nat
  BY LenType
<1>2. z \in Seq(T) /\ Len(z) = Len(x) + Len(y)
      /\ \A i \in 1 .. Len(x) + Len(y) : z[i] = IF i <= Len(x) THEN x[i] ELSE y[i - Len(x)]
  BY ConcatProperties
<1> HIDE DEF z
<1>3. \A i \in 1 .. Len(x) : i \in 1 .. Len(x) + Len(y) /\ i <= Len(x)
  BY <1>1
<1>4. \A i \in 1 .. Len(y) : /\ Len(x) + i \in 1 .. Len(x) + Len(y)
                            /\ ~(Len(x) + i <= Len(x)) /\ (Len(x) + i) - Len(x) = i
  BY <1>1
<1>5. \A i \in 1 .. Len(x) : z[i] = x[i]
  BY <1>2, <1>3
<1>6. \A i \in 1 .. Len(y) : z[Len(x) + i] = y[i]
  BY <1>2, <1>4
<1> QED BY <1>2, <1>5, <1>6 DEF z

\* The types and their bytes.
LEMMA MarkerIs ==
    /\ DOMAIN Marker = {"number", "boolean", "string", "object", "null", "undefined"}
    /\ Marker["number"] = 0 /\ Marker["boolean"] = 1 /\ Marker["string"] = 2
    /\ Marker["object"] = 3 /\ Marker["null"] = 5 /\ Marker["undefined"] = 6
  BY DEF Marker

\* The type of a byte, and the byte of a type.
LEMMA TypeAtIs ==
    ASSUME NEW p
    PROVE  /\ TypeAt(p) \in DOMAIN Marker
           /\ \A t \in DOMAIN Marker : At(p) = Marker[t] => TypeAt(p) = t
<1> DEFINE known == \E t \in DOMAIN Marker \ {"undefined"} : Marker[t] = At(p)
           chosen == CHOOSE t \in DOMAIN Marker : Marker[t] = At(p)
<1>1. TypeAt(p) = IF known THEN chosen ELSE "undefined"
  BY DEF TypeAt
<1>2. known => chosen \in DOMAIN Marker /\ Marker[chosen] = At(p)
  OBVIOUS
<1>3. \A t, u \in DOMAIN Marker : Marker[t] = Marker[u] => t = u
  BY MarkerIs
<1>4. "undefined" \in DOMAIN Marker
  BY MarkerIs
<1>5. ASSUME NEW t \in DOMAIN Marker, At(p) = Marker[t] PROVE TypeAt(p) = t
  <2>1. CASE t = "undefined"
    <3>1. ~known
      BY <1>3, <1>5, <2>1
    <3> QED BY <1>1, <2>1, <3>1
  <2>2. CASE t # "undefined"
    <3>1. known
      BY <1>5, <2>2
    <3>2. chosen = t
      BY <1>2, <1>3, <1>5, <3>1
    <3> QED BY <1>1, <3>1, <3>2
  <2> QED BY <2>1, <2>2
<1> QED BY <1>1, <1>2, <1>4, <1>5

-----------------------------------------------------------------------------
(* Sequences one after the other.                                          *)

Flattens(f, ss) == /\ f[0] = <<>>
                   /\ \A i \in 1 .. Len(ss) : f[i] = f[i - 1] \o ss[i]

\* The joined fronts of a list of sequences.
LEMMA FlattenExists ==
    ASSUME NEW T, NEW ss \in Seq(Seq(T))
    PROVE  \E f \in [0 .. Len(ss) -> Seq(T)] : Flattens(f, ss)
<1> DEFINE L == Len(ss)
           F == [p \in Nat \X Seq(T) |-> IF p[1] \in 1 .. L THEN p[2] \o ss[p[1]] ELSE <<>>]
<1>1. L \in Nat /\ \A i \in 1 .. L : ss[i] \in Seq(T)
  BY LenType, ElementIn
<1> HIDE DEF L
<1>2. F \in [Nat \X Seq(T) -> Seq(T)] /\ \A i \in 1 .. L, x \in Seq(T) : F[<<i, x>>] = x \o ss[i]
  <2>1. \A i \in 1 .. L, x \in Seq(T) : x \o ss[i] \in Seq(T)
    BY <1>1
  <2>2. <<>> \in Seq(T)
    OBVIOUS
  <2>3. F \in [Nat \X Seq(T) -> Seq(T)]
    BY <2>1, <2>2
  <2>4. \A i \in 1 .. L, x \in Seq(T) : <<i, x>> \in Nat \X Seq(T) /\ i \in Nat
    BY <1>1
  <2> QED BY <2>3, <2>4
<1> HIDE DEF F
<1>3. PICK f \in [0 .. L -> Seq(T)] : Computes(f, L, <<>>, F)
  <2>1. <<>> \in Seq(T)
    OBVIOUS
  <2> QED BY <1>1, <1>2, <2>1, Computable
<1>4. ASSUME NEW i \in 1 .. L PROVE f[i] = f[i - 1] \o ss[i]
  <2>1. i - 1 \in 0 .. L
    BY <1>1
  <2>2. f[i - 1] \in Seq(T)
    BY <2>1
  <2> QED BY <1>2, <1>3, <2>2 DEF Computes
<1>5. f[0] = <<>>
  BY <1>3 DEF Computes
<1> QED BY <1>3, <1>4, <1>5 DEF Flattens, L

\* FlattenSeq is the last of them.
LEMMA FlattenIs ==
    ASSUME NEW T, NEW ss \in Seq(Seq(T)), NEW f \in [0 .. Len(ss) -> Seq(T)], Flattens(f, ss)
    PROVE  FlattenSeq(ss) = f[Len(ss)]
<1> DEFINE L == Len(ss)
           Step(g) == [i \in 1 .. L |-> IF i = 1 THEN ss[i] ELSE g[i - 1] \o ss[i]]
           value == CHOOSE g : g = Step(g)
           h == [i \in 1 .. L |-> f[i]]
<1>1. L \in Nat /\ \A i \in 1 .. L : ss[i] \in Seq(T)
  BY LenType, ElementIn
<1>2. CASE L = 0
  <2>1. ss = <<>>
    BY <1>2
  <2>2. FlattenSeq(ss) = ss
    BY <1>2 DEF FlattenSeq
  <2> QED BY <1>2, <2>1, <2>2 DEF Flattens
<1>3. CASE L # 0
  <2>1. FlattenSeq(ss) = value[L]
    BY <1>3 DEF FlattenSeq
  <2> HIDE DEF L
  <2>2. f[0] = <<>> /\ \A i \in 1 .. L : f[i] = f[i - 1] \o ss[i]
    BY DEF Flattens, L
  <2>3. \A i \in 1 .. L : f[i] = IF i = 1 THEN ss[i] ELSE f[i - 1] \o ss[i]
    <3>1. ASSUME NEW i \in 1 .. L, i = 1 PROVE f[i] = ss[i]
      <4>1. f[i] = <<>> \o ss[i]
        <5>1. i - 1 = 0
          BY <3>1
        <5> QED BY <2>2, <5>1
      <4>2. ss[i] \in Seq(T)
        BY <1>1
      <4> QED BY <4>1, <4>2
    <3> QED BY <2>2, <3>1
  <2>4. h = Step(h)
    <3>1. \A i \in 1 .. L : i = 1 \/ i - 1 \in 1 .. L
      BY <1>1
    <3> QED BY <2>3, <3>1
  <2> HIDE DEF Step
  <2>5. value = Step(value)
    BY <2>4
  <2> HIDE DEF value
  <2>6. \A i \in 1 .. L : value[i] = IF i = 1 THEN ss[i] ELSE value[i - 1] \o ss[i]
    BY <2>5 DEF Step
  <2> DEFINE N == {i \in Nat : i + 1 <= L => value[i + 1] = f[i + 1]}
  <2>7. 0 \in N
    <3>1. 0 + 1 = 1 /\ 1 \in 1 .. L
      BY <1>1, <1>3
    <3> QED BY <2>3, <2>6, <3>1
  <2>8. ASSUME NEW i \in Nat, i \in N PROVE i + 1 \in N
    <3>1. SUFFICES ASSUME (i + 1) + 1 <= L PROVE value[(i + 1) + 1] = f[(i + 1) + 1]
      OBVIOUS
    <3> DEFINE m == (i + 1) + 1
    <3>2. m \in 1 .. L /\ m # 1 /\ m - 1 = i + 1 /\ i + 1 <= L
      BY <1>1, <3>1
    <3>3. value[i + 1] = f[i + 1]
      BY <2>8, <3>2
    <3> HIDE DEF m
    <3>4. value[m] = f[m]
      BY <2>3, <2>6, <3>2, <3>3
    <3> QED BY <3>4 DEF m
  <2> HIDE DEF N
  <2>9. L - 1 \in Nat /\ (L - 1) + 1 = L /\ L <= L
    BY <1>1, <1>3
  <2>10. L - 1 \in N
    BY <2>7, <2>8, <2>9, Induct
  <2>11. value[L] = f[L]
    BY <2>9, <2>10 DEF N
  <2> QED BY <2>1, <2>11 DEF L
<1> QED BY <1>2, <1>3

-----------------------------------------------------------------------------
(* What the client sends.                                                  *)

Types == {"number", "boolean", "string", "null", "undefined"}

\* What a value that is not an object may be.
LEMMA ScalarIs ==
    ASSUME NEW v \in ScalarValues
    PROVE  /\ v.type \in Types /\ v.data \in Text
           /\ v.type = "number" => Len(v.data) = 8
           /\ v.type = "boolean" => Len(v.data) = 1
           /\ v.type = "string" => v.data \in Strings
           /\ v.type \in {"null", "undefined"} => v.data = <<>>
<1>1. v \in [type : DOMAIN Marker \ {"object"}, data : Text]
  BY DEF ScalarValues
<1>2. v.type \in Types /\ v.data \in Text
  BY <1>1, MarkerIs DEF Types
<1> DEFINE Fits(w) == CASE w.type = "number"  -> Len(w.data) = 8
                        [] w.type = "boolean" -> Len(w.data) = 1
                        [] w.type = "string"  -> w.data \in Strings
                        [] OTHER              -> w.data = <<>>
<1>3. Fits(v)
  BY DEF ScalarValues
<1> QED BY <1>2, <1>3

\* A string and its size.
LEMMA PrefixedIs ==
    ASSUME NEW s \in Strings
    PROVE  /\ s \in Text /\ Len(s) \in Nat
           /\ Prefixed(s) \in Text /\ Len(Prefixed(s)) = Len(s) + 2
           /\ Prefixed(s)[1] \in Nat /\ Prefixed(s)[2] \in Nat
           /\ 256 * Prefixed(s)[1] + Prefixed(s)[2] = Len(s)
           /\ \A i \in 1 .. Len(s) : Prefixed(s)[i + 2] = s[i]
<1>1. s \in Seq(Byte) /\ Len(s) \in Nat /\ Len(s) < 65536
  BY DEF Strings, Text
<1> DEFINE hi == Len(s) \div 256
           lo == Len(s) % 256
<1>2. hi \in Nat /\ lo \in Nat /\ 256 * hi + lo = Len(s)
  BY <1>1
<1>3. hi \in Byte /\ lo \in Byte
  <2>1. hi <= 255 /\ lo <= 255
    BY <1>1
  <2> HIDE DEF hi, lo
  <2> QED BY <1>2, <2>1 DEF Byte
<1> HIDE DEF hi, lo
<1> DEFINE h == <<hi, lo>>
<1>4. h \in Seq(Byte) /\ Len(h) = 2 /\ h[1] = hi /\ h[2] = lo
  BY <1>3
<1>5. Prefixed(s) = h \o s
  BY DEF Prefixed, hi, lo
<1> HIDE DEF h
<1>6. /\ h \o s \in Seq(Byte) /\ Len(h \o s) = Len(h) + Len(s)
      /\ \A i \in 1 .. Len(h) : (h \o s)[i] = h[i]
      /\ \A i \in 1 .. Len(s) : (h \o s)[Len(h) + i] = s[i]
  <2>1. s \in Seq(Byte) /\ h \in Seq(Byte)
    BY <1>1, <1>4
  <2> QED BY ONLY <2>1, Joined
<1>7. 1 \in 1 .. 2 /\ 2 \in 1 .. 2 /\ \A i \in 1 .. Len(s) : 2 + i = i + 2
  BY <1>1
<1> DEFINE p == h \o s
<1> HIDE DEF p
<1>8. p \in Seq(Byte) /\ Len(p) = 2 + Len(s) /\ p[1] = hi /\ p[2] = lo /\ \A i \in 1 .. Len(s) : p[i + 2] = s[i]
  BY <1>4, <1>6, <1>7 DEF p
<1> QED BY <1>1, <1>2, <1>5, <1>8 DEF p, Text

\* The bytes behind the type of a value.
Payload(v) == IF v.type = "string" THEN Prefixed(v.data) ELSE v.data

\* The bytes behind the type of such a value.
LEMMA PayloadIs ==
    ASSUME NEW v \in ScalarValues
    PROVE  /\ Payload(v) \in Text /\ Len(Payload(v)) \in Nat
           /\ Scalar(v) = <<Marker[v.type]>> \o Payload(v)
           /\ Marker[v.type] \in Byte /\ Marker[v.type] # EndObject
           /\ v.type = "string" => Len(Payload(v)) = Len(v.data) + 2
           /\ v.type # "string" => Payload(v) = v.data
<1>1. v.type \in Types /\ v.data \in Text /\ (v.type = "string" => v.data \in Strings)
  BY ScalarIs
<1>2. Payload(v) \in Text /\ (v.type = "string" => Len(Payload(v)) = Len(v.data) + 2)
  BY <1>1, PrefixedIs DEF Payload
<1>3. Len(Payload(v)) \in Nat
  BY <1>2, LenType DEF Text
<1>4. Marker[v.type] \in {0, 1, 2, 5, 6}
  BY <1>1, MarkerIs DEF Types
<1>5. Marker[v.type] \in Byte /\ Marker[v.type] # EndObject
  BY <1>4 DEF Byte, EndObject
<1> QED BY <1>2, <1>3, <1>5 DEF Scalar, Payload

\* Its type and these bytes, one by one.
LEMMA ScalarBytes ==
    ASSUME NEW v \in ScalarValues
    PROVE  /\ Scalar(v) \in Text /\ Len(Scalar(v)) = Len(Payload(v)) + 1
           /\ Scalar(v)[1] = Marker[v.type]
           /\ \A i \in 1 .. Len(Payload(v)) : Scalar(v)[i + 1] = Payload(v)[i]
<1> DEFINE m == Marker[v.type]
           h == <<m>>
           q == Payload(v)
<1>1. q \in Seq(Byte) /\ Len(q) \in Nat /\ Scalar(v) = h \o q /\ m \in Byte
  BY PayloadIs DEF Text
<1> HIDE DEF m, q
<1>2. h \in Seq(Byte) /\ Len(h) = 1 /\ h[1] = m
  BY <1>1
<1> HIDE DEF h
<1>3. /\ h \o q \in Seq(Byte) /\ Len(h \o q) = Len(h) + Len(q)
      /\ \A i \in 1 .. Len(h) : (h \o q)[i] = h[i]
      /\ \A i \in 1 .. Len(q) : (h \o q)[Len(h) + i] = q[i]
  <2>1. q \in Seq(Byte) /\ h \in Seq(Byte)
    BY <1>1, <1>2
  <2> QED BY ONLY <2>1, Joined
<1>4. 1 \in 1 .. 1 /\ \A i \in 1 .. Len(q) : 1 + i = i + 1
  BY <1>1
<1> DEFINE p == h \o q
<1> HIDE DEF p
<1>5. p \in Seq(Byte) /\ Len(p) = 1 + Len(q) /\ p[1] = m /\ \A i \in 1 .. Len(q) : p[i + 1] = q[i]
  BY <1>2, <1>3, <1>4 DEF p
<1> QED BY <1>1, <1>5 DEF p, m, q, Text

PairType == [key : Strings, value : ScalarValues]
OnePair(p) == Prefixed(p.key) \o Scalar(p.value)

\* A key and its size, the type of the value and the value.
LEMMA OnePairIs ==
    ASSUME NEW p \in PairType
    PROVE  /\ OnePair(p) \in Text /\ Len(p.key) \in Nat /\ Len(Payload(p.value)) \in Nat
           /\ Len(OnePair(p)) = Len(p.key) + 3 + Len(Payload(p.value))
           /\ \A i \in 1 .. Len(p.key) + 2 : OnePair(p)[i] = Prefixed(p.key)[i]
           /\ OnePair(p)[Len(p.key) + 3] = Marker[p.value.type]
           /\ \A i \in 1 .. Len(Payload(p.value)) :
                OnePair(p)[Len(p.key) + 3 + i] = Payload(p.value)[i]
<1> DEFINE x == Prefixed(p.key)
           y == Scalar(p.value)
           q == Payload(p.value)
           n == Len(p.key)
           z == x \o y
<1>1. p.key \in Strings /\ p.value \in ScalarValues
  BY DEF PairType
<1>2. x \in Seq(Byte) /\ Len(x) = n + 2 /\ n \in Nat
  BY <1>1, PrefixedIs DEF Text
<1>3. /\ y \in Seq(Byte) /\ Len(y) = Len(q) + 1 /\ Len(q) \in Nat
      /\ y[1] = Marker[p.value.type] /\ \A i \in 1 .. Len(q) : y[i + 1] = q[i]
  BY <1>1, ScalarBytes, PayloadIs DEF Text
<1>4. OnePair(p) = z
  BY DEF OnePair
<1> HIDE DEF x, y, n, q
<1>5. /\ z \in Seq(Byte) /\ Len(z) = Len(x) + Len(y)
      /\ \A i \in 1 .. Len(x) : z[i] = x[i]
      /\ \A i \in 1 .. Len(y) : z[Len(x) + i] = y[i]
  <2>1. x \in Seq(Byte) /\ y \in Seq(Byte)
    BY <1>2, <1>3
  <2> QED BY ONLY <2>1, Joined
<1> HIDE DEF z
<1>6. Len(z) = n + 3 + Len(q)
  BY <1>2, <1>3, <1>5
<1>7. z[n + 3] = Marker[p.value.type]
  <2>1. 1 \in 1 .. Len(y) /\ Len(x) + 1 = n + 3
    BY <1>2, <1>3
  <2> QED BY <1>3, <1>5, <2>1
<1>8. \A i \in 1 .. Len(q) : z[n + 3 + i] = q[i]
  <2>1. \A i \in 1 .. Len(q) : i + 1 \in 1 .. Len(y) /\ Len(x) + (i + 1) = n + 3 + i
    BY <1>2, <1>3
  <2>2. \A i \in 1 .. Len(q) : z[Len(x) + (i + 1)] = y[i + 1]
    BY <1>5, <2>1
  <2> QED BY <1>3, <2>1, <2>2
<1> QED BY <1>2, <1>3, <1>4, <1>5, <1>6, <1>7, <1>8 DEF x, q, n, Text

-----------------------------------------------------------------------------
(* What the decoder reads.                                                 *)

Doubles == {d \in Text : Len(d) = 8}

\* A byte of the buffer.
LEMMA AtType ==
    ASSUME buffer \in Seq(Byte), NEW p \in Nat, In(p)
    PROVE  At(p) \in Byte /\ At(p) \in Int /\ 0 <= At(p) /\ At(p) <= 255 /\ p + 1 \in 1 .. Len(buffer)
<1>1. p + 1 \in 1 .. Len(buffer)
  BY LenType DEF In
<1>2. At(p) \in Byte
  BY <1>1, ElementIn DEF At
<1> QED BY <1>1, <1>2, ByteType

\* A part of a sequence.
LEMMA Slice ==
    ASSUME NEW T, NEW x \in Seq(T), NEW m \in Nat, NEW n \in Nat, 1 <= m, m <= n + 1, n <= Len(x)
    PROVE  /\ SubSeq(x, m, n) \in Seq(T) /\ Len(SubSeq(x, m, n)) = n + 1 - m
           /\ \A i \in 1 .. n + 1 - m : SubSeq(x, m, n)[i] = x[m + i - 1]
<1>1. \A i \in m .. n : i \in 1 .. Len(x) /\ x[i] \in T
  BY LenType, ElementIn
<1>2. SubSeq(x, m, n) \in Seq(T)
  BY <1>1, SubSeqProperties
<1> QED BY <1>2, SubSeqProperties

\* What is read as a number is eight bytes long.
LEMMA ReadNumber ==
    ASSUME buffer \in Seq(Byte), NEW p \in Nat, Readable("number", p)
    PROVE  /\ DoubleAt(p) \in Doubles /\ p + 8 <= Len(buffer)
           /\ HeaderInside(p) => p + 9 <= Len(buffer)
           /\ \A i \in 1 .. 7 : DoubleAt(p)[i] = At(p + i - 1)
           /\ DoubleAt(p)[8] = At(p + 7 + IF HeaderInside(p) THEN 1 ELSE 0)
<1> DEFINE q == p + 7 + IF HeaderInside(p) THEN 1 ELSE 0
           x == SubSeq(buffer, p + 1, p + 7)
           y == <<At(q)>>
<1>1. In(p + 7) /\ (HeaderInside(p) => In(p + 8)) /\ Len(buffer) \in Nat
  BY LenType DEF Readable
<1>2. q \in Nat /\ In(q)
  BY <1>1
<1>3. y \in Seq(Byte) /\ Len(y) = 1 /\ y[1] = At(q)
  <2>1. At(q) \in Byte
    BY <1>2, AtType
  <2> QED BY <2>1
<1>4. p + 8 <= Len(buffer) /\ (HeaderInside(p) => p + 9 <= Len(buffer))
  BY <1>1 DEF In
<1>5. x \in Seq(Byte) /\ Len(x) = 7 /\ \A i \in 1 .. 7 : x[i] = buffer[p + 1 + i - 1]
  <2>1. p + 1 \in Nat /\ p + 7 \in Nat /\ 1 <= p + 1 /\ p + 1 <= (p + 7) + 1 /\ p + 7 <= Len(buffer)
        /\ (p + 7) + 1 - (p + 1) = 7
    BY <1>1, <1>4
  <2> QED BY <2>1, Slice
<1>6. DoubleAt(p) = x \o y
  BY DEF DoubleAt
<1> HIDE DEF x, y, q
<1>7. /\ x \o y \in Seq(Byte) /\ Len(x \o y) = Len(x) + Len(y)
      /\ \A i \in 1 .. Len(x) : (x \o y)[i] = x[i]
      /\ \A i \in 1 .. Len(y) : (x \o y)[Len(x) + i] = y[i]
  <2>1. x \in Seq(Byte) /\ y \in Seq(Byte)
    BY <1>3, <1>5
  <2> QED BY ONLY <2>1, Joined
<1> DEFINE z == x \o y
<1> HIDE DEF z
<1>8. z \in Seq(Byte) /\ Len(z) = 8 /\ (\A i \in 1 .. 7 : z[i] = x[i]) /\ z[8] = At(q)
  <2>1. Len(x) = 7 /\ Len(y) = 1 /\ y[1] = At(q)
    BY <1>3, <1>5
  <2>2. /\ z \in Seq(Byte) /\ Len(z) = 7 + 1
        /\ \A i \in 1 .. 7 : z[i] = x[i]
        /\ \A i \in 1 .. 1 : z[7 + i] = y[i]
    BY ONLY <1>7, <2>1 DEF z
  <2>3. 1 \in 1 .. 1 /\ 7 + 1 = 8
    OBVIOUS
  <2> QED BY ONLY <2>1, <2>2, <2>3
<1>9. \A i \in 1 .. 7 : z[i] = At(p + i - 1)
  <2>1. \A i \in 1 .. 7 : p + 1 + i - 1 = (p + i - 1) + 1
    OBVIOUS
  <2> QED BY <1>5, <1>8, <2>1 DEF At
<1> QED BY <1>4, <1>6, <1>8, <1>9 DEF z, q, Doubles, Text

\* What is read as a string is a text.
LEMMA ReadString ==
    ASSUME buffer \in Seq(Byte), NEW p \in Nat, Readable("string", p)
    PROVE  /\ StringAt(p) \in Text /\ Len(StringAt(p)) = StringLength(p)
           /\ StringLength(p) \in Nat /\ p + 2 + StringLength(p) <= Len(buffer)
           /\ \A i \in 1 .. StringLength(p) : StringAt(p)[i] = At(p + 1 + i)
<1> DEFINE n == StringLength(p)
<1>1. In(p + 1) /\ (n > 0 => In(p + 1 + n)) /\ Len(buffer) \in Nat
  BY LenType DEF Readable
<1>2. In(p)
  BY <1>1 DEF In
<1>3. n \in Nat
  <2>1. At(p) \in Nat /\ At(p + 1) \in Nat
    BY <1>1, <1>2, AtType
  <2> QED BY <2>1 DEF StringLength
<1> HIDE DEF n
<1>4. p + 2 + n <= Len(buffer)
  BY <1>1, <1>3 DEF In
<1> DEFINE x == SubSeq(buffer, p + 3, p + 2 + n)
<1>5. x \in Seq(Byte) /\ Len(x) = n /\ \A i \in 1 .. n : x[i] = buffer[p + 3 + i - 1]
  <2>1. p + 3 \in Nat /\ p + 2 + n \in Nat /\ 1 <= p + 3 /\ p + 3 <= (p + 2 + n) + 1
        /\ (p + 2 + n) + 1 - (p + 3) = n
    BY <1>3
  <2> QED BY <1>4, <2>1, Slice
<1>6. StringAt(p) = x
  BY DEF StringAt, n
<1> HIDE DEF x
<1>7. \A i \in 1 .. n : x[i] = At(p + 1 + i)
  <2>1. \A i \in 1 .. n : p + 3 + i - 1 = (p + 1 + i) + 1
    BY <1>3
  <2> QED BY <1>5, <2>1 DEF At
<1> QED BY <1>3, <1>4, <1>5, <1>6, <1>7 DEF n, Text

\* What a value of any type takes.
LEMMA SizeIs ==
    ASSUME buffer \in Seq(Byte), NEW p \in Nat, p <= Len(buffer),
           NEW t \in DOMAIN Marker, Readable(t, p)
    PROVE  /\ Size(t, p) \in Nat /\ Extra(t, p) \in {0, 1}
           /\ p + Size(t, p) + Extra(t, p) <= Len(buffer) + 1
           /\ Extra(t, p) = 1 => p + 9 <= Len(buffer)
<1>1. Len(buffer) \in Nat
  BY LenType
<1>2. CASE t = "number"
  <2>1. p + 8 <= Len(buffer) /\ (HeaderInside(p) => p + 9 <= Len(buffer))
    BY <1>2, ReadNumber
  <2>2. Size(t, p) = 8 /\ Extra(t, p) = IF HeaderInside(p) THEN 1 ELSE 0
    BY <1>2 DEF Size, Extra
  <2> QED BY <1>1, <2>1, <2>2
<1>3. CASE t = "string"
  <2>1. StringLength(p) \in Nat /\ p + 2 + StringLength(p) <= Len(buffer)
    BY <1>3, ReadString
  <2>2. Size(t, p) = 2 + StringLength(p) /\ Extra(t, p) = 0
    BY <1>3 DEF Size, Extra
  <2> QED BY <1>1, <2>1, <2>2
<1>4. CASE t \notin {"number", "string"}
  <2>1. Size(t, p) \in {0, 1} /\ Extra(t, p) = 0
    BY <1>4 DEF Size, Extra
  <2> QED BY <1>1, <2>1
<1> QED BY <1>2, <1>3, <1>4

\* Past a value, the buffer has the same length and the place is in it.
LEMMA PassType ==
    ASSUME buffer \in Seq(Byte), byteError \in Nat, NEW p \in Nat, p <= Len(buffer),
           NEW t \in DOMAIN Marker, Readable(t, p), Pass(t, p)
    PROVE  /\ buffer' \in Seq(Byte) /\ Len(buffer') = Len(buffer)
           /\ processed' \in Nat /\ p <= processed' /\ processed' <= Len(buffer) + 1
           /\ byteError' \in Nat
<1> DEFINE n == Size(t, p)
           e == Extra(t, p)
<1>1. n \in Nat /\ e \in {0, 1} /\ p + n + e <= Len(buffer) + 1 /\ (e = 1 => p + 9 <= Len(buffer))
  BY SizeIs
<1>2. processed' = p + n + e /\ byteError' = byteError + e
      /\ buffer' = IF e = 1 THEN [buffer EXCEPT ![p + 8] = At(p + 8)] ELSE buffer
  BY DEF Pass
<1> HIDE DEF n, e
<1>3. processed' \in Nat /\ p <= processed' /\ processed' <= Len(buffer) + 1 /\ byteError' \in Nat
  BY <1>1, <1>2
<1>4. buffer' \in Seq(Byte) /\ Len(buffer') = Len(buffer)
  <2>1. CASE e = 1
    <3>1. p + 8 \in Nat /\ In(p + 8)
      BY <1>1, <2>1, LenType DEF In
    <3>2. At(p + 8) \in Byte
      BY <3>1, AtType
    <3>3. p + 8 \in 1 .. Len(buffer)
      BY <1>1, <2>1, LenType
    <3> DEFINE i == p + 8
               x == At(i)
    <3>4. buffer' = [buffer EXCEPT ![i] = x] /\ i \in 1 .. Len(buffer) /\ x \in Byte
      BY <1>2, <2>1, <3>2, <3>3
    <3> HIDE DEF i, x
    <3> QED BY <3>4
  <2>2. CASE e # 1
    BY <1>2, <2>2
  <2> QED BY <2>1, <2>2
<1> QED BY <1>3, <1>4

\* What is behind the type of a value is in the buffer, or its end is there.
LEMMA ValueType ==
    ASSUME buffer \in Seq(Byte), NEW p \in Nat, NEW t \in Scalars, Readable(t, p)
    PROVE  /\ t = "number" => ValueAt(t, p) \in Doubles
           /\ t = "boolean" => ValueAt(t, p) \in BOOLEAN
           /\ t = "string" => ValueAt(t, p) \in Text
<1>1. CASE t = "number"
  BY <1>1, ReadNumber DEF ValueAt
<1>2. CASE t = "boolean"
  <2>1. ValueAt(t, p) = BooleanAt(p)
    BY <1>2 DEF ValueAt
  <2>2. BooleanAt(p) \in BOOLEAN
    BY DEF BooleanAt
  <2> QED BY <1>2, <2>1, <2>2
<1>3. CASE t = "string"
  BY <1>3, ReadString DEF ValueAt
<1> QED BY <1>1, <1>2, <1>3 DEF Scalars

-----------------------------------------------------------------------------
(* Type correctness.                                                       *)

Holds(f, S) == \A k \in DOMAIN f : f[k] \in S

BytesInv == /\ buffer \in Seq(Byte) /\ length \in Nat /\ byteError \in Nat
            /\ pc \in {"block", "object", "done", "outside"}
            /\ processed \in Nat /\ processed <= Len(buffer) + 3

PacketInv == /\ DOMAIN packet = {"number", "boolean", "string", "object"}
             /\ packet.number \in Seq(Doubles) /\ packet.boolean \in Seq(BOOLEAN)
             /\ packet.string \in Seq(Text)

ObjectInv == /\ DOMAIN object = Scalars
             /\ Holds(object.number, Doubles)
             /\ Holds(object.boolean, BOOLEAN)
             /\ Holds(object.string, Text)

TInv == BytesInv /\ PacketInv /\ ObjectInv

\* TypeOK follows from the inductive invariant.
LEMMA TInvTypeOK == TInv => TypeOK
<1> SUFFICES ASSUME TInv PROVE TypeOK
  OBVIOUS
<1>1. processed \in 0 .. Len(buffer) + 3
  BY LenType DEF TInv, BytesInv
<1>2. \A k \in DOMAIN packet.number : packet.number[k] \in Seq(Byte) /\ Len(packet.number[k]) = 8
  <2>1. \A k \in DOMAIN packet.number : packet.number[k] \in Doubles
    BY DEF TInv, PacketInv
  <2> QED BY <2>1 DEF Doubles, Text
<1>3. \A k \in DOMAIN object.number : object.number[k] \in Seq(Byte) /\ Len(object.number[k]) = 8
  BY DEF TInv, ObjectInv, Holds, Doubles, Text
<1>4. \A k \in DOMAIN object.string : object.string[k] \in Seq(Byte)
  BY DEF TInv, ObjectInv, Holds, Text
<1>5. \A k \in DOMAIN object.boolean : object.boolean[k] \in BOOLEAN
  BY DEF TInv, ObjectInv, Holds
<1>6. packet.string \in Seq(Seq(Byte)) /\ packet.boolean \in Seq(BOOLEAN)
  BY DEF TInv, PacketInv, Text
<1>7. buffer \in Seq(Byte) /\ length \in Nat /\ byteError \in Nat /\ pc \in {"block", "object", "done", "outside"}
  BY DEF TInv, BytesInv
<1> QED BY <1>1, <1>2, <1>3, <1>4, <1>5, <1>6, <1>7 DEF TypeOK

\* Every action keeps the types.
LEMMA TNext == TInv /\ [Next]_vars => TInv'
<1> SUFFICES ASSUME TInv, [Next]_vars PROVE TInv'
  OBVIOUS
<1>1. BytesInv /\ PacketInv /\ ObjectInv
  BY DEF TInv
<1>2. buffer \in Seq(Byte) /\ length \in Nat /\ byteError \in Nat /\ processed \in Nat /\ Len(buffer) \in Nat
  BY <1>1, LenType DEF BytesInv
<1>3. ASSUME NEW t \in Scalars, BlockValue(t) PROVE TInv'
  <2> DEFINE v == ValueAt(t, processed + 1)
  <2>1. /\ AtValue /\ Readable(t, processed + 1) /\ Pass(t, processed + 1)
        /\ packet' = [packet EXCEPT ![t] = Append(@, v)]
        /\ length' = length /\ pc' = pc /\ object' = object
    BY <1>3 DEF BlockValue
  <2>2. processed + 1 \in Nat /\ processed + 1 <= Len(buffer)
    BY <1>2, <2>1 DEF AtValue, In
  <2>3. t \in DOMAIN Marker
    BY MarkerIs DEF Scalars
  <2>4. BytesInv'
    <3>1. buffer' \in Seq(Byte) /\ Len(buffer') = Len(buffer) /\ processed' \in Nat
          /\ processed' <= Len(buffer) + 1 /\ byteError' \in Nat
      BY <1>2, <2>1, <2>2, <2>3, PassType
    <3> QED BY <1>1, <1>2, <2>1, <3>1 DEF BytesInv
  <2>5. PacketInv'
    <3>1. /\ t = "number" => v \in Doubles
          /\ t = "boolean" => v \in BOOLEAN
          /\ t = "string" => v \in Text
      BY <1>2, <2>1, <2>2, ValueType
    <3> HIDE DEF v
    <3>2. CASE t = "number"
      BY <1>1, <2>1, <3>1, <3>2 DEF PacketInv
    <3>3. CASE t = "boolean"
      BY <1>1, <2>1, <3>1, <3>3 DEF PacketInv
    <3>4. CASE t = "string"
      BY <1>1, <2>1, <3>1, <3>4 DEF PacketInv
    <3> QED BY <3>2, <3>3, <3>4 DEF Scalars
  <2>6. ObjectInv'
    BY <1>1, <2>1 DEF ObjectInv
  <2> QED BY <2>4, <2>5, <2>6 DEF TInv
<1>4. ASSUME SkipValue PROVE TInv'
  <2> DEFINE t == TypeAt(processed)
  <2>1. /\ AtValue /\ t \in {"null", "undefined"} /\ Pass(t, processed + 1)
        /\ packet' = packet /\ length' = length /\ pc' = pc /\ object' = object
    BY <1>4 DEF SkipValue
  <2> HIDE DEF t
  <2>2. processed + 1 \in Nat /\ processed + 1 <= Len(buffer)
    BY <1>2, <2>1 DEF AtValue, In
  <2>3. t \in DOMAIN Marker /\ Readable(t, processed + 1)
    BY <2>1, MarkerIs DEF Readable
  <2>4. buffer' \in Seq(Byte) /\ Len(buffer') = Len(buffer) /\ processed' \in Nat
        /\ processed' <= Len(buffer) + 1 /\ byteError' \in Nat
    BY <1>2, <2>1, <2>2, <2>3, PassType
  <2>5. BytesInv'
    BY <1>1, <1>2, <2>1, <2>4 DEF BytesInv
  <2>6. PacketInv' /\ ObjectInv'
    BY <1>1, <2>1 DEF PacketInv, ObjectInv
  <2> QED BY <2>5, <2>6 DEF TInv
<1>5. ASSUME OpenObject PROVE TInv'
  <2>1. /\ In(processed) /\ pc' = "object" /\ object' = EmptyObject /\ processed' = processed + 1
        /\ buffer' = buffer /\ length' = length /\ byteError' = byteError /\ packet' = packet
    BY <1>5 DEF OpenObject, AtValue
  <2>2. BytesInv'
    BY <1>1, <1>2, <2>1 DEF BytesInv, In
  <2>3. ObjectInv'
    <3>1. /\ DOMAIN EmptyObject = Scalars /\ EmptyObject.number = <<>>
          /\ EmptyObject.boolean = <<>> /\ EmptyObject.string = <<>>
      BY DEF EmptyObject, Scalars
    <3>2. DOMAIN <<>> = {}
      OBVIOUS
    <3>3. /\ DOMAIN object' = Scalars /\ object'.number = <<>>
          /\ object'.boolean = <<>> /\ object'.string = <<>>
      BY <2>1, <3>1
    <3> QED BY <3>2, <3>3 DEF ObjectInv, Holds
  <2>4. PacketInv'
    BY <1>1, <2>1 DEF PacketInv
  <2> QED BY <2>2, <2>3, <2>4 DEF TInv
<1>6. ASSUME Pair PROVE TInv'
  <2> DEFINE t == TypeAt(TypePlace)
             v == ValueAt(t, ValuePlace)
             s == StringAt(processed)
  <2>1. /\ Readable("string", processed) /\ In(TypePlace) /\ Readable(t, ValuePlace)
        /\ Pass(t, ValuePlace) /\ pc' = pc /\ packet' = packet /\ length' = length
        /\ object' = IF t \in Scalars THEN [object EXCEPT ![t] = Insert(@, s, v)] ELSE object
    BY <1>6 DEF Pair, PairReadable
  <2>2. ValuePlace \in Nat /\ ValuePlace <= Len(buffer)
    <3>1. StringLength(processed) \in Nat
      BY <1>2, <2>1, ReadString
    <3> QED BY <1>2, <2>1, <3>1 DEF TypePlace, ValuePlace, In
  <2>3. t \in DOMAIN Marker
    BY TypeAtIs
  <2> HIDE DEF t, s
  <2>4. BytesInv'
    <3>1. buffer' \in Seq(Byte) /\ Len(buffer') = Len(buffer) /\ processed' \in Nat
          /\ processed' <= Len(buffer) + 1 /\ byteError' \in Nat
      BY <1>2, <2>1, <2>2, <2>3, PassType
    <3> QED BY <1>1, <1>2, <2>1, <3>1 DEF BytesInv
  <2>5. ObjectInv'
    <3>1. CASE t \in Scalars
      <4>1. /\ t = "number" => v \in Doubles
            /\ t = "boolean" => v \in BOOLEAN
            /\ t = "string" => v \in Text
        BY <1>2, <2>1, <2>2, <3>1, ValueType
      <4> HIDE DEF v
      <4>2. ASSUME NEW f, NEW S, Holds(f, S), v \in S PROVE Holds(Insert(f, s, v), S)
        BY <4>2 DEF Holds, Insert
      <4>3. /\ DOMAIN object' = Scalars
            /\ \A u \in Scalars : object'[u] = IF u = t THEN Insert(object[t], s, v) ELSE object[u]
        BY <1>1, <2>1, <3>1 DEF ObjectInv
      <4>4. /\ t = "number" => Holds(Insert(object.number, s, v), Doubles)
            /\ t = "boolean" => Holds(Insert(object.boolean, s, v), BOOLEAN)
            /\ t = "string" => Holds(Insert(object.string, s, v), Text)
        BY <1>1, <4>1, <4>2 DEF ObjectInv
      <4>5. "number" \in Scalars /\ "boolean" \in Scalars /\ "string" \in Scalars
        BY DEF Scalars
      <4>6. Holds(object.number', Doubles) /\ Holds(object.boolean', BOOLEAN) /\ Holds(object.string', Text)
        BY <1>1, <4>3, <4>4, <4>5 DEF ObjectInv
      <4> QED BY <4>3, <4>6 DEF ObjectInv, Holds
    <3>2. CASE t \notin Scalars
      BY <1>1, <2>1, <3>2 DEF ObjectInv, Holds
    <3> QED BY <3>1, <3>2
  <2>6. PacketInv'
    BY <1>1, <2>1 DEF PacketInv
  <2> QED BY <2>4, <2>5, <2>6 DEF TInv
<1>7. ASSUME CloseObject PROVE TInv'
  <2>1. /\ In(processed) /\ pc' = "block" /\ processed' = processed + 3
        /\ packet' = [packet EXCEPT !.object = Append(@, object)]
        /\ buffer' = buffer /\ length' = length /\ byteError' = byteError /\ object' = object
    BY <1>7 DEF CloseObject, EndReadable
  <2>2. BytesInv'
    BY <1>1, <1>2, <2>1 DEF BytesInv, In
  <2>3. PacketInv'
    BY <1>1, <2>1 DEF PacketInv
  <2>4. ObjectInv'
    BY <1>1, <2>1 DEF ObjectInv
  <2> QED BY <2>2, <2>3, <2>4 DEF TInv
<1>8. ASSUME Finish \/ Outside \/ UNCHANGED vars PROVE TInv'
  <2>1. /\ pc' \in {pc, "done", "outside"} /\ buffer' = buffer /\ length' = length
        /\ processed' = processed /\ byteError' = byteError /\ packet' = packet /\ object' = object
    BY <1>8 DEF Finish, Outside, vars
  <2>2. BytesInv'
    BY <1>1, <1>2, <2>1 DEF BytesInv
  <2>3. PacketInv' /\ ObjectInv'
    BY <1>1, <2>1 DEF PacketInv, ObjectInv, Holds
  <2> QED BY <2>2, <2>3 DEF TInv
<1> QED BY <1>3, <1>4, <1>5, <1>6, <1>7, <1>8 DEF Next

-----------------------------------------------------------------------------
(* Where the parts of a body are.                                          *)

\* A sequence begins with all it was made of.
LEMMA FlattenPrefix ==
    ASSUME NEW T, NEW ss \in Seq(Seq(T)), NEW f \in [0 .. Len(ss) -> Seq(T)], Flattens(f, ss)
    PROVE  /\ \A k \in 1 .. Len(ss) : Len(f[k]) = Len(f[k - 1]) + Len(ss[k])
           /\ \A k \in 0 .. Len(ss) : \A m \in k .. Len(ss) :
                /\ Len(f[k]) <= Len(f[m])
                /\ \A i \in 1 .. Len(f[k]) : f[m][i] = f[k][i]
<1> DEFINE L == Len(ss)
<1>1. L \in Nat /\ \A i \in 1 .. L : ss[i] \in Seq(T)
  BY LenType, ElementIn
<1>2. \A i \in 1 .. L : f[i] = f[i - 1] \o ss[i]
  BY DEF Flattens
<1>3. \A i \in 0 .. L : f[i] \in Seq(T) /\ Len(f[i]) \in Nat
  BY LenType
<1> HIDE DEF L
<1>4. ASSUME NEW i \in 1 .. L
      PROVE  /\ Len(f[i]) = Len(f[i - 1]) + Len(ss[i]) /\ Len(ss[i]) \in Nat
             /\ \A j \in 1 .. Len(f[i - 1]) : f[i][j] = f[i - 1][j]
  <2>1. i - 1 \in 0 .. L
    BY <1>1
  <2>2. f[i - 1] \in Seq(T) /\ ss[i] \in Seq(T) /\ f[i] = f[i - 1] \o ss[i]
    BY <1>1, <1>2, <1>3, <2>1
  <2>3. Len(ss[i]) \in Nat
    BY <2>2, LenType
  <2> DEFINE a == f[i - 1]
             b == ss[i]
  <2> HIDE DEF a, b
  <2>4. a \in Seq(T) /\ b \in Seq(T) /\ f[i] = a \o b
    BY <2>2 DEF a, b
  <2>5. Len(f[i]) = Len(a) + Len(b) /\ \A j \in 1 .. Len(a) : f[i][j] = a[j]
    BY <2>4, Joined
  <2> QED BY <2>3, <2>5 DEF a, b
<1>5. ASSUME NEW k \in 0 .. L, NEW m \in k .. L
      PROVE  Len(f[k]) <= Len(f[m]) /\ \A i \in 1 .. Len(f[k]) : f[m][i] = f[k][i]
  <2> DEFINE OK(n) == Len(f[k]) <= Len(f[n]) /\ \A i \in 1 .. Len(f[k]) : f[n][i] = f[k][i]
             N == {n \in Nat : k + n <= L => OK(k + n)}
  <2>1. 0 \in N
    <3>1. k + 0 = k /\ Len(f[k]) \in Nat
      BY <1>1, <1>3
    <3> QED BY <3>1
  <2>2. ASSUME NEW n \in Nat, n \in N PROVE n + 1 \in N
    <3>1. SUFFICES ASSUME k + (n + 1) <= L PROVE OK(k + (n + 1))
      OBVIOUS
    <3> DEFINE c == k + n
               d == k + (n + 1)
    <3>2. d \in 1 .. L /\ d - 1 = c /\ c \in 0 .. L /\ c <= L
      BY <1>1, <3>1
    <3>3. OK(c)
      BY <2>2, <3>2
    <3> HIDE DEF c, d
    <3>4. /\ Len(f[d]) = Len(f[c]) + Len(ss[d]) /\ Len(ss[d]) \in Nat
          /\ \A j \in 1 .. Len(f[c]) : f[d][j] = f[c][j]
      BY <1>4, <3>2
    <3>5. Len(f[k]) \in Nat /\ Len(f[c]) \in Nat
      BY <1>3, <3>2
    <3>6. Len(f[k]) <= Len(f[d])
      <4>1. Len(f[k]) <= Len(f[c]) /\ Len(f[d]) = Len(f[c]) + Len(ss[d]) /\ Len(ss[d]) \in Nat
        BY <3>3, <3>4
      <4> DEFINE u == Len(f[k])
                 v == Len(f[c])
                 w == Len(ss[d])
                 x == Len(f[d])
      <4>2. u \in Nat /\ v \in Nat /\ w \in Nat /\ u <= v /\ x = v + w
        BY <3>5, <4>1
      <4> HIDE DEF u, v, w, x
      <4>3. u <= x
        BY <4>2
      <4> QED BY <4>3 DEF u, x
    <3>7. \A i \in 1 .. Len(f[k]) : i \in 1 .. Len(f[c])
      BY <3>3, <3>5
    <3>8. \A i \in 1 .. Len(f[k]) : f[d][i] = f[k][i]
      BY <3>3, <3>4, <3>7
    <3>9. OK(d)
      BY <3>6, <3>8
    <3> QED BY <3>9 DEF d
  <2> HIDE DEF N
  <2>3. m - k \in Nat /\ k + (m - k) = m /\ m <= L
    BY <1>1
  <2>4. m - k \in N
    BY <2>1, <2>2, <2>3, Induct
  <2>5. OK(k + (m - k))
    BY <2>3, <2>4 DEF N
  <2> QED BY <2>3, <2>5
<1> QED BY <1>4, <1>5 DEF L

Ends(ss, k) == Len(FlattenSeq(SubSeq(ss, 1, k)))

\* Where each of the joined sequences begins and ends.
LEMMA Places ==
    ASSUME NEW T, NEW ss \in Seq(Seq(T))
    PROVE  /\ FlattenSeq(ss) \in Seq(T)
           /\ Ends(ss, 0) = 0 /\ Ends(ss, Len(ss)) = Len(FlattenSeq(ss))
           /\ \A k \in 0 .. Len(ss) : Ends(ss, k) \in Nat
           /\ \A k \in 1 .. Len(ss) : Ends(ss, k) = Ends(ss, k - 1) + Len(ss[k])
           /\ \A k \in 0 .. Len(ss) : \A m \in k .. Len(ss) : Ends(ss, k) <= Ends(ss, m)
           /\ \A k \in 1 .. Len(ss) : \A i \in 1 .. Len(ss[k]) :
                FlattenSeq(ss)[Ends(ss, k - 1) + i] = ss[k][i]
<1> DEFINE L == Len(ss)
<1>1. L \in Nat /\ \A i \in 1 .. L : ss[i] \in Seq(T)
  BY LenType, ElementIn
<1>2. PICK f \in [0 .. L -> Seq(T)] : Flattens(f, ss)
  BY FlattenExists
<1>3. f[0] = <<>> /\ \A i \in 1 .. L : f[i] = f[i - 1] \o ss[i]
  BY <1>2 DEF Flattens
<1>4. FlattenSeq(ss) = f[L]
  BY <1>2, FlattenIs
<1>5. ASSUME NEW k \in 0 .. L PROVE FlattenSeq(SubSeq(ss, 1, k)) = f[k]
  <2> DEFINE tt == SubSeq(ss, 1, k)
             g == [i \in 0 .. k |-> f[i]]
  <2>1. tt \in Seq(Seq(T)) /\ Len(tt) = k /\ \A i \in 1 .. k : tt[i] = ss[i]
    <3>1. k \in Nat /\ 1 \in Nat /\ 1 <= k + 1 /\ k <= Len(ss) /\ k + 1 - 1 = k
      BY <1>1
    <3>2. \A i \in 1 .. k : 1 + i - 1 = i
      BY <1>1
    <3> QED BY <3>1, <3>2, Slice
  <2> HIDE DEF tt
  <2>2. \A i \in 0 .. k : i \in 0 .. L /\ g[i] = f[i]
    BY <1>1
  <2>3. g \in [0 .. Len(tt) -> Seq(T)]
    BY <2>1, <2>2
  <2> HIDE DEF g
  <2>4. Flattens(g, tt)
    <3>1. ASSUME NEW i \in 1 .. k PROVE g[i] = g[i - 1] \o tt[i]
      <4>1. i \in 0 .. k /\ i - 1 \in 0 .. k /\ i \in 1 .. L
        BY <1>1
      <4> QED BY <1>3, <2>1, <2>2, <4>1
    <3>2. 0 \in 0 .. k
      BY <1>1
    <3> QED BY <1>3, <2>1, <2>2, <3>1, <3>2 DEF Flattens
  <2>5. FlattenSeq(tt) = g[k]
    BY <2>1, <2>3, <2>4, FlattenIs
  <2>6. k \in 0 .. k
    BY <1>1
  <2> QED BY <2>2, <2>5, <2>6 DEF tt
<1>6. /\ \A k \in 1 .. L : Len(f[k]) = Len(f[k - 1]) + Len(ss[k])
      /\ \A k \in 0 .. L : \A m \in k .. L :
           Len(f[k]) <= Len(f[m]) /\ \A i \in 1 .. Len(f[k]) : f[m][i] = f[k][i]
  BY <1>2, FlattenPrefix
<1> HIDE DEF L
<1>7. \A k \in 0 .. L : Ends(ss, k) = Len(f[k]) /\ f[k] \in Seq(T) /\ Len(f[k]) \in Nat
  BY <1>2, <1>5, LenType DEF Ends
<1>8. \A k \in 1 .. L : k \in 0 .. L /\ k - 1 \in 0 .. L /\ L \in k .. L
  BY <1>1
<1>9. 0 \in 0 .. L /\ L \in 0 .. L
  BY <1>1
<1>10. Ends(ss, 0) = 0 /\ Ends(ss, L) = Len(FlattenSeq(ss)) /\ FlattenSeq(ss) \in Seq(T)
  <2>1. Len(f[0]) = 0
    BY <1>3
  <2> QED BY <1>4, <1>7, <1>9, <2>1
<1>11. \A k \in 1 .. L : Ends(ss, k) = Ends(ss, k - 1) + Len(ss[k])
  BY <1>6, <1>7, <1>8
<1>12. \A k \in 0 .. L : \A m \in k .. L : Ends(ss, k) <= Ends(ss, m)
  <2>1. \A k \in 0 .. L : \A m \in k .. L : m \in 0 .. L
    BY <1>1
  <2> QED BY <1>6, <1>7, <2>1
<1>13. ASSUME NEW k \in 1 .. L, NEW i \in 1 .. Len(ss[k])
       PROVE  FlattenSeq(ss)[Ends(ss, k - 1) + i] = ss[k][i]
  <2> DEFINE a == f[k - 1]
             b == ss[k]
             n == Len(a) + i
  <2>1. a \in Seq(T) /\ b \in Seq(T) /\ f[k] = a \o b /\ Len(a) \in Nat /\ Len(b) \in Nat
    BY <1>1, <1>3, <1>7, <1>8, LenType
  <2>2. Ends(ss, k - 1) = Len(a)
    BY <1>7, <1>8
  <2>3. i \in 1 .. Len(b)
    OBVIOUS
  <2> HIDE DEF a, b
  <2>4. f[k][Len(a) + i] = b[i] /\ Len(f[k]) = Len(a) + Len(b)
    BY <2>1, <2>3, Joined
  <2>5. n \in 1 .. Len(f[k])
    BY <2>1, <2>3, <2>4
  <2>6. f[L][n] = f[k][n]
    <3>1. k \in 0 .. L /\ L \in k .. L
      BY <1>8
    <3> HIDE DEF n
    <3> QED BY <1>6, <2>5, <3>1
  <2> QED BY <1>4, <2>2, <2>4, <2>6 DEF b
<1> QED BY <1>7, <1>10, <1>11, <1>12, <1>13 DEF L

\* How many bytes the first k pairs and the first k values have.
PairsEnd(ps, k) == Len(Pairs(SubSeq(ps, 1, k)))
BodyEnd(s, k)   == Len(Body(SubSeq(s, 1, k)))

\* The front of a sequence.
LEMMA SliceOf ==
    ASSUME NEW T, NEW s \in Seq(T), NEW k \in 0 .. Len(s)
    PROVE  /\ SubSeq(s, 1, k) \in Seq(T) /\ Len(SubSeq(s, 1, k)) = k
           /\ \A i \in 1 .. k : SubSeq(s, 1, k)[i] = s[i]
<1>1. k \in Nat /\ 1 \in Nat /\ 1 <= k + 1 /\ k <= Len(s) /\ k + 1 - 1 = k
  BY LenType
<1>2. \A i \in 1 .. k : 1 + i - 1 = i
  BY <1>1
<1> QED BY <1>1, <1>2, Slice

\* Where the pairs of an object are.
LEMMA PairPlaces ==
    ASSUME NEW ps \in Seq(PairType)
    PROVE  /\ Pairs(ps) \in Text
           /\ PairsEnd(ps, 0) = 0 /\ PairsEnd(ps, Len(ps)) = Len(Pairs(ps))
           /\ \A k \in 0 .. Len(ps) : PairsEnd(ps, k) \in Nat
           /\ \A k \in 1 .. Len(ps) : PairsEnd(ps, k) = PairsEnd(ps, k - 1) + Len(OnePair(ps[k]))
           /\ \A k \in 0 .. Len(ps) : \A m \in k .. Len(ps) : PairsEnd(ps, k) <= PairsEnd(ps, m)
           /\ \A k \in 1 .. Len(ps) : \A i \in 1 .. Len(OnePair(ps[k])) :
                Pairs(ps)[PairsEnd(ps, k - 1) + i] = OnePair(ps[k])[i]
<1> DEFINE L == Len(ps)
           ss == [k \in DOMAIN ps |-> OnePair(ps[k])]
<1>1. L \in Nat /\ DOMAIN ps = 1 .. L /\ \A k \in 1 .. L : ps[k] \in PairType
  BY LenType, ElementIn
<1>2. Pairs(ps) = FlattenSeq(ss)
  BY DEF Pairs, OnePair
<1>3. ASSUME NEW k \in 0 .. L PROVE Pairs(SubSeq(ps, 1, k)) = FlattenSeq(SubSeq(ss, 1, k))
  <2> DEFINE qs == SubSeq(ps, 1, k)
             tt == [j \in DOMAIN qs |-> OnePair(qs[j])]
  <2>1. qs \in Seq(PairType) /\ Len(qs) = k /\ \A i \in 1 .. k : qs[i] = ps[i]
    BY SliceOf
  <2>2. Pairs(qs) = FlattenSeq(tt)
    BY DEF Pairs, OnePair
  <2> HIDE DEF qs
  <2>3. DOMAIN qs = 1 .. k
    BY <2>1
  <2>4. \A i \in 1 .. k : i \in 1 .. L
    BY <1>1
  <2>5. \A j \in 1 .. k : OnePair(qs[j]) = ss[j]
    BY <1>1, <2>1, <2>4
  <2>6. tt = [j \in 1 .. k |-> ss[j]]
    BY <2>3, <2>5
  <2>7. SubSeq(ss, 1, k) = [j \in 1 .. k |-> ss[j]]
    <3> DEFINE T == {OnePair(ps[i]) : i \in 1 .. L}
    <3>1. ss \in Seq(T) /\ Len(ss) = L
      BY <1>1
    <3> HIDE DEF ss, T
    <3>2. SubSeq(ss, 1, k) \in Seq(T) /\ Len(SubSeq(ss, 1, k)) = k /\ \A i \in 1 .. k : SubSeq(ss, 1, k)[i] = ss[i]
      BY <3>1, SliceOf
    <3> DEFINE uu == SubSeq(ss, 1, k)
    <3> HIDE DEF uu
    <3>3. uu = [j \in 1 .. k |-> uu[j]]
      BY <3>2 DEF uu
    <3> QED BY <3>2, <3>3 DEF uu
  <2> QED BY <2>2, <2>6, <2>7 DEF qs
<1>4. ss \in Seq(Seq(Byte)) /\ Len(ss) = L /\ \A k \in 1 .. L : ss[k] = OnePair(ps[k])
  <2>1. \A k \in 1 .. L : OnePair(ps[k]) \in Seq(Byte)
    BY <1>1, OnePairIs DEF Text
  <2> QED BY <1>1, <2>1
<1> HIDE DEF L, ss
<1>5. \A k \in 0 .. L : PairsEnd(ps, k) = Ends(ss, k)
  BY <1>3 DEF PairsEnd, Ends
<1>6. /\ FlattenSeq(ss) \in Seq(Byte)
      /\ Ends(ss, 0) = 0 /\ Ends(ss, L) = Len(FlattenSeq(ss))
      /\ \A k \in 0 .. L : Ends(ss, k) \in Nat
      /\ \A k \in 1 .. L : Ends(ss, k) = Ends(ss, k - 1) + Len(ss[k])
      /\ \A k \in 0 .. L : \A m \in k .. L : Ends(ss, k) <= Ends(ss, m)
      /\ \A k \in 1 .. L : \A i \in 1 .. Len(ss[k]) : FlattenSeq(ss)[Ends(ss, k - 1) + i] = ss[k][i]
  BY <1>4, Places
<1>7. \A k \in 1 .. L : k \in 0 .. L /\ k - 1 \in 0 .. L
  BY <1>1
<1>8. 0 \in 0 .. L /\ L \in 0 .. L /\ \A k \in 0 .. L : \A m \in k .. L : m \in 0 .. L
  BY <1>1
<1>9. \A k \in 1 .. L : PairsEnd(ps, k) = PairsEnd(ps, k - 1) + Len(OnePair(ps[k]))
  BY <1>4, <1>5, <1>6, <1>7
<1>10. \A k \in 0 .. L : \A m \in k .. L : PairsEnd(ps, k) <= PairsEnd(ps, m)
  BY <1>5, <1>6, <1>8
<1>11. \A k \in 1 .. L : \A i \in 1 .. Len(OnePair(ps[k])) :
          Pairs(ps)[PairsEnd(ps, k - 1) + i] = OnePair(ps[k])[i]
  BY <1>2, <1>4, <1>5, <1>6, <1>7
<1>12. Pairs(ps) \in Text /\ PairsEnd(ps, 0) = 0 /\ PairsEnd(ps, L) = Len(Pairs(ps))
       /\ \A k \in 0 .. L : PairsEnd(ps, k) \in Nat
  BY <1>2, <1>5, <1>6, <1>8 DEF Text
<1> QED BY <1>9, <1>10, <1>11, <1>12 DEF L

\* A value that is no object is a scalar; an object has pairs and an end.
LEMMA ValueIs ==
    ASSUME NEW v \in Values
    PROVE  \/ v \in ScalarValues /\ v.type \in Types /\ v.type # "object"
           \/ v.type = "object" /\ v.data \in Seq(PairType)
<1>1. CASE v \in ScalarValues
  <2>1. v.type \in Types
    BY <1>1, ScalarIs
  <2> QED BY <1>1, <2>1 DEF Types
<1>2. CASE v \in ObjectValues
  BY <1>2 DEF ObjectValues, PairType
<1> QED BY <1>1, <1>2 DEF Values

\* The bytes of an object.
LEMMA ObjectIs ==
    ASSUME NEW v, v.type = "object", v.data \in Seq(PairType)
    PROVE  /\ Encoded(v) \in Text /\ Len(Pairs(v.data)) \in Nat
           /\ Len(Encoded(v)) = Len(Pairs(v.data)) + 4
           /\ Encoded(v)[1] = 3
           /\ \A i \in 1 .. Len(Pairs(v.data)) : Encoded(v)[i + 1] = Pairs(v.data)[i]
           /\ Encoded(v)[Len(Pairs(v.data)) + 2] = 0
           /\ Encoded(v)[Len(Pairs(v.data)) + 3] = 0
           /\ Encoded(v)[Len(Pairs(v.data)) + 4] = EndObject
<1> DEFINE h == <<3>>
           q == Pairs(v.data)
           e == <<0, 0, EndObject>>
           x == h \o q
           z == x \o e
<1>1. q \in Seq(Byte) /\ Len(q) \in Nat
  BY PairPlaces, LenType DEF Text
<1>2. Encoded(v) = z
  BY MarkerIs DEF Encoded, Marker
<1>3. h \in Seq(Byte) /\ Len(h) = 1 /\ h[1] = 3
  BY DEF Byte
<1>4. e \in Seq(Byte) /\ Len(e) = 3 /\ e[1] = 0 /\ e[2] = 0 /\ e[3] = EndObject
  BY DEF Byte, EndObject
<1> HIDE DEF h, q, e
<1>5. /\ x \in Seq(Byte) /\ Len(x) = Len(h) + Len(q)
      /\ \A i \in 1 .. Len(h) : x[i] = h[i]
      /\ \A i \in 1 .. Len(q) : x[Len(h) + i] = q[i]
  <2>1. h \in Seq(Byte) /\ q \in Seq(Byte)
    BY <1>1, <1>3
  <2> QED BY ONLY <2>1, Joined
<1> HIDE DEF x
<1>6. /\ z \in Seq(Byte) /\ Len(z) = Len(x) + Len(e)
      /\ \A i \in 1 .. Len(x) : z[i] = x[i]
      /\ \A i \in 1 .. Len(e) : z[Len(x) + i] = e[i]
  <2>1. x \in Seq(Byte) /\ e \in Seq(Byte)
    BY <1>4, <1>5
  <2> QED BY ONLY <2>1, Joined
<1> HIDE DEF z
<1>7. Len(x) = Len(q) + 1 /\ Len(z) = Len(q) + 4
  BY <1>1, <1>3, <1>4, <1>5, <1>6
<1>8. z[1] = 3
  <2>1. 1 \in 1 .. Len(x) /\ 1 \in 1 .. Len(h)
    BY <1>1, <1>3, <1>7
  <2> QED BY <1>3, <1>5, <1>6, <2>1
<1>9. \A i \in 1 .. Len(q) : z[i + 1] = q[i]
  <2>1. \A i \in 1 .. Len(q) : i + 1 \in 1 .. Len(x) /\ Len(h) + i = i + 1
    BY <1>1, <1>3, <1>7
  <2> QED BY <1>5, <1>6, <2>1
<1>10. z[Len(q) + 2] = 0 /\ z[Len(q) + 3] = 0 /\ z[Len(q) + 4] = EndObject
  <2>1. /\ 1 \in 1 .. Len(e) /\ 2 \in 1 .. Len(e) /\ 3 \in 1 .. Len(e)
        /\ Len(x) + 1 = Len(q) + 2 /\ Len(x) + 2 = Len(q) + 3 /\ Len(x) + 3 = Len(q) + 4
    BY <1>1, <1>4, <1>7
  <2> QED BY <1>4, <1>6, <2>1
<1> QED BY <1>1, <1>2, <1>6, <1>7, <1>8, <1>9, <1>10 DEF q, Text

\* The bytes of a value.
LEMMA EncodedIs ==
    ASSUME NEW v \in Values
    PROVE  /\ Encoded(v) \in Text /\ Len(Encoded(v)) \in Nat /\ 1 <= Len(Encoded(v))
           /\ v.type \in DOMAIN Marker /\ Encoded(v)[1] = Marker[v.type]
<1>1. CASE v \in ScalarValues /\ v.type \in Types /\ v.type # "object"
  <2>1. Encoded(v) = Scalar(v)
    BY <1>1 DEF Encoded
  <2>2. Scalar(v) \in Text /\ Len(Scalar(v)) = Len(Payload(v)) + 1 /\ Len(Payload(v)) \in Nat
        /\ Scalar(v)[1] = Marker[v.type]
    BY <1>1, ScalarBytes, PayloadIs
  <2>3. v.type \in DOMAIN Marker
    BY <1>1, MarkerIs DEF Types
  <2> QED BY <2>1, <2>2, <2>3
<1>2. CASE v.type = "object" /\ v.data \in Seq(PairType)
  BY <1>2, ObjectIs, MarkerIs
<1> QED BY <1>1, <1>2, ValueIs

\* Where the values of a packet are.
LEMMA BodyPlaces ==
    ASSUME NEW s \in Seq(Values)
    PROVE  /\ Body(s) \in Text
           /\ BodyEnd(s, 0) = 0 /\ BodyEnd(s, Len(s)) = Len(Body(s))
           /\ \A k \in 0 .. Len(s) : BodyEnd(s, k) \in Nat
           /\ \A k \in 1 .. Len(s) : BodyEnd(s, k) = BodyEnd(s, k - 1) + Len(Encoded(s[k]))
           /\ \A k \in 0 .. Len(s) : \A m \in k .. Len(s) : BodyEnd(s, k) <= BodyEnd(s, m)
           /\ \A k \in 1 .. Len(s) : \A i \in 1 .. Len(Encoded(s[k])) :
                Body(s)[BodyEnd(s, k - 1) + i] = Encoded(s[k])[i]
<1> DEFINE L == Len(s)
           ss == [k \in DOMAIN s |-> Encoded(s[k])]
<1>1. L \in Nat /\ DOMAIN s = 1 .. L /\ \A k \in 1 .. L : s[k] \in Values
  BY LenType, ElementIn
<1>2. Body(s) = FlattenSeq(ss)
  BY DEF Body
<1>3. ASSUME NEW k \in 0 .. L PROVE Body(SubSeq(s, 1, k)) = FlattenSeq(SubSeq(ss, 1, k))
  <2> DEFINE t == SubSeq(s, 1, k)
             tt == [j \in DOMAIN t |-> Encoded(t[j])]
  <2>1. t \in Seq(Values) /\ Len(t) = k /\ \A i \in 1 .. k : t[i] = s[i]
    BY SliceOf
  <2>2. Body(t) = FlattenSeq(tt)
    BY DEF Body
  <2> HIDE DEF t
  <2>3. DOMAIN t = 1 .. k
    BY <2>1
  <2>4. \A i \in 1 .. k : i \in 1 .. L
    BY <1>1
  <2>5. \A j \in 1 .. k : Encoded(t[j]) = ss[j]
    BY <1>1, <2>1, <2>4
  <2>6. tt = [j \in 1 .. k |-> ss[j]]
    BY <2>3, <2>5
  <2>7. SubSeq(ss, 1, k) = [j \in 1 .. k |-> ss[j]]
    <3> DEFINE T == {Encoded(s[i]) : i \in 1 .. L}
    <3>1. ss \in Seq(T) /\ Len(ss) = L
      BY <1>1
    <3> HIDE DEF ss, T
    <3>2. SubSeq(ss, 1, k) \in Seq(T) /\ Len(SubSeq(ss, 1, k)) = k /\ \A i \in 1 .. k : SubSeq(ss, 1, k)[i] = ss[i]
      BY <3>1, SliceOf
    <3> DEFINE uu == SubSeq(ss, 1, k)
    <3> HIDE DEF uu
    <3>3. uu = [j \in 1 .. k |-> uu[j]]
      BY <3>2 DEF uu
    <3> QED BY <3>2, <3>3 DEF uu
  <2> QED BY <2>2, <2>6, <2>7 DEF t
<1>4. ss \in Seq(Seq(Byte)) /\ Len(ss) = L /\ \A k \in 1 .. L : ss[k] = Encoded(s[k])
  <2>1. \A k \in 1 .. L : Encoded(s[k]) \in Seq(Byte)
    BY <1>1, EncodedIs DEF Text
  <2> QED BY <1>1, <2>1
<1> HIDE DEF L, ss
<1>5. \A k \in 0 .. L : BodyEnd(s, k) = Ends(ss, k)
  BY <1>3 DEF BodyEnd, Ends
<1>6. /\ FlattenSeq(ss) \in Seq(Byte)
      /\ Ends(ss, 0) = 0 /\ Ends(ss, L) = Len(FlattenSeq(ss))
      /\ \A k \in 0 .. L : Ends(ss, k) \in Nat
      /\ \A k \in 1 .. L : Ends(ss, k) = Ends(ss, k - 1) + Len(ss[k])
      /\ \A k \in 0 .. L : \A m \in k .. L : Ends(ss, k) <= Ends(ss, m)
      /\ \A k \in 1 .. L : \A i \in 1 .. Len(ss[k]) : FlattenSeq(ss)[Ends(ss, k - 1) + i] = ss[k][i]
  BY <1>4, Places
<1>7. \A k \in 1 .. L : k \in 0 .. L /\ k - 1 \in 0 .. L
  BY <1>1
<1>8. 0 \in 0 .. L /\ L \in 0 .. L /\ \A k \in 0 .. L : \A m \in k .. L : m \in 0 .. L
  BY <1>1
<1>9. \A k \in 1 .. L : BodyEnd(s, k) = BodyEnd(s, k - 1) + Len(Encoded(s[k]))
  BY <1>4, <1>5, <1>6, <1>7
<1>10. \A k \in 0 .. L : \A m \in k .. L : BodyEnd(s, k) <= BodyEnd(s, m)
  BY <1>5, <1>6, <1>8
<1>11. \A k \in 1 .. L : \A i \in 1 .. Len(Encoded(s[k])) :
          Body(s)[BodyEnd(s, k - 1) + i] = Encoded(s[k])[i]
  BY <1>2, <1>4, <1>5, <1>6, <1>7
<1>12. Body(s) \in Text /\ BodyEnd(s, 0) = 0 /\ BodyEnd(s, L) = Len(Body(s))
       /\ \A k \in 0 .. L : BodyEnd(s, k) \in Nat
  BY <1>2, <1>5, <1>6, <1>8 DEF Text
<1> QED BY <1>9, <1>10, <1>11, <1>12 DEF L

-----------------------------------------------------------------------------
(* What the decoder is given.                                              *)

\* The body with the header in it.
LEMMA ChunkedIs ==
    ASSUME NEW b \in Seq(Byte), NEW n \in Nat, n = 0 \/ n < Len(b)
    PROVE  /\ Chunked(b, n) \in Seq(Byte)
           /\ Len(Chunked(b, n)) = Len(b) + IF n = 0 THEN 0 ELSE 1
           /\ \A q \in Nat : q < Len(b) /\ (n = 0 \/ q < n) => Chunked(b, n)[q + 1] = b[q + 1]
           /\ \A q \in Nat : q < Len(b) /\ n # 0 /\ n <= q => Chunked(b, n)[q + 2] = b[q + 1]
           /\ n # 0 => Chunked(b, n)[n + 1] = ChunkHeader
<1>1. CASE n = 0
  BY <1>1 DEF Chunked
<1>2. CASE n # 0
  <2> DEFINE x == SubSeq(b, 1, n)
             h == <<ChunkHeader>>
             y == SubSeq(b, n + 1, Len(b))
             w == x \o h
             z == w \o y
  <2>1. Len(b) \in Nat /\ n < Len(b)
    BY <1>2, LenType
  <2>2. Chunked(b, n) = z
    BY <1>2 DEF Chunked
  <2>3. x \in Seq(Byte) /\ Len(x) = n /\ \A i \in 1 .. n : x[i] = b[i]
    <3>1. n \in 0 .. Len(b)
      BY <2>1
    <3> QED BY <3>1, SliceOf
  <2>4. y \in Seq(Byte) /\ Len(y) = Len(b) - n /\ \A i \in 1 .. Len(b) - n : y[i] = b[n + 1 + i - 1]
    <3>1. n + 1 \in Nat /\ Len(b) \in Nat /\ 1 <= n + 1 /\ n + 1 <= Len(b) + 1 /\ Len(b) <= Len(b)
          /\ Len(b) + 1 - (n + 1) = Len(b) - n
      BY <2>1
    <3> QED BY <3>1, Slice
  <2>5. h \in Seq(Byte) /\ Len(h) = 1 /\ h[1] = ChunkHeader
    BY DEF Byte, ChunkHeader
  <2> HIDE DEF x, h, y
  <2>6. /\ w \in Seq(Byte) /\ Len(w) = Len(x) + Len(h)
        /\ \A i \in 1 .. Len(x) : w[i] = x[i]
        /\ \A i \in 1 .. Len(h) : w[Len(x) + i] = h[i]
    <3>1. x \in Seq(Byte) /\ h \in Seq(Byte)
      BY <2>3, <2>5
    <3> QED BY ONLY <3>1, Joined
  <2> HIDE DEF w
  <2>7. /\ z \in Seq(Byte) /\ Len(z) = Len(w) + Len(y)
        /\ \A i \in 1 .. Len(w) : z[i] = w[i]
        /\ \A i \in 1 .. Len(y) : z[Len(w) + i] = y[i]
    <3>1. w \in Seq(Byte) /\ y \in Seq(Byte)
      BY <2>4, <2>6
    <3> QED BY ONLY <3>1, Joined
  <2> HIDE DEF z
  <2>8. Len(w) = n + 1 /\ Len(z) = Len(b) + 1
    BY <2>1, <2>3, <2>4, <2>5, <2>6, <2>7
  <2>9. ASSUME NEW q \in Nat, q < n PROVE z[q + 1] = b[q + 1]
    <3>1. q + 1 \in 1 .. n /\ q + 1 \in 1 .. Len(w)
      BY <2>8, <2>9
    <3> QED BY <2>3, <2>6, <2>7, <3>1
  <2>10. ASSUME NEW q \in Nat, q < Len(b), n <= q PROVE z[q + 2] = b[q + 1]
    <3> DEFINE i == q - n + 1
    <3>1. i \in 1 .. Len(y) /\ Len(w) + i = q + 2 /\ n + 1 + i - 1 = q + 1
      BY <2>1, <2>4, <2>8, <2>10
    <3> HIDE DEF i
    <3>2. z[Len(w) + i] = y[i] /\ y[i] = b[n + 1 + i - 1]
      BY <2>4, <2>7, <3>1
    <3> QED BY <3>1, <3>2
  <2>11. z[n + 1] = ChunkHeader
    <3>1. 1 \in 1 .. Len(h) /\ n + 1 \in 1 .. Len(w)
      BY <2>5, <2>8
    <3> QED BY <2>3, <2>5, <2>6, <2>7, <3>1
  <2> QED BY <1>2, <2>2, <2>7, <2>8, <2>9, <2>10, <2>11
<1> QED BY <1>1, <1>2

\* The body with the header in it, as it was sent.
Wire == Chunked(Body(sent), cut)

SentInv == /\ sent \in Seq(Values) /\ cut \in Nat
           /\ cut = 0 \/ cut < Len(Body(sent))
           /\ length = Len(Body(sent))

\* What is sent is a sequence of bytes.
LEMMA SentIs ==
    ASSUME SentInv
    PROVE  /\ Body(sent) \in Seq(Byte) /\ Len(Body(sent)) \in Nat
           /\ Wire \in Seq(Byte) /\ Len(Wire) \in Nat
           /\ Len(Wire) = Len(Body(sent)) + IF cut = 0 THEN 0 ELSE 1
<1>1. sent \in Seq(Values) /\ cut \in Nat /\ (cut = 0 \/ cut < Len(Body(sent)))
  BY DEF SentInv
<1>2. Body(sent) \in Seq(Byte)
  BY <1>1, BodyPlaces DEF Text
<1>3. Len(Body(sent)) \in Nat
  BY <1>2, LenType
<1>4. Wire \in Seq(Byte) /\ Len(Wire) = Len(Body(sent)) + IF cut = 0 THEN 0 ELSE 1
  BY <1>1, <1>2, ChunkedIs DEF Wire
<1> QED BY <1>2, <1>3, <1>4, LenType

\* The buffer from place p on is as it was sent.
TailInv(p) == /\ Len(Wire) <= Len(buffer)
              /\ \A q \in Nat : p <= q /\ q < Len(Wire) => At(q) = Wire[q + 1]

\* The state the decoder starts in.
LEMMA InitIs ==
    ASSUME Init
    PROVE  /\ SentInv /\ buffer \in Seq(Byte) /\ TailInv(0)
           /\ pc = "block" /\ processed = 0 /\ byteError = 0
           /\ packet = EmptyPacket /\ object = EmptyObject
<1>1. /\ sent \in Packets /\ cut \in Cuts /\ (cut = 0 \/ cut < Len(Body(sent)))
      /\ length = Len(Body(sent))
      /\ pc = "block" /\ processed = 0 /\ byteError = 0
      /\ packet = EmptyPacket /\ object = EmptyObject
  BY DEF Init
<1>2. PICK rest \in Behind : buffer = Wire \o rest
  BY DEF Init, Wire
<1>3. SentInv
  BY <1>1, AMF0DecoderAssumption DEF SentInv
<1>4. Wire \in Seq(Byte) /\ Len(Wire) \in Nat
  BY <1>3, SentIs
<1>5. rest \in Seq(Byte)
  BY <1>2, AMF0DecoderAssumption DEF Text
<1> DEFINE w == Wire
<1> HIDE DEF w
<1>6. w \in Seq(Byte) /\ buffer = w \o rest /\ Len(w) \in Nat /\ Len(rest) \in Nat
  BY <1>2, <1>4, <1>5, LenType DEF w
<1>7. buffer \in Seq(Byte) /\ Len(buffer) = Len(w) + Len(rest) /\ \A i \in 1 .. Len(w) : buffer[i] = w[i]
  BY <1>5, <1>6, Joined
<1>8. Len(w) <= Len(buffer)
  BY <1>6, <1>7
<1>9. ASSUME NEW q \in Nat, q < Len(w) PROVE At(q) = w[q + 1]
  <2>1. q + 1 \in 1 .. Len(w)
    BY <1>6, <1>9
  <2> QED BY <1>7, <2>1 DEF At
<1> QED BY <1>1, <1>3, <1>7, <1>8, <1>9 DEF TailInv, w

\* The types at the start.
LEMMA TInit == Init => TInv
<1> SUFFICES ASSUME Init PROVE TInv
  OBVIOUS
<1>1. /\ SentInv /\ buffer \in Seq(Byte)
      /\ pc = "block" /\ processed = 0 /\ byteError = 0
      /\ packet = EmptyPacket /\ object = EmptyObject
  BY InitIs
<1>2. length \in Nat
  BY <1>1, SentIs DEF SentInv
<1>3. BytesInv
  BY <1>1, <1>2, LenType DEF BytesInv
<1>4. DOMAIN <<>> = {} /\ \A S : <<>> \in Seq(S)
  OBVIOUS
<1>5. PacketInv
  <2>1. /\ DOMAIN packet = {"number", "boolean", "string", "object"}
        /\ packet.number = <<>> /\ packet.boolean = <<>> /\ packet.string = <<>>
    BY <1>1 DEF EmptyPacket
  <2> QED BY <1>4, <2>1 DEF PacketInv
<1>6. ObjectInv
  <2>1. /\ DOMAIN object = Scalars
        /\ object.number = <<>> /\ object.boolean = <<>> /\ object.string = <<>>
    BY <1>1 DEF EmptyObject, Scalars
  <2> QED BY <1>4, <2>1 DEF ObjectInv, Holds
<1> QED BY <1>3, <1>5, <1>6 DEF TInv

\* Whatever is behind the body and wherever the header is, every value that is
\* decoded is a number of eight bytes, a string of bytes, a boolean or an
\* object of such values, and the decoder is never more than three bytes
\* behind the buffer: BlockDecoder and processObject.
THEOREM TypeCorrect == Spec => []TypeOK
<1>1. TInv /\ [Next]_vars => TInv'
  BY TNext
<1> QED BY <1>1, TInit, TInvTypeOK, PTL DEF Spec

\* What was sent stays what it was.
LEMMA SentNext == SentInv /\ [Next]_vars => SentInv'
<1> SUFFICES ASSUME SentInv, [Next]_vars PROVE SentInv'
  OBVIOUS
<1>1. sent' = sent /\ cut' = cut /\ length' = length
  BY DEF Next, BlockValue, SkipValue, OpenObject, Pair, CloseObject, Finish, Outside, vars
<1> QED BY <1>1 DEF SentInv

-----------------------------------------------------------------------------
(* The command.                                                            *)

\* Where a string and its size are, the string is read.
LEMMA StringHeld ==
    ASSUME buffer \in Seq(Byte), NEW p \in Nat, NEW s \in Strings,
           \A i \in 1 .. Len(s) + 2 : In(p + i - 1) /\ At(p + i - 1) = Prefixed(s)[i]
    PROVE  Readable("string", p) /\ StringLength(p) = Len(s) /\ StringAt(p) = s
<1> DEFINE n == Len(s)
           x == Prefixed(s)
<1>1. /\ s \in Seq(Byte) /\ n \in Nat /\ x[1] \in Nat /\ x[2] \in Nat
      /\ 256 * x[1] + x[2] = n
      /\ \A i \in 1 .. n : x[i + 2] = s[i]
  BY PrefixedIs DEF Text
<1>2. \A i \in 1 .. n + 2 : In(p + i - 1) /\ At(p + i - 1) = x[i]
  OBVIOUS
<1> HIDE DEF x, n
<1>3. In(p) /\ In(p + 1) /\ At(p) = x[1] /\ At(p + 1) = x[2]
  <2>1. 1 \in 1 .. n + 2 /\ 2 \in 1 .. n + 2 /\ p + 1 - 1 = p /\ p + 2 - 1 = p + 1
    BY <1>1
  <2>2. In(p + 1 - 1) /\ At(p + 1 - 1) = x[1] /\ In(p + 2 - 1) /\ At(p + 2 - 1) = x[2]
    BY <1>2, <2>1
  <2> QED BY <2>1, <2>2
<1>4. StringLength(p) = n
  BY <1>1, <1>3 DEF StringLength
<1>5. n > 0 => In(p + 1 + n)
  <2>1. n > 0 => n + 2 \in 1 .. n + 2 /\ p + (n + 2) - 1 = p + 1 + n
    BY <1>1
  <2> QED BY <1>2, <2>1
<1>6. Readable("string", p)
  BY <1>3, <1>4, <1>5 DEF Readable
<1>7. /\ StringAt(p) \in Seq(Byte) /\ Len(StringAt(p)) = n
      /\ \A i \in 1 .. n : StringAt(p)[i] = At(p + 1 + i)
  BY <1>4, <1>6, ReadString DEF Text
<1>8. \A i \in 1 .. n : StringAt(p)[i] = s[i]
  <2>1. \A i \in 1 .. n : i + 2 \in 1 .. n + 2 /\ p + (i + 2) - 1 = p + 1 + i
    BY <1>1
  <2>2. \A i \in 1 .. n : At(p + 1 + i) = x[i + 2]
    BY <1>2, <2>1
  <2> QED BY <1>1, <1>7, <2>2
<1> DEFINE z == StringAt(p)
<1> HIDE DEF z
<1>9. z = s
  <2>1. z \in Seq(Byte) /\ s \in Seq(Byte) /\ Len(z) = Len(s) /\ \A i \in 1 .. Len(s) : z[i] = s[i]
    BY <1>1, <1>7, <1>8 DEF z, n
  <2> QED BY <2>1, SeqEqual
<1> QED BY <1>4, <1>6, <1>9 DEF n, z

CommandSent == sent # <<>> /\ sent[1].type = "string" /\ (cut = 0 \/ cut >= Start(2))

KInv == CommandSent => \/ pc = "block" /\ processed = 0 /\ packet.string = <<>> /\ TailInv(0)
                       \/ packet.string # <<>> /\ packet.string[1] = sent[1].data
                       \/ pc = "outside"

\* The command is the first value in the buffer.
LEMMA CommandAt ==
    ASSUME SentInv, buffer \in Seq(Byte), TailInv(0), CommandSent
    PROVE  length > 0 /\ TypeAt(0) = "string" /\ StringAt(1) = sent[1].data
<1> DEFINE v == sent[1]
           n == Len(v.data)
           B == Body(sent)
           x == Prefixed(v.data)
<1>1. /\ sent \in Seq(Values) /\ sent # <<>> /\ v.type = "string" /\ cut \in Nat
      /\ cut = 0 \/ cut < Len(B)
      /\ (cut = 0 \/ cut >= BodyEnd(sent, 1)) /\ length = Len(B)
  BY DEF SentInv, CommandSent, Start, BodyEnd
<1>2. 1 \in 1 .. Len(sent) /\ 1 \in 0 .. Len(sent) /\ Len(sent) \in 1 .. Len(sent)
  BY <1>1, LenType, EmptySeq
<1>3. v \in ScalarValues /\ v.data \in Strings
  <2>1. v \in Values
    BY <1>1, <1>2, ElementIn
  <2>2. v \in ScalarValues
    BY <1>1, <2>1, ValueIs
  <2> QED BY <1>1, <2>2, ScalarIs
<1>4. /\ B \in Seq(Byte) /\ Len(B) \in Nat /\ Wire \in Seq(Byte)
      /\ Len(Wire) = Len(B) + IF cut = 0 THEN 0 ELSE 1
  BY SentIs
<1>5. n \in Nat /\ Len(x) = n + 2
  BY <1>3, PrefixedIs
<1>6. /\ Len(Encoded(v)) = n + 3 /\ Encoded(v)[1] = 2
      /\ \A i \in 1 .. n + 2 : Encoded(v)[i + 1] = x[i]
  <2>1. Encoded(v) = Scalar(v) /\ Payload(v) = x
    BY <1>1 DEF Encoded, Payload
  <2>2. /\ Len(Scalar(v)) = Len(x) + 1 /\ Scalar(v)[1] = Marker[v.type]
        /\ \A i \in 1 .. Len(x) : Scalar(v)[i + 1] = x[i]
    BY <1>3, <2>1, ScalarBytes
  <2>3. Marker[v.type] = 2
    BY <1>1, MarkerIs
  <2> QED BY <1>5, <2>1, <2>2, <2>3
<1>7. BodyEnd(sent, 1) = n + 3 /\ n + 3 <= Len(B) /\ \A i \in 1 .. n + 3 : B[i] = Encoded(v)[i]
  <2>1. /\ BodyEnd(sent, 0) = 0 /\ BodyEnd(sent, Len(sent)) = Len(B)
        /\ \A k \in 1 .. Len(sent) : BodyEnd(sent, k) = BodyEnd(sent, k - 1) + Len(Encoded(sent[k]))
        /\ \A k \in 0 .. Len(sent) : \A m \in k .. Len(sent) : BodyEnd(sent, k) <= BodyEnd(sent, m)
        /\ \A k \in 1 .. Len(sent) : \A i \in 1 .. Len(Encoded(sent[k])) :
             B[BodyEnd(sent, k - 1) + i] = Encoded(sent[k])[i]
    BY <1>1, BodyPlaces
  <2>2. 1 - 1 = 0
    OBVIOUS
  <2>3. BodyEnd(sent, 1) = n + 3
    BY <1>2, <1>5, <1>6, <2>1, <2>2
  <2>4. n + 3 <= Len(B)
    BY <1>2, <2>1, <2>3
  <2>5. \A i \in 1 .. n + 3 : 0 + i = i
    BY <1>5
  <2>6. ASSUME NEW i \in 1 .. n + 3 PROVE B[i] = Encoded(v)[i]
    <3>1. i \in 1 .. Len(Encoded(sent[1]))
      BY <1>6
    <3>2. B[BodyEnd(sent, 1 - 1) + i] = Encoded(sent[1])[i]
      BY <1>2, <2>1, <3>1
    <3>3. BodyEnd(sent, 1 - 1) + i = i
      BY <2>1, <2>2, <2>5
    <3> QED BY <3>2, <3>3
  <2> QED BY <2>3, <2>4, <2>6
<1> HIDE DEF v, n, B, x
<1>8. ASSUME NEW q \in Nat, q < n + 3 PROVE In(q) /\ At(q) = Encoded(v)[q + 1]
  <2>1. q < Len(B) /\ q < Len(Wire) /\ q + 1 \in 1 .. n + 3 /\ 0 <= q /\ (cut = 0 \/ q < cut)
    BY <1>1, <1>4, <1>5, <1>7, <1>8
  <2>2. Wire[q + 1] = B[q + 1]
    BY <1>1, <1>4, <2>1, ChunkedIs DEF Wire, B
  <2>3. At(q) = Wire[q + 1] /\ Len(Wire) <= Len(buffer)
    BY <2>1 DEF TailInv
  <2>4. In(q)
    BY <1>4, <2>1, <2>3, LenType DEF In
  <2> QED BY <1>7, <2>1, <2>2, <2>3, <2>4
<1>9. length > 0
  BY <1>1, <1>4, <1>5, <1>7
<1>10. TypeAt(0) = "string"
  <2>1. 0 \in Nat /\ 0 < n + 3 /\ 0 + 1 = 1
    BY <1>5
  <2>2. At(0) = 2
    BY <1>6, <1>8, <2>1
  <2> QED BY <2>2, TypeAtIs, MarkerIs
<1>11. StringAt(1) = v.data
  <2>1. ASSUME NEW i \in 1 .. n + 2 PROVE In(1 + i - 1) /\ At(1 + i - 1) = x[i]
    <3>1. i \in Nat /\ i < n + 3 /\ 1 + i - 1 = i
      BY <1>5
    <3>2. In(i) /\ At(i) = Encoded(v)[i + 1]
      BY <1>8, <3>1
    <3> QED BY <1>6, <3>1, <3>2
  <2> QED BY <1>3, <2>1, StringHeld DEF n, x
<1> QED BY <1>9, <1>10, <1>11 DEF v

\* At the start, the command is still to be read.
LEMMA KInit == Init => KInv
<1> SUFFICES ASSUME Init PROVE KInv
  OBVIOUS
<1>1. TailInv(0) /\ pc = "block" /\ processed = 0 /\ packet = EmptyPacket
  BY InitIs
<1> QED BY <1>1 DEF KInv, EmptyPacket

\* Once the command is in the packet, it stays its first string.
LEMMA KNext == TInv /\ SentInv /\ KInv /\ [Next]_vars => KInv'
<1> SUFFICES ASSUME TInv, SentInv, KInv, [Next]_vars PROVE KInv'
  OBVIOUS
<1>1. SUFFICES ASSUME CommandSent' PROVE
        \/ pc' = "block" /\ processed' = 0 /\ packet.string' = <<>> /\ TailInv(0)'
        \/ packet.string' # <<>> /\ packet.string'[1] = sent[1].data
        \/ pc' = "outside"
  <2>1. sent' = sent
    BY DEF Next, BlockValue, SkipValue, OpenObject, Pair, CloseObject, Finish, Outside, vars
  <2> QED BY <2>1 DEF KInv
<1>2. CommandSent
  <2>1. sent' = sent /\ cut' = cut
    BY DEF Next, BlockValue, SkipValue, OpenObject, Pair, CloseObject, Finish, Outside, vars
  <2> QED BY <1>1, <2>1 DEF CommandSent, Start
<1>3. buffer \in Seq(Byte) /\ processed \in Nat /\ PacketInv /\ packet.string \in Seq(Text)
  BY DEF TInv, BytesInv, PacketInv
\* What an action makes of the strings.
<1>4. \/ packet.string' = packet.string /\ (pc = "outside" => pc' = "outside")
      \/ \E x : packet.string' = Append(packet.string, x) /\ BlockValue("string")
                /\ x \in Text /\ x = StringAt(processed + 1)
  <2>1. ASSUME NEW t \in Scalars, BlockValue(t), t # "string"
        PROVE  packet.string' = packet.string /\ pc # "outside"
    <3>1. packet' = [packet EXCEPT ![t] = Append(@, ValueAt(t, processed + 1))] /\ pc = "block"
      BY <2>1 DEF BlockValue, AtValue
    <3> QED BY <2>1, <3>1
  <2>2. ASSUME BlockValue("string")
        PROVE  /\ packet.string' = Append(packet.string, StringAt(processed + 1))
               /\ StringAt(processed + 1) \in Text
    <3>1. /\ packet' = [packet EXCEPT !["string"] = Append(@, ValueAt("string", processed + 1))]
          /\ Readable("string", processed + 1)
      BY <2>2 DEF BlockValue
    <3>2. ValueAt("string", processed + 1) = StringAt(processed + 1)
      BY DEF ValueAt
    <3>3. StringAt(processed + 1) \in Text
      <4>1. processed + 1 \in Nat
        BY <1>3
      <4> QED BY <1>3, <3>1, <4>1, ReadString
    <3>4. packet.string' = Append(packet.string, ValueAt("string", processed + 1))
      BY <1>3, <3>1 DEF PacketInv
    <3> QED BY <3>2, <3>3, <3>4
  <2>3. ASSUME CloseObject PROVE packet.string' = packet.string /\ pc # "outside"
    <3>1. packet' = [packet EXCEPT !.object = Append(@, object)] /\ pc = "object"
      BY <2>3 DEF CloseObject
    <3> QED BY <3>1
  <2>4. ASSUME SkipValue \/ OpenObject \/ Pair \/ Finish \/ Outside \/ UNCHANGED vars
        PROVE  packet.string' = packet.string /\ (pc = "outside" => pc' = "outside")
    BY <2>4 DEF SkipValue, OpenObject, Pair, Finish, Outside, AtValue, AtPair, vars
  <2> QED BY <2>1, <2>2, <2>3, <2>4 DEF Next
<1>5. CASE packet.string # <<>> /\ packet.string[1] = sent[1].data
  <2>1. ASSUME NEW x \in Text, packet.string' = Append(packet.string, x)
        PROVE  packet.string' # <<>> /\ packet.string'[1] = sent[1].data
    <3> DEFINE s == packet.string
    <3> HIDE DEF s
    <3>1. s \in Seq(Text) /\ s # <<>>
      BY <1>3, <1>5 DEF s
    <3>2. Append(s, x) # <<>> /\ Append(s, x)[1] = s[1]
      BY <3>1
    <3> QED BY <1>5, <2>1, <3>2 DEF s
  <2> QED BY <1>4, <1>5, <2>1
<1>6. CASE pc = "outside"
  BY <1>4, <1>6 DEF BlockValue, AtValue
<1>7. CASE pc = "block" /\ processed = 0 /\ packet.string = <<>> /\ TailInv(0)
  <2>1. length > 0 /\ TypeAt(0) = "string" /\ StringAt(1) = sent[1].data
    BY <1>2, <1>3, <1>7, CommandAt
  <2>2. ASSUME BlockValue("string") PROVE packet.string' # <<>> /\ packet.string'[1] = sent[1].data
    <3>1. PICK x \in Text : packet.string' = Append(packet.string, x) /\ x = StringAt(0 + 1)
      <4>1. packet.string' # packet.string
        <5>1. packet' = [packet EXCEPT !["string"] = Append(@, ValueAt("string", processed + 1))]
          BY <2>2 DEF BlockValue
        <5>2. packet.string' = Append(packet.string, ValueAt("string", processed + 1))
          BY <1>3, <5>1 DEF PacketInv
        <5>3. \A y : Append(<<>>, y) # <<>>
          OBVIOUS
        <5> QED BY <1>7, <5>2, <5>3
      <4> QED BY <1>4, <1>7, <4>1
    <3>2. packet.string' = Append(<<>>, x) /\ x = sent[1].data
      <4>1. 0 + 1 = 1
        OBVIOUS
      <4> QED BY <1>7, <2>1, <3>1, <4>1
    <3>3. Append(<<>>, x) # <<>> /\ Append(<<>>, x)[1] = x
      OBVIOUS
    <3> QED BY <3>2, <3>3
  <2>3. ASSUME NEW t \in Scalars, BlockValue(t) PROVE t = "string"
    BY <1>7, <2>1, <2>3 DEF BlockValue
  <2>4. ~SkipValue /\ ~OpenObject /\ ~Finish /\ ~Pair /\ ~CloseObject
    <3>1. TypeAt(processed) = "string" /\ ~(processed >= length)
      <4>1. length \in Nat
        BY DEF TInv, BytesInv
      <4> QED BY <1>7, <2>1, <4>1
    <3>2. ~SkipValue /\ ~OpenObject
      BY <3>1 DEF SkipValue, OpenObject
    <3>3. ~Finish /\ ~Pair /\ ~CloseObject
      BY <1>7, <3>1 DEF Finish, Pair, AtPair, CloseObject
    <3> QED BY <3>2, <3>3
  <2>5. ASSUME Outside PROVE pc' = "outside"
    BY <2>5 DEF Outside
  <2>6. ASSUME UNCHANGED vars
        PROVE  pc' = "block" /\ processed' = 0 /\ packet.string' = <<>> /\ TailInv(0)'
    BY <1>7, <2>6 DEF vars, TailInv, Wire, At
  <2> QED BY <2>2, <2>3, <2>4, <2>5, <2>6 DEF Next
<1> QED BY <1>2, <1>5, <1>6, <1>7 DEF KInv

\* The string a body begins with stays the first string, whatever is decoded
\* from what comes behind it: the command that AMFDataPacket answers.
THEOREM CommandKeptAlways == Spec => []CommandKept
<1>1. Init => TInv /\ SentInv /\ KInv
  BY InitIs, TInit, KInit
<1>2. TInv /\ SentInv /\ KInv /\ [Next]_vars => (TInv /\ SentInv /\ KInv)'
  BY TNext, SentNext, KNext
<1>3. TInv /\ SentInv /\ KInv => CommandKept
  <2> SUFFICES ASSUME SentInv, KInv, pc = "done", CommandSent
               PROVE  packet.string # <<>> /\ packet.string[1] = sent[1].data
    BY DEF CommandKept, CommandSent
  <2>1. ~(pc = "block" /\ processed = 0 /\ packet.string = <<>> /\ TailInv(0)) /\ pc # "outside"
    OBVIOUS
  <2> QED BY <2>1 DEF KInv
<1> QED BY <1>1, <1>2, <1>3, PTL DEF Spec

-----------------------------------------------------------------------------
(* What is expected of the first values and of the first pairs.            *)

Begin(s, k) == SubSeq(s, 1, k)

DataSet(vs) == {vs[k].data : k \in 1 .. Len(vs)}

Gathers(f, vs, t, n) ==
    /\ f[0] = <<>>
    /\ \A k \in 1 .. n : f[k] = IF vs[k].type = t THEN Append(f[k - 1], vs[k].data) ELSE f[k - 1]

\* The values of one type, front by front.
LEMMA GatherExists ==
    ASSUME NEW T, NEW vs \in Seq(T), NEW t
    PROVE  \E f \in [0 .. Len(vs) -> Seq(DataSet(vs))] : Gathers(f, vs, t, Len(vs))
<1> DEFINE L == Len(vs)
           D == DataSet(vs)
           Next1(i, x) == IF i \in 1 .. L /\ vs[i].type = t THEN Append(x, vs[i].data) ELSE x
           F == [p \in Nat \X Seq(D) |-> Next1(p[1], p[2])]
<1>1. L \in Nat /\ \A i \in 1 .. L : vs[i].data \in D
  BY LenType DEF DataSet
<1> HIDE DEF L, D
<1>2. F \in [Nat \X Seq(D) -> Seq(D)] /\ \A i \in Nat, x \in Seq(D) : F[<<i, x>>] = Next1(i, x)
  <2>1. \A i \in Nat, x \in Seq(D) : Next1(i, x) \in Seq(D)
    BY <1>1
  <2> HIDE DEF Next1
  <2>2. F \in [Nat \X Seq(D) -> Seq(D)]
    BY <2>1
  <2>3. \A i \in Nat, x \in Seq(D) : <<i, x>> \in Nat \X Seq(D)
    OBVIOUS
  <2> QED BY <2>2, <2>3
<1> HIDE DEF F
<1>3. PICK f \in [0 .. L -> Seq(D)] : Computes(f, L, <<>>, F)
  <2>1. <<>> \in Seq(D)
    OBVIOUS
  <2> QED BY <1>1, <1>2, <2>1, Computable
<1>4. ASSUME NEW i \in 1 .. L
      PROVE  f[i] = IF vs[i].type = t THEN Append(f[i - 1], vs[i].data) ELSE f[i - 1]
  <2>1. i - 1 \in 0 .. L /\ i \in Nat
    BY <1>1
  <2>2. f[i - 1] \in Seq(D)
    BY <2>1
  <2>3. f[i] = F[<<i, f[i - 1]>>]
    BY <1>3 DEF Computes
  <2>4. f[i] = Next1(i, f[i - 1])
    BY <1>2, <2>1, <2>2, <2>3
  <2> QED BY <2>4
<1>5. f[0] = <<>>
  BY <1>3 DEF Computes
<1> QED BY <1>3, <1>4, <1>5 DEF Gathers, L, D

\* DataOf is the last of them.
LEMMA GatherIs ==
    ASSUME NEW T, NEW vs \in Seq(T), NEW t, NEW f, Gathers(f, vs, t, Len(vs))
    PROVE  DataOf(vs, t) = f[Len(vs)]
<1> DEFINE L == Len(vs)
           Step(g) == [k \in 0 .. L |-> IF k = 0 THEN <<>>
                                        ELSE IF vs[k].type = t THEN Append(g[k - 1], vs[k].data) ELSE g[k - 1]]
           value == CHOOSE g : g = Step(g)
           h == [k \in 0 .. L |-> f[k]]
<1>1. L \in Nat
  BY LenType
<1>2. DataOf(vs, t) = value[L]
  BY DEF DataOf
<1> HIDE DEF L
<1>3. /\ f[0] = <<>>
      /\ \A k \in 1 .. L : f[k] = IF vs[k].type = t THEN Append(f[k - 1], vs[k].data) ELSE f[k - 1]
  BY DEF Gathers, L
<1>4. h = Step(h)
  <2>1. \A k \in 0 .. L : k = 0 \/ (k # 0 /\ k \in 1 .. L /\ k - 1 \in 0 .. L)
    BY <1>1
  <2> QED BY <1>3, <2>1
<1> HIDE DEF Step
<1>5. value = Step(value)
  BY <1>4
<1> HIDE DEF value
<1>6. /\ value[0] = <<>>
      /\ \A k \in 1 .. L : value[k] = IF vs[k].type = t THEN Append(value[k - 1], vs[k].data) ELSE value[k - 1]
  <2>1. 0 \in 0 .. L /\ \A k \in 1 .. L : k \in 0 .. L /\ k # 0
    BY <1>1
  <2> QED BY <1>5, <2>1 DEF Step
<1> DEFINE N == {k \in Nat : k <= L => value[k] = f[k]}
<1>7. 0 \in N
  BY <1>3, <1>6
<1>8. ASSUME NEW k \in Nat, k \in N PROVE k + 1 \in N
  <2>1. SUFFICES ASSUME k + 1 <= L PROVE value[k + 1] = f[k + 1]
    OBVIOUS
  <2>2. k + 1 \in 1 .. L /\ (k + 1) - 1 = k /\ value[k] = f[k]
    BY <1>1, <1>8, <2>1
  <2> QED BY <1>3, <1>6, <2>2
<1> HIDE DEF N
<1>9. L \in N
  BY <1>1, <1>7, <1>8, Induct
<1>10. value[L] = f[L]
  BY <1>1, <1>9 DEF N
<1> QED BY <1>2, <1>10 DEF L

\* One value more.
LEMMA DataFront ==
    ASSUME NEW T, NEW vs \in Seq(T), NEW t
    PROVE  /\ DataOf(Begin(vs, 0), t) = <<>>
           /\ \A k \in 0 .. Len(vs) : DataOf(Begin(vs, k), t) \in Seq(DataSet(vs))
           /\ \A k \in 1 .. Len(vs) :
                DataOf(Begin(vs, k), t) = IF vs[k].type = t
                                          THEN Append(DataOf(Begin(vs, k - 1), t), vs[k].data)
                                          ELSE DataOf(Begin(vs, k - 1), t)
<1> DEFINE L == Len(vs)
<1>1. L \in Nat
  BY LenType
<1>2. PICK f \in [0 .. L -> Seq(DataSet(vs))] : Gathers(f, vs, t, L)
  BY GatherExists
<1> HIDE DEF L
<1>3. ASSUME NEW k \in 0 .. L PROVE DataOf(Begin(vs, k), t) = f[k]
  <2> DEFINE ws == Begin(vs, k)
  <2>1. ws \in Seq(T) /\ Len(ws) = k /\ \A i \in 1 .. k : ws[i] = vs[i]
    BY SliceOf DEF Begin, L
  <2> HIDE DEF ws
  <2>2. \A i \in 1 .. k : i \in 1 .. L
    BY <1>1
  <2>3. Gathers(f, ws, t, k)
    BY <1>2, <2>1, <2>2 DEF Gathers
  <2>4. DataOf(ws, t) = f[k]
    BY <2>1, <2>3, GatherIs
  <2> QED BY <2>4 DEF ws
<1>4. 0 \in 0 .. L /\ \A k \in 1 .. L : k \in 0 .. L /\ k - 1 \in 0 .. L
  BY <1>1
<1>5. \A k \in 0 .. L : DataOf(Begin(vs, k), t) \in Seq(DataSet(vs))
  BY <1>2, <1>3
<1>6. DataOf(Begin(vs, 0), t) = <<>>
  BY <1>2, <1>3, <1>4 DEF Gathers
<1>7. ASSUME NEW k \in 1 .. L
      PROVE  DataOf(Begin(vs, k), t) = IF vs[k].type = t
                                       THEN Append(DataOf(Begin(vs, k - 1), t), vs[k].data)
                                       ELSE DataOf(Begin(vs, k - 1), t)
  <2>1. f[k] = IF vs[k].type = t THEN Append(f[k - 1], vs[k].data) ELSE f[k - 1]
    BY <1>2 DEF Gathers
  <2> QED BY <1>3, <1>4, <2>1
<1> QED BY <1>5, <1>6, <1>7 DEF L

Keys(ps, t) == {ps[k].key : k \in {j \in DOMAIN ps : ps[j].value.type = t}}

\* Pair j is the first with a value of type t under the key.
IsFirst(ps, t, key, j) == /\ ps[j].value.type = t /\ ps[j].key = key
                          /\ \A i \in 1 .. j - 1 : ps[i].value.type = t => ps[i].key # key

\* MapOf by its first pairs.
LEMMA MapOfIs ==
    ASSUME NEW T, NEW ps \in Seq(T), NEW t
    PROVE  /\ MapOf(ps, t) = [key \in Keys(ps, t) |-> MapOf(ps, t)[key]]
           /\ \A j \in 1 .. Len(ps) : ps[j].value.type = t => ps[j].key \in Keys(ps, t)
           /\ \A key \in Keys(ps, t) : \E j \in 1 .. Len(ps) : IsFirst(ps, t, key, j)
           /\ \A key, j : j \in 1 .. Len(ps) /\ IsFirst(ps, t, key, j)
                => key \in Keys(ps, t) /\ MapOf(ps, t)[key] = ps[j].value.data
<1> DEFINE L == Len(ps)
           chosen(key) == CHOOSE j \in DOMAIN ps : IsFirst(ps, t, key, j)
<1>1. L \in Nat /\ DOMAIN ps = 1 .. L
  BY LenType
<1>2. MapOf(ps, t) = [key \in Keys(ps, t) |-> ps[chosen(key)].value.data]
  BY DEF MapOf, Keys, IsFirst
<1> HIDE DEF L
<1>3. \A j \in 1 .. L : ps[j].value.type = t => ps[j].key \in Keys(ps, t)
  BY <1>1 DEF Keys
<1>4. ASSUME NEW key \in Keys(ps, t) PROVE \E j \in 1 .. L : IsFirst(ps, t, key, j)
  <2> DEFINE S == {j \in 1 .. L : ps[j].value.type = t /\ ps[j].key = key}
  <2>1. S \subseteq Nat /\ S # {}
    BY <1>1, <1>4 DEF Keys
  <2>2. PICK j \in S : \A i \in S : j <= i
    BY <2>1, Least
  <2>3. j \in 1 .. L /\ ps[j].value.type = t /\ ps[j].key = key
    OBVIOUS
  <2>4. ASSUME NEW i \in 1 .. j - 1, ps[i].value.type = t PROVE ps[i].key # key
    <3>1. i \in 1 .. L /\ ~(j <= i)
      BY <1>1, <2>3
    <3> QED BY <2>2, <2>4, <3>1
  <2> QED BY <2>3, <2>4 DEF IsFirst
<1>5. ASSUME NEW key, NEW j \in 1 .. L, IsFirst(ps, t, key, j)
      PROVE  key \in Keys(ps, t) /\ MapOf(ps, t)[key] = ps[j].value.data
  <2>1. key \in Keys(ps, t)
    BY <1>3, <1>5 DEF IsFirst
  <2>2. chosen(key) \in 1 .. L /\ IsFirst(ps, t, key, chosen(key))
    BY <1>1, <1>5
  <2> DEFINE c == chosen(key)
  <2> HIDE DEF c
  <2>3. c \in 1 .. L /\ IsFirst(ps, t, key, c)
    BY <2>2 DEF c
  <2>4. c = j
    <3>1. ASSUME NEW a \in 1 .. L, NEW b \in 1 .. L, IsFirst(ps, t, key, a), IsFirst(ps, t, key, b)
          PROVE  ~(a < b)
      <4>1. a < b => a \in 1 .. b - 1
        BY <1>1
      <4> QED BY <3>1, <4>1 DEF IsFirst
    <3>2. ~(c < j) /\ ~(j < c)
      BY <1>5, <2>3, <3>1
    <3> QED BY <1>1, <2>3, <3>2
  <2> QED BY <1>2, <2>1, <2>4 DEF c
<1>6. MapOf(ps, t) = [key \in Keys(ps, t) |-> MapOf(ps, t)[key]]
  BY <1>2
<1> QED BY <1>3, <1>4, <1>5, <1>6 DEF L

\* One pair more.
LEMMA MapFront ==
    ASSUME NEW T, NEW ps \in Seq(T), NEW t
    PROVE  /\ MapOf(Begin(ps, 0), t) = <<>>
           /\ \A j \in 1 .. Len(ps) :
                MapOf(Begin(ps, j), t) = IF ps[j].value.type = t
                                         THEN Insert(MapOf(Begin(ps, j - 1), t), ps[j].key, ps[j].value.data)
                                         ELSE MapOf(Begin(ps, j - 1), t)
<1>1. Len(ps) \in Nat
  BY LenType
<1>2. MapOf(Begin(ps, 0), t) = <<>>
  <2>1. 0 \in 0 .. Len(ps)
    BY <1>1
  <2>2. Begin(ps, 0) \in Seq(T) /\ Len(Begin(ps, 0)) = 0
    BY <2>1, SliceOf DEF Begin
  <2>3. Keys(Begin(ps, 0), t) = {}
    BY <2>2 DEF Keys
  <2>4. MapOf(Begin(ps, 0), t) = [key \in {} |-> MapOf(Begin(ps, 0), t)[key]]
    BY <2>2, <2>3, MapOfIs
  <2> DEFINE m == MapOf(Begin(ps, 0), t)
  <2> HIDE DEF m
  <2>5. m = [key \in {} |-> m[key]]
    BY <2>4 DEF m
  <2>6. m = <<>>
    BY <2>5
  <2> QED BY <2>6 DEF m
<1>3. ASSUME NEW j \in 1 .. Len(ps)
      PROVE  MapOf(Begin(ps, j), t) = IF ps[j].value.type = t
                                      THEN Insert(MapOf(Begin(ps, j - 1), t), ps[j].key, ps[j].value.data)
                                      ELSE MapOf(Begin(ps, j - 1), t)
  <2> DEFINE as == Begin(ps, j - 1)
             bs == Begin(ps, j)
             M == MapOf(as, t)
             N == MapOf(bs, t)
             key == ps[j].key
             new == ps[j].value.data
             hit == ps[j].value.type = t
  <2>1. as \in Seq(T) /\ Len(as) = j - 1 /\ \A i \in 1 .. j - 1 : as[i] = ps[i]
    <3>1. j - 1 \in 0 .. Len(ps)
      BY <1>1
    <3> QED BY <3>1, SliceOf DEF Begin
  <2>2. bs \in Seq(T) /\ Len(bs) = j /\ \A i \in 1 .. j : bs[i] = ps[i]
    <3>1. j \in 0 .. Len(ps)
      BY <1>1
    <3> QED BY <3>1, SliceOf DEF Begin
  <2> HIDE DEF as, bs
  <2>3. j \in Nat /\ j \in 1 .. j /\ j - 1 \in Nat
        /\ \A i \in 1 .. j : i = j \/ i \in 1 .. j - 1
    BY <1>1
  <2>4. ASSUME NEW i \in 1 .. j - 1 PROVE i \in 1 .. j /\ i # j /\ bs[i] = as[i]
    <3>1. i \in 1 .. j /\ i # j
      BY <2>3
    <3>2. as[i] = ps[i]
      BY <2>1
    <3>3. bs[i] = ps[i]
      BY <2>2, <3>1
    <3> QED BY <3>1, <3>2, <3>3
  <2>5. \A k, i : i \in 1 .. j - 1 => (IsFirst(as, t, k, i) <=> IsFirst(bs, t, k, i))
    <3>1. ASSUME NEW k, NEW i \in 1 .. j - 1 PROVE IsFirst(as, t, k, i) <=> IsFirst(bs, t, k, i)
      <4>1. \A h \in 1 .. i - 1 : h \in 1 .. j - 1
        BY <2>3
      <4> QED BY <2>4, <4>1 DEF IsFirst
    <3> QED BY <3>1
  <2>6. /\ M = [k \in Keys(as, t) |-> M[k]]
        /\ \A i \in 1 .. j - 1 : as[i].value.type = t => as[i].key \in Keys(as, t)
        /\ \A k \in Keys(as, t) : \E i \in 1 .. j - 1 : IsFirst(as, t, k, i)
        /\ \A k, i : i \in 1 .. j - 1 /\ IsFirst(as, t, k, i)
             => k \in Keys(as, t) /\ M[k] = as[i].value.data
    <3>1. as \in Seq(T) /\ Len(as) = j - 1
      BY <2>1
    <3>2. /\ MapOf(as, t) = [k \in Keys(as, t) |-> MapOf(as, t)[k]]
          /\ \A i \in 1 .. Len(as) : as[i].value.type = t => as[i].key \in Keys(as, t)
          /\ \A k \in Keys(as, t) : \E i \in 1 .. Len(as) : IsFirst(as, t, k, i)
          /\ \A k, i : i \in 1 .. Len(as) /\ IsFirst(as, t, k, i)
               => k \in Keys(as, t) /\ MapOf(as, t)[k] = as[i].value.data
      BY ONLY <3>1, MapOfIs
    <3> QED BY ONLY <3>1, <3>2 DEF M
  <2>7. /\ N = [k \in Keys(bs, t) |-> N[k]]
        /\ \A i \in 1 .. j : bs[i].value.type = t => bs[i].key \in Keys(bs, t)
        /\ \A k \in Keys(bs, t) : \E i \in 1 .. j : IsFirst(bs, t, k, i)
        /\ \A k, i : i \in 1 .. j /\ IsFirst(bs, t, k, i)
             => k \in Keys(bs, t) /\ N[k] = bs[i].value.data
    BY <2>2, MapOfIs
  <2> HIDE DEF M, N
  <2>8. bs[j] = ps[j]
    BY <2>2, <2>3
  <2>9. ASSUME NEW k \in Keys(as, t) PROVE k \in Keys(bs, t) /\ N[k] = M[k]
    <3>1. PICK i \in 1 .. j - 1 : IsFirst(as, t, k, i)
      BY <2>6
    <3>2. i \in 1 .. j /\ IsFirst(bs, t, k, i) /\ bs[i] = as[i]
      BY <2>4, <2>5, <3>1
    <3>3. M[k] = as[i].value.data
      BY <2>6, <3>1
    <3>4. k \in Keys(bs, t) /\ N[k] = bs[i].value.data
      BY <2>7, <3>2
    <3> QED BY <3>2, <3>3, <3>4
  <2>10. DOMAIN M = Keys(as, t)
    BY <2>6
  <2>11. CASE hit
    <3>1. key \in Keys(bs, t)
      BY <2>3, <2>7, <2>8, <2>11
    <3>2. ASSUME key \notin Keys(as, t) PROVE N[key] = new
      <4>1. IsFirst(bs, t, key, j)
        BY <2>4, <2>6, <2>8, <2>11, <3>2 DEF IsFirst
      <4> QED BY <2>3, <2>7, <2>8, <4>1
    <3>3. ASSUME NEW k \in Keys(bs, t), k # key PROVE k \in Keys(as, t)
      <4>1. PICK i \in 1 .. j : IsFirst(bs, t, k, i)
        BY <2>7
      <4>2. i # j
        BY <2>8, <3>3, <4>1 DEF IsFirst
      <4> QED BY <2>3, <2>5, <2>6, <4>1, <4>2
    <3>4. Keys(bs, t) = Keys(as, t) \cup {key}
      BY <2>9, <3>1, <3>3
    <3>5. \A k \in Keys(as, t) \cup {key} : N[k] = IF k \in Keys(as, t) THEN M[k] ELSE new
      BY <2>9, <3>2
    <3> HIDE DEF key, new
    <3>6. N = [k \in Keys(as, t) \cup {key} |-> IF k \in Keys(as, t) THEN M[k] ELSE new]
      <4>1. N = [k \in Keys(as, t) \cup {key} |-> N[k]]
        BY <2>7, <3>4
      <4> QED BY <3>5, <4>1
    <3>7. N = Insert(M, key, new)
      BY <2>10, <3>6 DEF Insert
    <3> QED BY <2>11, <3>7 DEF M, N, as, bs, key, new
  <2>12. CASE ~hit
    <3>1. ASSUME NEW k \in Keys(bs, t) PROVE k \in Keys(as, t)
      <4>1. PICK i \in 1 .. j : IsFirst(bs, t, k, i)
        BY <2>7
      <4>2. i # j
        BY <2>8, <2>12, <4>1 DEF IsFirst
      <4> QED BY <2>3, <2>5, <2>6, <4>1, <4>2
    <3>2. Keys(bs, t) = Keys(as, t)
      BY <2>9, <3>1
    <3>3. N = M
      BY <2>6, <2>7, <2>9, <3>2
    <3> QED BY <2>12, <3>3 DEF M, N, as, bs
  <2> QED BY <2>11, <2>12
<1> QED BY <1>2, <1>3

-----------------------------------------------------------------------------
(* Where the chunk header is, in a body the decoder is made for.           *)

\* Where pair j of value k ends.
ObjectEnd(k, j) == BodyEnd(sent, k - 1) + 1 + PairsEnd(sent[k].data, j)

\* Where the values that were sent are.
LEMMA ValuePlaces ==
    ASSUME SentInv
    PROVE  /\ Len(sent) \in Nat /\ \A k \in 1 .. Len(sent) : sent[k] \in Values
           /\ BodyEnd(sent, 0) = 0 /\ BodyEnd(sent, Len(sent)) = length
           /\ \A k \in 0 .. Len(sent) : BodyEnd(sent, k) \in Nat /\ BodyEnd(sent, k) <= length
           /\ \A k \in 1 .. Len(sent) :
                /\ BodyEnd(sent, k - 1) \in Nat /\ BodyEnd(sent, k - 1) < BodyEnd(sent, k)
                /\ BodyEnd(sent, k) = BodyEnd(sent, k - 1) + Len(Encoded(sent[k]))
                /\ \A i \in 1 .. Len(Encoded(sent[k])) :
                     Body(sent)[BodyEnd(sent, k - 1) + i] = Encoded(sent[k])[i]
           /\ \A k \in 0 .. Len(sent) : \A m \in k .. Len(sent) : BodyEnd(sent, k) <= BodyEnd(sent, m)
<1>1. sent \in Seq(Values) /\ length = Len(Body(sent))
  BY DEF SentInv
<1>2. Len(sent) \in Nat /\ \A k \in 1 .. Len(sent) : sent[k] \in Values
  BY <1>1, LenType, ElementIn
<1>3. /\ BodyEnd(sent, 0) = 0 /\ BodyEnd(sent, Len(sent)) = length
      /\ \A k \in 0 .. Len(sent) : BodyEnd(sent, k) \in Nat
      /\ \A k \in 1 .. Len(sent) : BodyEnd(sent, k) = BodyEnd(sent, k - 1) + Len(Encoded(sent[k]))
      /\ \A k \in 0 .. Len(sent) : \A m \in k .. Len(sent) : BodyEnd(sent, k) <= BodyEnd(sent, m)
      /\ \A k \in 1 .. Len(sent) : \A i \in 1 .. Len(Encoded(sent[k])) :
           Body(sent)[BodyEnd(sent, k - 1) + i] = Encoded(sent[k])[i]
  BY <1>1, BodyPlaces
<1>4. ASSUME NEW k \in 0 .. Len(sent) PROVE BodyEnd(sent, k) <= length
  <2>1. Len(sent) \in k .. Len(sent)
    BY <1>2
  <2> QED BY <1>3, <2>1
<1>5. ASSUME NEW k \in 1 .. Len(sent)
      PROVE  BodyEnd(sent, k - 1) \in Nat /\ BodyEnd(sent, k - 1) < BodyEnd(sent, k)
  <2>1. k - 1 \in 0 .. Len(sent)
    BY <1>2
  <2>2. BodyEnd(sent, k - 1) \in Nat /\ BodyEnd(sent, k) = BodyEnd(sent, k - 1) + Len(Encoded(sent[k]))
    BY <1>3, <2>1
  <2>3. Len(Encoded(sent[k])) \in Nat /\ 1 <= Len(Encoded(sent[k]))
    BY <1>2, EncodedIs
  <2> QED BY <2>2, <2>3
<1> QED BY <1>2, <1>3, <1>4, <1>5

\* The pairs of object k are where ObjectEnd says.
PairsThere(k, ps) == \A j \in 1 .. Len(ps) : \A i \in 1 .. Len(OnePair(ps[j])) :
                       Body(sent)[ObjectEnd(k, j - 1) + i] = OnePair(ps[j])[i]

\* Where the pairs of an object are in the body, and what is around them.
LEMMA ObjectPlaces ==
    ASSUME SentInv, NEW k \in 1 .. Len(sent), sent[k].type = "object", NEW ps, ps = sent[k].data
    PROVE  /\ ps \in Seq(PairType) /\ Len(ps) \in Nat
           /\ \A j \in 0 .. Len(ps) : ObjectEnd(k, j) \in Nat
           /\ \A j \in 0 .. Len(ps) : \A m \in j .. Len(ps) : ObjectEnd(k, j) <= ObjectEnd(k, m)
           /\ ObjectEnd(k, 0) = BodyEnd(sent, k - 1) + 1
           /\ BodyEnd(sent, k) = ObjectEnd(k, Len(ps)) + 3
           /\ Body(sent)[BodyEnd(sent, k - 1) + 1] = 3
           /\ \A j \in 1 .. Len(ps) : ObjectEnd(k, j) = ObjectEnd(k, j - 1) + Len(OnePair(ps[j]))
           /\ PairsThere(k, ps)
           /\ Body(sent)[ObjectEnd(k, Len(ps)) + 1] = 0
           /\ Body(sent)[ObjectEnd(k, Len(ps)) + 2] = 0
           /\ Body(sent)[ObjectEnd(k, Len(ps)) + 3] = EndObject
<1> DEFINE v == sent[k]
           E == BodyEnd(sent, k - 1)
           Q == Pairs(ps)
           B == Body(sent)
           C == Encoded(v)
           L == Len(ps)
           O(j) == E + 1 + PairsEnd(ps, j)
<1>1. v \in Values /\ E \in Nat /\ BodyEnd(sent, k) = E + Len(C) /\ \A i \in 1 .. Len(C) : B[E + i] = C[i]
  BY ValuePlaces
<1>2. ps \in Seq(PairType) /\ ps = v.data /\ v.type = "object"
  BY <1>1, ValueIs DEF Types
<1>3. /\ Len(Q) \in Nat /\ Len(C) = Len(Q) + 4 /\ C[1] = 3
      /\ \A i \in 1 .. Len(Q) : C[i + 1] = Q[i]
      /\ C[Len(Q) + 2] = 0 /\ C[Len(Q) + 3] = 0 /\ C[Len(Q) + 4] = EndObject
  BY <1>2, ObjectIs
<1>4. /\ PairsEnd(ps, 0) = 0 /\ PairsEnd(ps, L) = Len(Q)
      /\ \A j \in 0 .. L : PairsEnd(ps, j) \in Nat
      /\ \A j \in 1 .. L : PairsEnd(ps, j) = PairsEnd(ps, j - 1) + Len(OnePair(ps[j]))
      /\ \A j \in 0 .. L : \A m \in j .. L : PairsEnd(ps, j) <= PairsEnd(ps, m)
      /\ \A j \in 1 .. L : \A i \in 1 .. Len(OnePair(ps[j])) :
           Q[PairsEnd(ps, j - 1) + i] = OnePair(ps[j])[i]
  BY <1>2, PairPlaces
<1>5. L \in Nat /\ \A j \in 1 .. L : ps[j] \in PairType
  BY <1>2, LenType, ElementIn
<1>6. \A j : ObjectEnd(k, j) = O(j)
  BY DEF ObjectEnd
<1> HIDE DEF v, E, Q, B, C, L
<1>7. \A j \in 0 .. L : O(j) \in Nat
  BY <1>1, <1>4
<1>8. \A j \in 0 .. L : \A m \in j .. L : O(j) <= O(m)
  <2>1. \A j \in 0 .. L : \A m \in j .. L : m \in 0 .. L
    BY <1>5
  <2> QED BY <1>1, <1>4, <2>1
<1>9. O(0) = E + 1 /\ BodyEnd(sent, k) = O(L) + 3
  BY <1>1, <1>3, <1>4
<1>10. B[E + 1] = 3
  <2>1. 1 \in 1 .. Len(C)
    BY <1>3
  <2> QED BY <1>1, <1>3, <2>1
<1>11. ASSUME NEW j \in 1 .. L PROVE O(j) = O(j - 1) + Len(OnePair(ps[j]))
  <2>1. j - 1 \in 0 .. L
    BY <1>5
  <2>2. Len(OnePair(ps[j])) \in Nat
    BY <1>5, OnePairIs, LenType DEF Text
  <2>3. PairsEnd(ps, j - 1) \in Nat /\ PairsEnd(ps, j) = PairsEnd(ps, j - 1) + Len(OnePair(ps[j]))
    BY <1>4, <2>1
  <2> QED BY ONLY <1>1, <2>2, <2>3
<1>12. ASSUME NEW j \in 1 .. L, NEW i \in 1 .. Len(OnePair(ps[j]))
       PROVE  B[O(j - 1) + i] = OnePair(ps[j])[i]
  <2> DEFINE a == PairsEnd(ps, j - 1)
             b == PairsEnd(ps, j)
             n == Len(OnePair(ps[j]))
             m == a + i
  <2>1. a \in Nat /\ b = a + n /\ b <= Len(Q) /\ n \in Nat
    <3>1. j - 1 \in 0 .. L /\ j \in 0 .. L /\ L \in j .. L
      BY <1>5
    <3>2. n \in Nat
      BY <1>5, OnePairIs, LenType DEF Text
    <3> QED BY <1>4, <3>1, <3>2
  <2>2. Q[m] = OnePair(ps[j])[i]
    BY <1>4
  <2>3. i \in 1 .. n
    OBVIOUS
  <2> HIDE DEF a, b, n
  <2>4. m \in 1 .. Len(Q) /\ m + 1 \in 1 .. Len(C) /\ O(j - 1) + i = E + (m + 1)
    <3>1. O(j - 1) = E + 1 + a
      BY DEF a
    <3> QED BY <1>1, <1>3, <2>1, <2>3, <3>1
  <2> HIDE DEF m
  <2>5. B[E + (m + 1)] = C[m + 1] /\ C[m + 1] = Q[m]
    BY <1>1, <1>3, <2>4
  <2> QED BY <2>2, <2>4, <2>5
<1>13. B[O(L) + 1] = 0 /\ B[O(L) + 2] = 0 /\ B[O(L) + 3] = EndObject
  <2> DEFINE q == Len(Q)
  <2>1. q + 2 \in 1 .. Len(C) /\ q + 3 \in 1 .. Len(C) /\ q + 4 \in 1 .. Len(C)
    BY <1>3
  <2>2. O(L) + 1 = E + (q + 2) /\ O(L) + 2 = E + (q + 3) /\ O(L) + 3 = E + (q + 4)
    BY <1>1, <1>3, <1>4
  <2>3. B[E + (q + 2)] = C[q + 2] /\ B[E + (q + 3)] = C[q + 3] /\ B[E + (q + 4)] = C[q + 4]
    BY <1>1, <2>1
  <2> QED BY <1>3, <2>2, <2>3
<1> HIDE DEF O
<1>14. PairsThere(k, ps)
  BY <1>6, <1>12 DEF PairsThere, B, L
<1> QED BY <1>2, <1>5, <1>6, <1>7, <1>8, <1>9, <1>10, <1>11, <1>13, <1>14 DEF E, B, L

\* No header between the bytes from e to f, nor where they begin or end.
Clean(e, f) == cut = 0 \/ cut < e \/ cut > f

\* The header is in pair j of value k.
CutInPair(k, j) == /\ sent[k].type = "object" /\ j \in 1 .. Len(sent[k].data)
                   /\ sent[k].data[j].value.type = "number"
                   /\ cut = ObjectEnd(k, j) - 1

\* The header is in value k: before the last byte of a number.
CutIn(k) == \/ sent[k].type = "number" /\ cut = BodyEnd(sent, k) - 1
            \/ \E j \in 1 .. Len(sent[k].data) : CutInPair(k, j)

\* A number has eight bytes behind its type.
LEMMA NumberSize ==
    ASSUME NEW v \in ScalarValues, v.type = "number"
    PROVE  Payload(v) = v.data /\ v.data \in Seq(Byte) /\ Len(v.data) = 8 /\ Len(Scalar(v)) = 9
<1>1. Payload(v) = v.data /\ v.data \in Seq(Byte) /\ Len(v.data) = 8
  BY PayloadIs, ScalarIs DEF Text
<1>2. Len(Scalar(v)) = Len(Payload(v)) + 1
  BY ScalarBytes
<1>3. Len(Payload(v)) = 8
  BY <1>1
<1>4. Len(Scalar(v)) = 9
  BY <1>2, <1>3
<1> QED BY <1>1, <1>4

\* A header that is foreseen is in a value.
LEMMA CutIs ==
    ASSUME SentInv, cut \in {0} \cup NumberCuts, cut # 0
    PROVE  \E k \in 1 .. Len(sent) : CutIn(k)
<1>1. DOMAIN sent = 1 .. Len(sent)
  BY LenType DEF SentInv
<1>2. ASSUME NEW k \in DOMAIN sent, sent[k].type = "number", cut = Start(k) + 8
      PROVE  \E m \in 1 .. Len(sent) : CutIn(m)
  <2>1. k \in 1 .. Len(sent) /\ Start(k) = BodyEnd(sent, k - 1)
    BY <1>1 DEF Start, BodyEnd
  <2>2. /\ sent[k] \in Values /\ BodyEnd(sent, k - 1) \in Nat
        /\ BodyEnd(sent, k) = BodyEnd(sent, k - 1) + Len(Encoded(sent[k]))
    BY <2>1, ValuePlaces
  <2>3. Len(Encoded(sent[k])) = 9
    <3>1. sent[k] \in ScalarValues
      BY <1>2, <2>2, ValueIs
    <3>2. Encoded(sent[k]) = Scalar(sent[k])
      BY <1>2 DEF Encoded
    <3> QED BY <1>2, <3>1, <3>2, NumberSize
  <2>4. cut = BodyEnd(sent, k) - 1
    BY <1>2, <2>1, <2>2, <2>3
  <2> QED BY <1>2, <2>1, <2>4 DEF CutIn
<1>3. ASSUME NEW k \in DOMAIN sent, sent[k].type = "object",
             NEW j \in DOMAIN sent[k].data, sent[k].data[j].value.type = "number",
             cut = Start(k) + 1 + Len(Pairs(SubSeq(sent[k].data, 1, j - 1)))
                     + 2 + Len(sent[k].data[j].key) + 8
      PROVE  \E m \in 1 .. Len(sent) : CutIn(m)
  <2> DEFINE ps == sent[k].data
             n == Len(ps[j].key)
  <2>1. k \in 1 .. Len(sent)
    BY <1>1
  <2>2. cut = ObjectEnd(k, j - 1) + 2 + n + 8
    BY <1>3 DEF Start, BodyEnd, PairsEnd, ObjectEnd
  <2>3. /\ ps \in Seq(PairType) /\ Len(ps) \in Nat
        /\ \A i \in 0 .. Len(ps) : ObjectEnd(k, i) \in Nat
        /\ \A i \in 1 .. Len(ps) : ObjectEnd(k, i) = ObjectEnd(k, i - 1) + Len(OnePair(ps[i]))
    BY <1>3, <2>1, ObjectPlaces
  <2>4. j \in 1 .. Len(ps) /\ j - 1 \in 0 .. Len(ps) /\ ps[j] \in PairType
    <3>1. j \in 1 .. Len(ps)
      BY <2>3
    <3>2. ps[j] \in PairType
      BY <2>3, <3>1, ElementIn
    <3>3. j - 1 \in 0 .. Len(ps)
      BY <2>3, <3>1
    <3> QED BY <3>1, <3>2, <3>3
  <2>5. n \in Nat /\ Len(OnePair(ps[j])) = n + 11
    <3>1. /\ n \in Nat /\ Len(OnePair(ps[j])) = n + 3 + Len(Payload(ps[j].value))
          /\ ps[j].value \in ScalarValues
      BY <2>4, OnePairIs DEF PairType
    <3>2. Len(Payload(ps[j].value)) = 8
      BY <1>3, <3>1, NumberSize
    <3> QED BY <3>1, <3>2
  <2>6. ObjectEnd(k, j) = ObjectEnd(k, j - 1) + Len(OnePair(ps[j])) /\ ObjectEnd(k, j - 1) \in Nat
    BY <2>3, <2>4
  <2> HIDE DEF n
  <2>7. cut = ObjectEnd(k, j) - 1
    BY <2>2, <2>5, <2>6
  <2>8. CutInPair(k, j)
    BY <1>3, <2>4, <2>7 DEF CutInPair
  <2> QED BY <2>1, <2>4, <2>8 DEF CutIn
<1> QED BY <1>2, <1>3 DEF NumberCuts

\* In a pair the header comes behind the key and the type of the value.
LEMMA CutInPairIs ==
    ASSUME SentInv, NEW m \in 1 .. Len(sent), NEW j, CutInPair(m, j)
    PROVE  /\ ObjectEnd(m, j - 1) < cut /\ cut < ObjectEnd(m, j)
           /\ BodyEnd(sent, m - 1) < cut /\ cut < BodyEnd(sent, m)
<1> DEFINE ps == sent[m].data
<1>1. j \in 1 .. Len(ps)
  BY DEF CutInPair
<1>2. sent[m].type = "object" /\ cut = ObjectEnd(m, j) - 1 /\ ps[j].value.type = "number"
  BY DEF CutInPair
<1>3. /\ ps \in Seq(PairType) /\ Len(ps) \in Nat
      /\ \A i \in 0 .. Len(ps) : ObjectEnd(m, i) \in Nat
      /\ \A i \in 0 .. Len(ps) : \A h \in i .. Len(ps) : ObjectEnd(m, i) <= ObjectEnd(m, h)
      /\ ObjectEnd(m, 0) = BodyEnd(sent, m - 1) + 1
      /\ BodyEnd(sent, m) = ObjectEnd(m, Len(ps)) + 3
      /\ \A i \in 1 .. Len(ps) : ObjectEnd(m, i) = ObjectEnd(m, i - 1) + Len(OnePair(ps[i]))
  <2>1. m \in 1 .. Len(sent) /\ sent[m].type = "object" /\ ps = sent[m].data
    BY <1>2
  <2> HIDE DEF ps
  <2>2. /\ ps \in Seq(PairType) /\ Len(ps) \in Nat
        /\ \A i \in 0 .. Len(ps) : ObjectEnd(m, i) \in Nat
        /\ \A i \in 0 .. Len(ps) : \A h \in i .. Len(ps) : ObjectEnd(m, i) <= ObjectEnd(m, h)
    BY ONLY SentInv, <2>1, ObjectPlaces
  <2>3. /\ ObjectEnd(m, 0) = BodyEnd(sent, m - 1) + 1
        /\ BodyEnd(sent, m) = ObjectEnd(m, Len(ps)) + 3
        /\ \A i \in 1 .. Len(ps) : ObjectEnd(m, i) = ObjectEnd(m, i - 1) + Len(OnePair(ps[i]))
    BY ONLY SentInv, <2>1, ObjectPlaces
  <2> QED BY ONLY <2>2, <2>3
<1>4. ps[j] \in PairType
  BY <1>1, <1>3, ElementIn
<1>5. Len(OnePair(ps[j])) \in Nat /\ Len(OnePair(ps[j])) >= 11
  <2>1. /\ Len(ps[j].key) \in Nat /\ ps[j].value \in ScalarValues
        /\ Len(OnePair(ps[j])) = Len(ps[j].key) + 3 + Len(Payload(ps[j].value))
    BY <1>4, OnePairIs DEF PairType
  <2>2. Len(Payload(ps[j].value)) = 8
    BY <1>2, <2>1, NumberSize
  <2> QED BY <2>1, <2>2
<1>6. j - 1 \in 0 .. Len(ps) /\ j \in 0 .. Len(ps) /\ j - 1 \in 0 .. Len(ps) /\ Len(ps) \in j .. Len(ps)
      /\ 0 \in 0 .. Len(ps)
  BY <1>1, <1>3
<1>7. ObjectEnd(m, 0) <= ObjectEnd(m, j - 1) /\ ObjectEnd(m, j) <= ObjectEnd(m, Len(ps))
  <2>1. j - 1 \in 0 .. Len(ps)
    BY <1>6
  <2> QED BY <1>3, <1>6, <2>1
<1>8. ObjectEnd(m, j) = ObjectEnd(m, j - 1) + Len(OnePair(ps[j])) /\ ObjectEnd(m, j - 1) \in Nat
      /\ ObjectEnd(m, Len(ps)) \in Nat /\ BodyEnd(sent, m - 1) \in Nat
  <2>1. BodyEnd(sent, m - 1) \in Nat
    BY ValuePlaces
  <2>2. ObjectEnd(m, j) = ObjectEnd(m, j - 1) + Len(OnePair(ps[j]))
    BY <1>1, <1>3
  <2>3. ObjectEnd(m, j - 1) \in Nat /\ ObjectEnd(m, Len(ps)) \in Nat
    <3>1. \A i \in 0 .. Len(ps) : ObjectEnd(m, i) \in Nat
      BY <1>3
    <3>2. Len(ps) \in 0 .. Len(ps)
      BY <1>3
    <3> QED BY <1>6, <3>1, <3>2
  <2> QED BY <2>1, <2>2, <2>3
<1> DEFINE a == ObjectEnd(m, j - 1)
           b == ObjectEnd(m, j)
           c == ObjectEnd(m, Len(ps))
           d == BodyEnd(sent, m - 1)
           n == Len(OnePair(ps[j]))
<1>9. /\ d \in Nat /\ a \in Nat /\ c \in Nat /\ n \in Nat /\ n >= 11 /\ b = a + n
      /\ d + 1 <= a /\ b <= c /\ BodyEnd(sent, m) = c + 3 /\ cut = b - 1
  BY <1>2, <1>3, <1>5, <1>7, <1>8
<1> HIDE DEF a, b, c, d, n
<1>10. a < cut /\ cut < b /\ d < cut /\ cut < BodyEnd(sent, m)
  BY <1>9
<1> QED BY <1>10 DEF a, b, d


\* Of a value: it is clear of the header, or the header is in it.
LEMMA CutOfValue ==
    ASSUME SentInv, cut \in {0} \cup NumberCuts, NEW k \in 1 .. Len(sent)
    PROVE  Clean(BodyEnd(sent, k - 1), BodyEnd(sent, k)) \/ CutIn(k)
<1>1. SUFFICES ASSUME cut # 0 PROVE Clean(BodyEnd(sent, k - 1), BodyEnd(sent, k)) \/ CutIn(k)
  BY DEF Clean
<1>2. PICK m \in 1 .. Len(sent) : CutIn(m)
  BY <1>1, CutIs
<1>3. /\ Len(sent) \in Nat /\ \A i \in 0 .. Len(sent) : BodyEnd(sent, i) \in Nat
      /\ \A i \in 1 .. Len(sent) : sent[i] \in Values /\ BodyEnd(sent, i - 1) \in Nat
      /\ \A i \in 1 .. Len(sent) : BodyEnd(sent, i) = BodyEnd(sent, i - 1) + Len(Encoded(sent[i]))
      /\ \A i \in 0 .. Len(sent) : \A j \in i .. Len(sent) : BodyEnd(sent, i) <= BodyEnd(sent, j)
  BY ValuePlaces
<1>4. cut \in Nat
  BY DEF SentInv
<1>5. BodyEnd(sent, m - 1) < cut /\ cut < BodyEnd(sent, m)
  <2>1. CASE sent[m].type = "number" /\ cut = BodyEnd(sent, m) - 1
    <3>1. sent[m] \in ScalarValues
      BY <1>3, <2>1, ValueIs
    <3>2. Len(Encoded(sent[m])) = 9
      <4>1. Encoded(sent[m]) = Scalar(sent[m])
        BY <2>1 DEF Encoded
      <4> QED BY <2>1, <3>1, <4>1, NumberSize
    <3>3. BodyEnd(sent, m) = BodyEnd(sent, m - 1) + 9 /\ BodyEnd(sent, m - 1) \in Nat
      BY <1>3, <3>2
    <3> QED BY <2>1, <3>3
  <2>2. CASE \E j \in 1 .. Len(sent[m].data) : CutInPair(m, j)
    <3>1. PICK j \in 1 .. Len(sent[m].data) : CutInPair(m, j)
      BY <2>2
    <3> QED BY <3>1, CutInPairIs
  <2> QED BY <1>2, <2>1, <2>2 DEF CutIn
<1>6. CASE m = k
  BY <1>2, <1>6
<1>7. CASE m < k
  <2>1. m \in 0 .. Len(sent) /\ k - 1 \in m .. Len(sent)
    BY <1>3, <1>7
  <2>2. BodyEnd(sent, m) <= BodyEnd(sent, k - 1)
    BY <1>3, <2>1
  <2>3. BodyEnd(sent, m) \in Nat /\ BodyEnd(sent, k - 1) \in Nat
    BY <1>3, <2>1
  <2>4. cut < BodyEnd(sent, k - 1)
    BY <1>4, <1>5, <2>2, <2>3
  <2> QED BY <2>4 DEF Clean
<1>8. CASE k < m
  <2>1. k \in 0 .. Len(sent) /\ m - 1 \in k .. Len(sent)
    BY <1>3, <1>8
  <2>2. BodyEnd(sent, k) <= BodyEnd(sent, m - 1)
    BY <1>3, <2>1
  <2>3. BodyEnd(sent, k) \in Nat /\ BodyEnd(sent, m - 1) \in Nat
    BY <1>3, <2>1
  <2>4. cut > BodyEnd(sent, k)
    BY <1>4, <1>5, <2>2, <2>3
  <2> QED BY <2>4 DEF Clean
<1> QED BY <1>3, <1>6, <1>7, <1>8

\* Of the parts of an object.
LEMMA CutOfPair ==
    ASSUME SentInv, cut \in {0} \cup NumberCuts, NEW k \in 1 .. Len(sent), sent[k].type = "object",
           NEW ps, ps = sent[k].data
    PROVE  /\ Clean(BodyEnd(sent, k - 1), ObjectEnd(k, 0))
           /\ Clean(ObjectEnd(k, Len(ps)), BodyEnd(sent, k))
           /\ \A j \in 1 .. Len(ps) : Clean(ObjectEnd(k, j - 1), ObjectEnd(k, j)) \/ CutInPair(k, j)
<1>1. /\ BodyEnd(sent, k - 1) \in Nat /\ BodyEnd(sent, k) \in Nat /\ cut \in Nat
  BY ValuePlaces DEF SentInv
<1>2. /\ Len(ps) \in Nat
      /\ \A i \in 0 .. Len(ps) : ObjectEnd(k, i) \in Nat
      /\ \A i \in 0 .. Len(ps) : \A h \in i .. Len(ps) : ObjectEnd(k, i) <= ObjectEnd(k, h)
      /\ ObjectEnd(k, 0) = BodyEnd(sent, k - 1) + 1
      /\ BodyEnd(sent, k) = ObjectEnd(k, Len(ps)) + 3
  BY ObjectPlaces
<1>3. 0 \in 0 .. Len(ps) /\ Len(ps) \in 0 .. Len(ps) /\ \A j \in 1 .. Len(ps) : j \in 0 .. Len(ps) /\ j - 1 \in 0 .. Len(ps)
  BY <1>2
<1>4. \A j \in 0 .. Len(ps) : ObjectEnd(k, 0) <= ObjectEnd(k, j) /\ ObjectEnd(k, j) <= ObjectEnd(k, Len(ps))
  <2>1. \A j \in 0 .. Len(ps) : j \in 0 .. Len(ps) /\ Len(ps) \in j .. Len(ps)
    BY <1>2
  <2> QED BY <1>2, <1>3, <2>1
<1>5. CASE Clean(BodyEnd(sent, k - 1), BodyEnd(sent, k))
  <2>1. ASSUME NEW e \in Nat, NEW f \in Nat, BodyEnd(sent, k - 1) <= e, f <= BodyEnd(sent, k) PROVE Clean(e, f)
    BY <1>1, <1>5, <2>1 DEF Clean
  <2>2. ASSUME NEW j \in 0 .. Len(ps)
        PROVE  /\ ObjectEnd(k, j) \in Nat
               /\ BodyEnd(sent, k - 1) <= ObjectEnd(k, j) /\ ObjectEnd(k, j) <= BodyEnd(sent, k)
    <3>1. ObjectEnd(k, j) \in Nat /\ ObjectEnd(k, Len(ps)) \in Nat
      BY <1>2, <1>3
    <3>2. ObjectEnd(k, 0) <= ObjectEnd(k, j) /\ ObjectEnd(k, j) <= ObjectEnd(k, Len(ps))
      BY <1>4
    <3>3. ObjectEnd(k, 0) = BodyEnd(sent, k - 1) + 1 /\ BodyEnd(sent, k) = ObjectEnd(k, Len(ps)) + 3
      BY <1>2
    <3> DEFINE a == ObjectEnd(k, j)
               c == ObjectEnd(k, Len(ps))
               d == BodyEnd(sent, k - 1)
    <3>4. a \in Nat /\ c \in Nat /\ d \in Nat /\ d + 1 <= a /\ a <= c /\ BodyEnd(sent, k) = c + 3
      BY <1>1, <3>1, <3>2, <3>3
    <3> HIDE DEF a, c, d
    <3>5. a \in Nat /\ d <= a /\ a <= BodyEnd(sent, k)
      BY <3>4
    <3> QED BY <3>5 DEF a, d
  <2>3. BodyEnd(sent, k - 1) <= BodyEnd(sent, k - 1) /\ BodyEnd(sent, k) <= BodyEnd(sent, k)
    BY <1>1
  <2> QED BY <1>1, <1>3, <2>1, <2>2, <2>3
<1>6. CASE CutIn(k)
  <2>1. PICK m \in 1 .. Len(ps) : CutInPair(k, m)
    BY <1>6 DEF CutIn
  <2>2. ObjectEnd(k, m - 1) < cut /\ cut < ObjectEnd(k, m)
    BY <2>1, CutInPairIs
  <2>3. m \in 0 .. Len(ps) /\ m - 1 \in 0 .. Len(ps)
    BY <1>3
  <2> DEFINE O(j) == ObjectEnd(k, j)
  <2> HIDE DEF O
  <2>4. /\ \A i \in 0 .. Len(ps) : O(i) \in Nat /\ O(0) <= O(i) /\ O(i) <= O(Len(ps))
        /\ \A i \in 0 .. Len(ps) : \A h \in i .. Len(ps) : O(i) <= O(h)
        /\ O(0) = BodyEnd(sent, k - 1) + 1 /\ BodyEnd(sent, k) = O(Len(ps)) + 3
        /\ O(m - 1) < cut /\ cut < O(m)
    BY <1>2, <1>4, <2>2 DEF O
  <2>5. cut > O(0) /\ cut < O(Len(ps))
    <3>1. /\ O(0) \in Nat /\ O(Len(ps)) \in Nat /\ O(m) \in Nat /\ O(m - 1) \in Nat
          /\ O(0) <= O(m - 1) /\ O(m) <= O(Len(ps))
      BY <1>3, <2>3, <2>4
    <3> QED BY <1>1, <2>4, <3>1
  <2>6. ASSUME NEW j \in 1 .. Len(ps) PROVE (cut < O(j - 1) \/ cut > O(j)) \/ j = m
    <3>1. j \in 0 .. Len(ps) /\ j - 1 \in 0 .. Len(ps) /\ O(j) \in Nat /\ O(j - 1) \in Nat
          /\ O(m) \in Nat /\ O(m - 1) \in Nat
      BY <1>3, <2>3, <2>4
    <3>2. CASE j < m
      <4>1. m - 1 \in j .. Len(ps)
        BY <1>2, <3>2
      <4>2. O(j) <= O(m - 1)
        BY <2>4, <3>1, <4>1
      <4> QED BY <1>1, <2>4, <3>1, <4>2
    <3>3. CASE m < j
      <4>1. j - 1 \in m .. Len(ps)
        BY <1>2, <3>3
      <4>2. O(m) <= O(j - 1)
        BY <2>3, <2>4, <4>1
      <4> QED BY <1>1, <2>4, <3>1, <4>2
    <3> QED BY <1>2, <3>2, <3>3
  <2> QED BY <2>1, <2>5, <2>6 DEF Clean, O
<1> QED BY <1>5, <1>6, CutOfValue

-----------------------------------------------------------------------------
(* What the decoder finds in such a body.                                  *)

\* The headers before place e of the body.
Passed(e) == IF cut # 0 /\ cut < e THEN 1 ELSE 0

\* Bytes of the buffer from place p on, and bytes with a header before the last.
Plain(x, p) == \A i \in 1 .. Len(x) : In(p + i - 1) /\ At(p + i - 1) = x[i]
Split(x, p) == /\ \A i \in 1 .. Len(x) - 1 : In(p + i - 1) /\ At(p + i - 1) = x[i]
               /\ In(p + Len(x) - 1) /\ At(p + Len(x) - 1) = ChunkHeader
               /\ In(p + Len(x)) /\ At(p + Len(x)) = x[Len(x)]

\* A byte of the body, in the buffer.
LEMMA ByteAt ==
    ASSUME SentInv, buffer \in Seq(Byte), NEW p \in Nat, TailInv(p), NEW q \in Nat, q < length
    PROVE  /\ (cut = 0 \/ q < cut) /\ p <= q => In(q) /\ At(q) = Body(sent)[q + 1]
           /\ cut # 0 /\ cut <= q /\ p <= q + 1 => In(q + 1) /\ At(q + 1) = Body(sent)[q + 1]
           /\ cut # 0 /\ p <= cut => In(cut) /\ At(cut) = ChunkHeader
<1> DEFINE B == Body(sent)
<1>1. cut \in Nat /\ (cut = 0 \/ cut < Len(B)) /\ length = Len(B)
  BY DEF SentInv
<1>2. /\ B \in Seq(Byte) /\ Len(B) \in Nat /\ Len(Wire) \in Nat
      /\ Len(Wire) = Len(B) + IF cut = 0 THEN 0 ELSE 1
  BY SentIs
<1>3. /\ \A r \in Nat : r < Len(B) /\ (cut = 0 \/ r < cut) => Wire[r + 1] = B[r + 1]
      /\ \A r \in Nat : r < Len(B) /\ cut # 0 /\ cut <= r => Wire[r + 2] = B[r + 1]
      /\ cut # 0 => Wire[cut + 1] = ChunkHeader
  BY <1>1, <1>2, ChunkedIs DEF Wire
<1>4. ASSUME NEW r \in Nat, p <= r, r < Len(Wire) PROVE In(r) /\ At(r) = Wire[r + 1]
  <2>1. Len(Wire) <= Len(buffer) /\ At(r) = Wire[r + 1]
    BY <1>4 DEF TailInv
  <2> QED BY <1>2, <1>4, <2>1, LenType DEF In
<1> HIDE DEF B
<1>5. ASSUME cut = 0 \/ q < cut, p <= q PROVE In(q) /\ At(q) = B[q + 1]
  <2>1. q < Len(B) /\ q < Len(Wire)
    BY <1>1, <1>2
  <2> QED BY <1>3, <1>4, <1>5, <2>1
<1>6. ASSUME cut # 0, cut <= q, p <= q + 1 PROVE In(q + 1) /\ At(q + 1) = B[q + 1]
  <2>1. q < Len(B) /\ q + 1 < Len(Wire) /\ q + 1 \in Nat /\ (q + 1) + 1 = q + 2
    BY <1>1, <1>2, <1>6
  <2>2. In(q + 1) /\ At(q + 1) = Wire[(q + 1) + 1]
    BY <1>4, <1>6, <2>1
  <2>3. Wire[q + 2] = B[q + 1]
    BY <1>3, <1>6, <2>1
  <2> QED BY <2>1, <2>2, <2>3
<1>7. ASSUME cut # 0, p <= cut PROVE In(cut) /\ At(cut) = ChunkHeader
  <2>1. cut < Len(Wire)
    BY <1>1, <1>2, <1>7
  <2> QED BY <1>1, <1>3, <1>4, <1>7, <2>1
<1> QED BY <1>5, <1>6, <1>7 DEF B

\* A part of the body is in the buffer behind the headers before it.
LEMMA PartAt ==
    ASSUME SentInv, buffer \in Seq(Byte), NEW x \in Seq(Byte), NEW e \in Nat,
           e + Len(x) <= length, \A i \in 1 .. Len(x) : Body(sent)[e + i] = x[i],
           TailInv(e + Passed(e))
    PROVE  /\ Clean(e, e + Len(x)) => Plain(x, e + Passed(e)) /\ Passed(e + Len(x)) = Passed(e)
           /\ cut = e + Len(x) - 1 /\ e < cut
                => Split(x, e) /\ Passed(e) = 0 /\ Passed(e + Len(x)) = 1
<1> DEFINE n == Len(x)
           B == Body(sent)
           p == e + Passed(e)
<1>1. n \in Nat /\ cut \in Nat /\ length \in Nat
  BY LenType, SentIs DEF SentInv
<1>2. p \in Nat
  BY DEF Passed
<1>3. \A q \in Nat : q < length =>
           /\ (cut = 0 \/ q < cut) /\ p <= q => In(q) /\ At(q) = B[q + 1]
           /\ cut # 0 /\ cut <= q /\ p <= q + 1 => In(q + 1) /\ At(q + 1) = B[q + 1]
           /\ cut # 0 /\ p <= cut => In(cut) /\ At(cut) = ChunkHeader
  BY <1>2, ByteAt
<1>4. e + n <= length /\ \A i \in 1 .. n : B[e + i] = x[i]
  OBVIOUS
<1> HIDE DEF n, B, p
<1>5. ASSUME Clean(e, e + n) PROVE Plain(x, p) /\ Passed(e + n) = Passed(e)
  <2>1. Passed(e + n) = Passed(e)
    BY <1>1, <1>5 DEF Clean, Passed
  <2>2. ASSUME NEW i \in 1 .. n PROVE In(p + i - 1) /\ At(p + i - 1) = x[i]
    <3> DEFINE q == e + i - 1
    <3>1. q \in Nat /\ q < length /\ q + 1 = e + i
      BY <1>1, <1>4
    <3>2. CASE cut = 0 \/ cut > e + n
      <4>1. p = e /\ p + i - 1 = q
        BY <1>1, <3>2 DEF p, Passed
      <4>2. (cut = 0 \/ q < cut) /\ p <= q
        BY <1>1, <3>2, <4>1
      <4> HIDE DEF q
      <4>3. In(q) /\ At(q) = B[q + 1]
        BY <1>3, <3>1, <4>2
      <4> QED BY <1>4, <3>1, <4>1, <4>3
    <3>3. CASE cut # 0 /\ cut < e
      <4>1. p = e + 1 /\ p + i - 1 = q + 1
        BY <1>1, <3>3 DEF p, Passed
      <4>2. cut # 0 /\ cut <= q /\ p <= q + 1
        BY <1>1, <3>3, <4>1
      <4> HIDE DEF q
      <4>3. In(q + 1) /\ At(q + 1) = B[q + 1]
        BY <1>3, <3>1, <4>2
      <4> QED BY <1>4, <3>1, <4>1, <4>3
    <3> QED BY <1>5, <3>2, <3>3 DEF Clean
  <2> QED BY <2>1, <2>2 DEF Plain, n
<1>6. ASSUME cut = e + n - 1, e < cut PROVE Split(x, e) /\ Passed(e) = 0 /\ Passed(e + n) = 1
  <2>1. Passed(e) = 0 /\ Passed(e + n) = 1 /\ cut # 0
    BY <1>1, <1>6 DEF Passed
  <2>2. p = e
    BY <2>1 DEF p
  <2>3. ASSUME NEW i \in 1 .. n - 1 PROVE In(e + i - 1) /\ At(e + i - 1) = x[i]
    <3> DEFINE q == e + i - 1
    <3>1. q \in Nat /\ q < length /\ q + 1 = e + i /\ q < cut /\ p <= q /\ i \in 1 .. n
      BY <1>1, <1>4, <1>6, <2>2
    <3> HIDE DEF q
    <3>2. In(q) /\ At(q) = B[q + 1]
      BY <1>3, <3>1
    <3>3. In(q) /\ At(q) = x[i]
      BY <1>4, <3>1, <3>2
    <3> QED BY <3>3 DEF q
  <2> DEFINE r == e + n - 1
  <2>4. r \in Nat /\ r < length /\ r + 1 = e + n /\ cut <= r /\ p <= r + 1 /\ p <= cut /\ n \in 1 .. n
        /\ r = cut
    BY <1>1, <1>4, <1>6, <2>2
  <2> HIDE DEF r
  <2>5. In(r + 1) /\ At(r + 1) = B[r + 1] /\ In(cut) /\ At(cut) = ChunkHeader
    BY <1>3, <2>1, <2>4
  <2>6. In(e + n) /\ At(e + n) = x[n]
    BY <1>4, <2>4, <2>5
  <2>7. In(e + n - 1) /\ At(e + n - 1) = ChunkHeader
    BY <2>4, <2>5 DEF r
  <2> QED BY <2>1, <2>3, <2>6, <2>7 DEF Split, n
<1> QED BY <1>5, <1>6 DEF n, p

\* A number that does not end like a header is read, without a header in it
\* and with one.
LEMMA NumberHeld ==
    ASSUME buffer \in Seq(Byte), NEW p \in Nat, NEW x \in Seq(Byte), Len(x) = 8, x[8] # ChunkHeader
    PROVE  /\ Plain(x, p) => Readable("number", p) /\ DoubleAt(p) = x /\ Extra("number", p) = 0
           /\ Split(x, p) => Readable("number", p) /\ DoubleAt(p) = x /\ Extra("number", p) = 1
<1>1. ASSUME NEW h \in {0, 1},
             \A i \in 1 .. 7 : In(p + i - 1) /\ At(p + i - 1) = x[i],
             HeaderInside(p) <=> h = 1, In(p + 7),
             In(p + 7 + h), At(p + 7 + h) = x[8]
      PROVE  Readable("number", p) /\ DoubleAt(p) = x /\ Extra("number", p) = h
  <2>1. p + 7 + 1 = p + 8 /\ (h = 1 => p + 7 + h = p + 8)
    OBVIOUS
  <2>2. Readable("number", p)
    BY <1>1, <2>1 DEF Readable
  <2>3. Extra("number", p) = h
    BY <1>1 DEF Extra
  <2> DEFINE z == DoubleAt(p)
  <2>4. /\ z \in Seq(Byte) /\ Len(z) = 8
        /\ \A i \in 1 .. 7 : z[i] = At(p + i - 1)
        /\ z[8] = At(p + 7 + IF HeaderInside(p) THEN 1 ELSE 0)
    BY <2>2, ReadNumber DEF Doubles, Text
  <2>5. (IF HeaderInside(p) THEN 1 ELSE 0) = h
    BY <1>1
  <2> HIDE DEF z
  <2>6. z[8] = x[8]
    BY <1>1, <2>4, <2>5
  <2>7. \A i \in 1 .. 7 : z[i] = x[i]
    BY <1>1, <2>4
  <2>8. \A i \in 1 .. 8 : z[i] = x[i]
    <3>1. \A i \in 1 .. 8 : i = 8 \/ i \in 1 .. 7
      OBVIOUS
    <3> QED BY <2>6, <2>7, <3>1
  <2>9. z = x
    <3>1. z \in Seq(Byte) /\ Len(z) = Len(x) /\ \A i \in 1 .. Len(z) : z[i] = x[i]
      BY <2>4, <2>8
    <3> QED BY <3>1, SeqEqual
  <2> QED BY <2>2, <2>3, <2>9 DEF z
<1>2. ASSUME Plain(x, p) PROVE Readable("number", p) /\ DoubleAt(p) = x /\ Extra("number", p) = 0
  <2>1. \A i \in 1 .. 8 : In(p + i - 1) /\ At(p + i - 1) = x[i]
    BY <1>2 DEF Plain
  <2>2. \A i \in 1 .. 7 : i \in 1 .. 8
    OBVIOUS
  <2>3. 8 \in 1 .. 8 /\ p + 8 - 1 = p + 7 /\ p + 7 + 0 = p + 7 /\ 0 # 1 /\ 0 \in {0, 1}
    OBVIOUS
  <2>4. In(p + 7) /\ At(p + 7) = x[8]
    BY <2>1, <2>3
  <2>5. ~HeaderInside(p)
    BY <2>4 DEF HeaderInside
  <2>6. In(p + 7 + 0) /\ At(p + 7 + 0) = x[8]
    BY <2>3, <2>4
  <2>7. \A i \in 1 .. 7 : In(p + i - 1) /\ At(p + i - 1) = x[i]
    BY <2>1, <2>2
  <2>8. HeaderInside(p) <=> 0 = 1
    BY <2>5
  <2> QED BY <1>1, <2>3, <2>4, <2>6, <2>7, <2>8
<1>3. ASSUME Split(x, p) PROVE Readable("number", p) /\ DoubleAt(p) = x /\ Extra("number", p) = 1
  <2>1. /\ \A i \in 1 .. 8 - 1 : In(p + i - 1) /\ At(p + i - 1) = x[i]
        /\ In(p + 8 - 1) /\ At(p + 8 - 1) = ChunkHeader
        /\ In(p + 8) /\ At(p + 8) = x[8]
    BY <1>3 DEF Split
  <2>2. 8 - 1 = 7 /\ p + 8 - 1 = p + 7 /\ p + 7 + 1 = p + 8 /\ 1 \in {0, 1}
    OBVIOUS
  <2>3. HeaderInside(p) <=> 1 = 1
    BY <2>1, <2>2 DEF HeaderInside
  <2>4. \A i \in 1 .. 7 : In(p + i - 1) /\ At(p + i - 1) = x[i]
    BY <2>1, <2>2
  <2>5. In(p + 7) /\ In(p + 7 + 1) /\ At(p + 7 + 1) = x[8]
    BY <2>1, <2>2
  <2> QED BY <1>1, <2>2, <2>3, <2>4, <2>5
<1> QED BY <1>2, <1>3

\* So is every scalar, but for null and the values of booleans.
LEMMA ScalarHeld ==
    ASSUME buffer \in Seq(Byte), NEW p \in Nat, NEW v \in ScalarValues,
           ~Mistaken(v), v.type # "null", v.type = "boolean" => In(p + 1),
           NEW h \in {0, 1},
           h = 0 => Plain(Payload(v), p),
           h = 1 => v.type = "number" /\ Split(Payload(v), p)
    PROVE  /\ Readable(v.type, p) /\ Extra(v.type, p) = h /\ Size(v.type, p) = Len(Payload(v))
           /\ v.type \in {"number", "string"} => ValueAt(v.type, p) = v.data
<1>1. CASE v.type = "number"
  <2>1. Payload(v) = v.data /\ v.data \in Seq(Byte) /\ Len(v.data) = 8
    BY <1>1, NumberSize
  <2>2. v.data[8] # ChunkHeader
    BY <1>1 DEF Mistaken
  <2>3. Readable("number", p) /\ DoubleAt(p) = v.data /\ Extra("number", p) = h
    BY <2>1, <2>2, NumberHeld
  <2>4. Size("number", p) = 8 /\ ValueAt("number", p) = DoubleAt(p)
    BY DEF Size, ValueAt
  <2>5. Len(Payload(v)) = 8
    BY <2>1
  <2> QED BY <1>1, <2>3, <2>4, <2>5
<1>2. CASE v.type = "string"
  <2>1. Payload(v) = Prefixed(v.data) /\ v.data \in Strings /\ h = 0
    BY <1>2, ScalarIs DEF Payload
  <2>2. Len(Prefixed(v.data)) = Len(v.data) + 2
    BY <2>1, PrefixedIs
  <2>3. \A i \in 1 .. Len(v.data) + 2 : In(p + i - 1) /\ At(p + i - 1) = Prefixed(v.data)[i]
    BY <2>1, <2>2 DEF Plain
  <2>4. Readable("string", p) /\ StringLength(p) = Len(v.data) /\ StringAt(p) = v.data
    BY <2>1, <2>3, StringHeld
  <2>5. /\ Size("string", p) = 2 + StringLength(p) /\ ValueAt("string", p) = StringAt(p)
        /\ Extra("string", p) = 0
    BY DEF Size, ValueAt, Extra
  <2>6. Len(v.data) \in Nat
    BY <2>1, PrefixedIs
  <2>7. Size("string", p) = Len(Payload(v))
    BY <2>1, <2>2, <2>4, <2>5, <2>6
  <2> QED BY <1>2, <2>1, <2>4, <2>5, <2>7
<1>3. CASE v.type = "boolean"
  <2>1. Len(v.data) = 1 /\ Payload(v) = v.data /\ h = 0
    BY <1>3, ScalarIs DEF Payload
  <2>2. Len(Payload(v)) = 1
    BY <2>1
  <2> QED BY <1>3, <2>1, <2>2 DEF Readable, Extra, Size
<1>4. CASE v.type = "undefined"
  <2>1. v.data = <<>> /\ Payload(v) = v.data /\ h = 0
    BY <1>4, ScalarIs DEF Payload
  <2>2. Len(Payload(v)) = 0
    BY <2>1
  <2> QED BY <1>4, <2>1, <2>2 DEF Readable, Extra, Size
<1>5. v.type \in Types
  BY ScalarIs
<1> QED BY <1>1, <1>2, <1>3, <1>4, <1>5 DEF Types

\* What is behind a value that was passed stays as it is.
LEMMA PassTail ==
    ASSUME buffer \in Seq(Byte), NEW p \in Nat, NEW t, NEW q \in Nat, q <= p, TailInv(q),
           Size(t, p) \in Nat, Pass(t, p), Readable(t, p), UNCHANGED <<sent, cut>>
    PROVE  Len(buffer') = Len(buffer) /\ Wire' = Wire /\ TailInv(processed)'
<1>1. Wire' = Wire
  BY DEF Wire
<1>2. /\ processed' = p + Size(t, p) + Extra(t, p)
      /\ buffer' = IF Extra(t, p) = 1 THEN [buffer EXCEPT ![p + 8] = At(p + 8)] ELSE buffer
  BY DEF Pass
<1>3. /\ Len(Wire) <= Len(buffer)
      /\ \A r \in Nat : q <= r /\ r < Len(Wire) => At(r) = Wire[r + 1]
  BY DEF TailInv
<1>4. CASE Extra(t, p) = 1
  <2>1. t = "number" /\ HeaderInside(p)
    BY <1>4 DEF Extra
  <2>2. Size(t, p) = 8 /\ p + 9 <= Len(buffer)
    BY <2>1, ReadNumber DEF Size
  <2>3. processed' = p + 9
    BY <1>2, <1>4, <2>2
  <2> DEFINE i == p + 8
             x == At(i)
  <2>4. i \in 1 .. Len(buffer) /\ buffer' = [buffer EXCEPT ![i] = x] /\ i = p + 8
    BY <1>2, <1>4, <2>2, LenType
  <2> HIDE DEF i, x
  <2>5. Len(buffer') = Len(buffer) /\ \A j \in 1 .. Len(buffer) : j # i => buffer'[j] = buffer[j]
    BY <2>4
  <2>6. ASSUME NEW r \in Nat, processed' <= r, r < Len(Wire) PROVE buffer'[r + 1] = Wire[r + 1]
    <3>1. q <= r /\ r + 1 # i
      BY <2>3, <2>4, <2>6
    <3>2. Len(Wire) \in Nat \/ r + 1 \in 1 .. Len(buffer)
      BY <1>3, <2>6, LenType
    <3>3. buffer[r + 1] = Wire[r + 1]
      BY <1>3, <2>6, <3>1 DEF At
    <3> QED BY <1>3, <2>5, <2>6, <3>1, <3>3, LenType
  <2> QED BY <1>1, <1>3, <2>5, <2>6 DEF TailInv, At
<1>5. CASE Extra(t, p) # 1
  <2>1. Extra(t, p) = 0
    BY <1>5 DEF Extra
  <2>2. processed' = p + Size(t, p) /\ buffer' = buffer
    BY <1>2, <1>5, <2>1
  <2>3. q <= processed'
    BY <2>2
  <2>4. processed' \in Nat
    BY <2>2
  <2>5. ASSUME NEW r \in Nat, processed' <= r, r < Len(Wire) PROVE buffer'[r + 1] = Wire[r + 1]
    BY <1>3, <2>2, <2>3, <2>4, <2>5 DEF At
  <2> QED BY <1>1, <1>3, <2>2, <2>5 DEF TailInv, At
<1> QED BY <1>4, <1>5

\* A value whose bytes are there, and the bytes behind its type.
LEMMA BehindType ==
    ASSUME NEW v \in ScalarValues, NEW p \in Nat
    PROVE  /\ Plain(Scalar(v), p) => In(p) /\ At(p) = Marker[v.type] /\ Plain(Payload(v), p + 1)
           /\ v.type = "number" /\ Split(Scalar(v), p) =>
                In(p) /\ At(p) = Marker[v.type] /\ Split(Payload(v), p + 1)
<1> DEFINE x == Scalar(v)
           y == Payload(v)
           n == Len(y)
<1>1. n \in Nat /\ Len(x) = n + 1 /\ x[1] = Marker[v.type] /\ \A i \in 1 .. n : x[i + 1] = y[i]
  BY PayloadIs, ScalarBytes
<1>2. v.type = "number" => n = 8
  BY NumberSize
<1> HIDE DEF x, y, n
<1>3. \A i \in 1 .. n : i + 1 \in 1 .. n + 1 /\ p + (i + 1) - 1 = p + 1 + i - 1
  BY <1>1
<1>4. 1 \in 1 .. n + 1 /\ p + 1 - 1 = p
  BY <1>1
<1>5. ASSUME Plain(x, p) PROVE In(p) /\ At(p) = x[1] /\ Plain(y, p + 1)
  <2>1. \A i \in 1 .. n + 1 : In(p + i - 1) /\ At(p + i - 1) = x[i]
    BY <1>1, <1>5 DEF Plain
  <2>2. In(p) /\ At(p) = x[1]
    BY <1>4, <2>1
  <2>3. \A i \in 1 .. n : In(p + (i + 1) - 1) /\ At(p + (i + 1) - 1) = x[i + 1]
    BY <1>3, <2>1
  <2>4. \A i \in 1 .. n : In(p + 1 + i - 1) /\ At(p + 1 + i - 1) = y[i]
    BY <1>1, <1>3, <2>3
  <2> QED BY <2>2, <2>4 DEF Plain, n
<1>6. ASSUME v.type = "number", Split(x, p) PROVE In(p) /\ At(p) = x[1] /\ Split(y, p + 1)
  <2>1. /\ \A i \in 1 .. 8 : In(p + i - 1) /\ At(p + i - 1) = x[i]
        /\ In(p + 9 - 1) /\ At(p + 9 - 1) = ChunkHeader
        /\ In(p + 9) /\ At(p + 9) = x[9]
    <3>1. Len(x) = 9 /\ 9 - 1 = 8
      BY <1>1, <1>2, <1>6
    <3> QED BY <1>6, <3>1 DEF Split
  <2>2. n = 8 /\ 1 \in 1 .. 8 /\ \A i \in 1 .. 7 : i \in 1 .. n /\ i + 1 \in 1 .. 8
    BY <1>2, <1>6
  <2>3. In(p) /\ At(p) = x[1]
    BY <1>4, <2>1, <2>2
  <2>4. ASSUME NEW i \in 1 .. 7 PROVE In(p + 1 + i - 1) /\ At(p + 1 + i - 1) = y[i]
    <3>1. In(p + (i + 1) - 1) /\ At(p + (i + 1) - 1) = x[i + 1]
      BY <2>1, <2>2
    <3> QED BY <1>1, <1>3, <2>2, <3>1
  <2>5. In(p + 1 + 8 - 1) /\ At(p + 1 + 8 - 1) = ChunkHeader
    <3>1. p + 1 + 8 - 1 = p + 9 - 1
      OBVIOUS
    <3> QED BY <2>1, <3>1
  <2>6. In(p + 1 + 8) /\ At(p + 1 + 8) = y[8]
    <3>1. p + 1 + 8 = p + 9 /\ 8 + 1 = 9 /\ 8 \in 1 .. n
      BY <2>2
    <3> QED BY <1>1, <2>1, <3>1
  <2>7. 8 - 1 = 7 /\ Len(y) = 8
    BY <2>2 DEF n
  <2>8. Split(y, p + 1)
    BY <2>4, <2>5, <2>6, <2>7 DEF Split
  <2> QED BY <2>3, <2>8
<1> QED BY <1>1, <1>5, <1>6 DEF x, y

\* A place in the body is a place in the buffer.
LEMMA PlaceIn ==
    ASSUME SentInv, buffer \in Seq(Byte), Len(Wire) <= Len(buffer), NEW e \in Nat, e < length
    PROVE  In(e + Passed(e))
<1>1. /\ Len(Body(sent)) \in Nat /\ Len(Wire) \in Nat /\ length = Len(Body(sent)) /\ cut \in Nat
      /\ Len(Wire) = Len(Body(sent)) + IF cut = 0 THEN 0 ELSE 1
  BY SentIs DEF SentInv
<1>2. e + Passed(e) < Len(Wire)
  BY <1>1 DEF Passed
<1>3. Passed(e) \in {0, 1}
  BY DEF Passed
<1> QED BY <1>1, <1>2, <1>3, LenType DEF In

\* The value the decoder is at.
LEMMA ValueHere ==
    ASSUME SentInv, Foreseen, buffer \in Seq(Byte), NEW k \in 1 .. Len(sent),
           NEW e, e = BodyEnd(sent, k - 1), NEW f, f = BodyEnd(sent, k), TailInv(e + Passed(e)),
           NEW v, v = sent[k], v.type # "object"
    PROVE  LET p == e + Passed(e)
           IN  /\ In(p) /\ TypeAt(p) = v.type
               /\ v.type # "null" =>
                    /\ Readable(v.type, p + 1) /\ Size(v.type, p + 1) \in Nat
                    /\ p + 1 + Size(v.type, p + 1) + Extra(v.type, p + 1) = f + Passed(f)
                    /\ Passed(e) + Extra(v.type, p + 1) = Passed(f)
                    /\ v.type \in {"number", "string"} => ValueAt(v.type, p + 1) = v.data
               /\ v.type = "null" => k = Len(sent) /\ Passed(f) = Passed(e) /\ p + 2 >= length
<1> DEFINE p == e + Passed(e)
           x == Scalar(v)
           n == Len(Payload(v))
<1>1. /\ Len(sent) \in Nat /\ v \in Values /\ e \in Nat /\ f = e + Len(Encoded(v)) /\ f <= length
      /\ \A i \in 1 .. Len(Encoded(v)) : Body(sent)[e + i] = Encoded(v)[i]
      /\ BodyEnd(sent, Len(sent)) = length
  <2>1. k \in 0 .. Len(sent)
    BY ValuePlaces
  <2> QED BY <2>1, ValuePlaces
<1>2. v \in ScalarValues /\ Encoded(v) = x
  BY <1>1, ValueIs DEF Encoded
<1>3. x \in Seq(Byte) /\ Len(x) = n + 1 /\ n \in Nat /\ f = e + Len(x)
  BY <1>1, <1>2, ScalarBytes, PayloadIs DEF Text
<1>4. \A i \in 1 .. Len(x) : Body(sent)[e + i] = x[i]
  BY <1>1, <1>2
<1>5. cut \in {0} \cup NumberCuts /\ ~Mistaken(v) /\ (v.type = "null" => k = Len(sent))
      /\ (v.type = "boolean" /\ k = Len(sent) => Len(buffer) > Len(Wire))
  <2>1. k \in DOMAIN sent
    BY LenType DEF SentInv
  <2> QED BY <2>1 DEF Foreseen, Wire
<1>6. Clean(e, f) \/ (v.type = "number" /\ cut = f - 1)
  <2>1. Clean(e, f) \/ CutIn(k)
    BY <1>5, CutOfValue
  <2> QED BY <2>1 DEF CutIn, CutInPair
<1>7. p \in Nat /\ Passed(e) \in {0, 1} /\ Passed(f) \in {0, 1} /\ length \in Nat /\ Len(Wire) <= Len(buffer)
  BY <1>1, SentIs DEF Passed, SentInv, TailInv
<1>8. /\ Clean(e, f) => Plain(x, p) /\ Passed(f) = Passed(e)
      /\ cut = f - 1 /\ e < cut => Split(x, e) /\ Passed(e) = 0 /\ Passed(f) = 1
  <2>1. /\ SentInv /\ buffer \in Seq(Byte) /\ x \in Seq(Byte) /\ e \in Nat /\ e + Len(x) <= length
        /\ TailInv(e + Passed(e)) /\ f = e + Len(x)
    BY <1>1, <1>3
  <2>2. \A i \in 1 .. Len(x) : Body(sent)[e + i] = x[i]
    BY <1>4
  <2> HIDE DEF x
  <2>3. /\ Clean(e, e + Len(x)) => Plain(x, e + Passed(e)) /\ Passed(e + Len(x)) = Passed(e)
        /\ cut = e + Len(x) - 1 /\ e < cut
             => Split(x, e) /\ Passed(e) = 0 /\ Passed(e + Len(x)) = 1
    BY ONLY <2>1, <2>2, PartAt
  <2> QED BY ONLY <2>1, <2>3
<1> HIDE DEF x, n
<1>9. PICK h \in {0, 1} :
        /\ In(p) /\ At(p) = Marker[v.type] /\ Passed(f) = Passed(e) + h
        /\ h = 0 => Plain(Payload(v), p + 1)
        /\ h = 1 => v.type = "number" /\ Split(Payload(v), p + 1)
  <2>1. CASE Clean(e, f)
    <3>1. In(p) /\ At(p) = Marker[v.type] /\ Plain(Payload(v), p + 1) /\ Passed(f) = Passed(e) + 0
      BY <1>2, <1>7, <1>8, <2>1, BehindType DEF x
    <3> QED BY <3>1
  <2>2. CASE v.type = "number" /\ cut = f - 1
    <3>1. e < cut
      <4>1. Len(x) = 9
        BY <1>2, <2>2, NumberSize DEF x
      <4>2. f = e + 9 /\ e \in Nat /\ cut = f - 1
        BY <1>1, <1>3, <2>2, <4>1
      <4> QED BY ONLY <4>2
    <3>2. Split(x, e) /\ Passed(e) = 0 /\ Passed(f) = 1 /\ p = e
      BY <1>1, <1>8, <2>2, <3>1
    <3>3. In(p) /\ At(p) = Marker[v.type] /\ Split(Payload(v), p + 1)
      BY <1>2, <1>7, <2>2, <3>2, BehindType DEF x
    <3> QED BY <2>2, <3>2, <3>3
  <2> QED BY <1>6, <2>1, <2>2
<1>10. TypeAt(p) = v.type
  <2>1. v.type \in DOMAIN Marker
    BY <1>1, EncodedIs
  <2> QED BY <1>9, <2>1, TypeAtIs
<1>11. ASSUME v.type # "null"
       PROVE  /\ Readable(v.type, p + 1) /\ Size(v.type, p + 1) = n
              /\ Extra(v.type, p + 1) = h
              /\ v.type \in {"number", "string"} => ValueAt(v.type, p + 1) = v.data
  <2>1. ASSUME v.type = "boolean" PROVE In(p + 1 + 1)
    <3>1. n = 1 /\ h = 0
      <4>1. Payload(v) = v.data /\ Len(v.data) = 1
        BY <1>2, <2>1, ScalarIs DEF Payload
      <4>2. Len(Payload(v)) = 1
        BY <4>1
      <4> QED BY <1>9, <2>1, <4>2 DEF n
    <3>2. p + 1 + 1 = f + Passed(f)
      <4>1. f = e + Len(x) /\ Len(x) = n + 1 /\ n = 1 /\ h = 0 /\ Passed(f) = Passed(e) + h
        BY <1>3, <1>9, <3>1
      <4>2. e \in Nat /\ Passed(e) \in {0, 1}
        BY <1>1, <1>7
      <4> QED BY ONLY <4>1, <4>2
    <3>3. CASE f < length
      <4>1. f \in Nat
        BY <1>1, <1>3
      <4>2. In(f + Passed(f))
        BY <1>7, <3>3, <4>1, PlaceIn
      <4> HIDE DEF p
      <4> QED BY <3>2, <4>2
    <3>4. CASE f >= length
      <4>1. f = length /\ f \in Nat
        BY <1>1, <1>3, <1>7, <3>4
      <4>2. k = Len(sent)
        <5>1. ASSUME k # Len(sent) PROVE FALSE
          <6>1. k + 1 \in 1 .. Len(sent) /\ (k + 1) - 1 = k /\ k + 1 \in 0 .. Len(sent)
            BY <1>1, <5>1
          <6>2. BodyEnd(sent, (k + 1) - 1) < BodyEnd(sent, k + 1) /\ BodyEnd(sent, k + 1) <= length
                /\ BodyEnd(sent, k + 1) \in Nat
            BY <6>1, ValuePlaces
          <6>3. f < BodyEnd(sent, k + 1)
            BY <6>1, <6>2
          <6> QED BY ONLY <1>7, <4>1, <6>2, <6>3
        <5> QED BY <5>1
      <4>3. Len(buffer) > Len(Wire)
        BY <1>5, <2>1, <4>2
      <4>4. Len(Wire) = length + IF cut = 0 THEN 0 ELSE 1
        BY SentIs DEF SentInv
      <4>5. f + Passed(f) <= Len(Wire)
        BY <1>7, <4>1, <4>4 DEF Passed
      <4>6. Len(buffer) \in Nat /\ Len(Wire) \in Nat
        BY SentIs, LenType
      <4> QED BY <1>7, <3>2, <4>1, <4>3, <4>5, <4>6 DEF In
    <3> QED BY <1>1, <1>3, <1>7, <3>3, <3>4
  <2>2. p + 1 \in Nat
    BY <1>7
  <2> QED BY <1>2, <1>5, <1>9, <1>11, <2>1, <2>2, ScalarHeld DEF n
<1>12. ASSUME v.type = "null" PROVE Passed(f) = Passed(e) /\ p + 2 >= length
  <2>1. h = 0 /\ f = length
    BY <1>1, <1>5, <1>9, <1>12
  <2>2. Payload(v) = <<>>
    BY <1>2, <1>12, ScalarIs DEF Payload
  <2>3. n = 0
    BY <2>2 DEF n
  <2>4. e + 1 = length
    BY <1>1, <1>3, <2>1, <2>3
  <2> QED BY <1>1, <1>7, <1>9, <2>1, <2>4
<1>13. ASSUME v.type # "null"
       PROVE  /\ Size(v.type, p + 1) \in Nat
              /\ p + 1 + Size(v.type, p + 1) + Extra(v.type, p + 1) = f + Passed(f)
              /\ Passed(e) + Extra(v.type, p + 1) = Passed(f)
  <2>1. Size(v.type, p + 1) = n /\ Extra(v.type, p + 1) = h
    BY <1>11, <1>13
  <2>2. p + 1 + n + h = f + Passed(f)
    <3>1. f = e + Len(x) /\ Len(x) = n + 1 /\ Passed(f) = Passed(e) + h
      BY <1>3, <1>9
    <3>2. e \in Nat /\ Passed(e) \in {0, 1} /\ n \in Nat /\ h \in {0, 1}
      BY <1>1, <1>3, <1>7
    <3> QED BY ONLY <3>1, <3>2
  <2> QED BY <1>3, <1>9, <2>1, <2>2
<1> HIDE DEF p
<1>14. /\ In(p) /\ TypeAt(p) = v.type
       /\ v.type # "null" =>
            /\ Readable(v.type, p + 1) /\ Size(v.type, p + 1) \in Nat
            /\ p + 1 + Size(v.type, p + 1) + Extra(v.type, p + 1) = f + Passed(f)
            /\ Passed(e) + Extra(v.type, p + 1) = Passed(f)
            /\ v.type \in {"number", "string"} => ValueAt(v.type, p + 1) = v.data
       /\ v.type = "null" => k = Len(sent) /\ Passed(f) = Passed(e) /\ p + 2 >= length
  BY <1>5, <1>9, <1>10, <1>11, <1>12, <1>13
<1> QED BY <1>14 DEF p

\* A pair whose bytes are there: its key, and the bytes behind the key.
LEMMA BehindKey ==
    ASSUME NEW c \in PairType, NEW p \in Nat
    PROVE  LET m == Len(c.key)
           IN  /\ Plain(OnePair(c), p) => /\ \A i \in 1 .. m + 2 : In(p + i - 1) /\ At(p + i - 1) = Prefixed(c.key)[i]
                                          /\ In(p + m + 2) /\ At(p + m + 2) = Marker[c.value.type]
                                          /\ Plain(Payload(c.value), p + m + 3)
               /\ c.value.type = "number" /\ Split(OnePair(c), p) =>
                    /\ \A i \in 1 .. m + 2 : In(p + i - 1) /\ At(p + i - 1) = Prefixed(c.key)[i]
                    /\ In(p + m + 2) /\ At(p + m + 2) = Marker[c.value.type]
                    /\ Split(Payload(c.value), p + m + 3)
<1> DEFINE x == OnePair(c)
           y == Payload(c.value)
           z == Prefixed(c.key)
           m == Len(c.key)
           n == Len(y)
<1>1. /\ m \in Nat /\ n \in Nat /\ Len(x) = m + 3 + n
      /\ \A i \in 1 .. m + 2 : x[i] = z[i]
      /\ x[m + 3] = Marker[c.value.type]
      /\ \A i \in 1 .. n : x[m + 3 + i] = y[i]
  BY OnePairIs
<1>2. c.value.type = "number" => n = 8
  <2>1. c.value \in ScalarValues
    BY DEF PairType
  <2> QED BY <2>1, NumberSize
<1> HIDE DEF x, y, z, m, n
<1> DEFINE Begins == /\ \A i \in 1 .. m + 2 : In(p + i - 1) /\ At(p + i - 1) = z[i]
                     /\ In(p + m + 2) /\ At(p + m + 2) = Marker[c.value.type]
<1>3. ASSUME NEW l \in Nat, l >= m + 3, \A i \in 1 .. l : In(p + i - 1) /\ At(p + i - 1) = x[i]
      PROVE  Begins
  <2>1. \A i \in 1 .. m + 2 : i \in 1 .. l
    BY <1>1, <1>3
  <2>2. m + 3 \in 1 .. l /\ p + (m + 3) - 1 = p + m + 2
    BY <1>1, <1>3
  <2>3. In(p + m + 2) /\ At(p + m + 2) = x[m + 3]
    BY <1>3, <2>2
  <2> QED BY <1>1, <1>3, <2>1, <2>3
<1> HIDE DEF Begins
<1>4. ASSUME Plain(x, p) PROVE Begins /\ Plain(y, p + m + 3)
  <2>1. \A i \in 1 .. m + 3 + n : In(p + i - 1) /\ At(p + i - 1) = x[i]
    BY <1>1, <1>4 DEF Plain
  <2>2. m + 3 + n \in Nat /\ m + 3 + n >= m + 3
    BY <1>1
  <2>3. Begins
    BY <1>3, <2>1, <2>2
  <2>4. ASSUME NEW i \in 1 .. n PROVE In(p + m + 3 + i - 1) /\ At(p + m + 3 + i - 1) = y[i]
    <3>1. m + 3 + i \in 1 .. m + 3 + n /\ p + (m + 3 + i) - 1 = p + m + 3 + i - 1
      BY <1>1
    <3>2. In(p + (m + 3 + i) - 1) /\ At(p + (m + 3 + i) - 1) = x[m + 3 + i]
      BY <2>1, <3>1
    <3> QED BY <1>1, <3>1, <3>2
  <2> QED BY <2>3, <2>4 DEF Plain, n
<1>5. ASSUME c.value.type = "number", Split(x, p) PROVE Begins /\ Split(y, p + m + 3)
  <2>1. Len(x) = m + 11 /\ n = 8 /\ m + 11 - 1 = m + 10
    BY <1>1, <1>2, <1>5
  <2>2. /\ \A i \in 1 .. m + 10 : In(p + i - 1) /\ At(p + i - 1) = x[i]
        /\ In(p + (m + 11) - 1) /\ At(p + (m + 11) - 1) = ChunkHeader
        /\ In(p + (m + 11)) /\ At(p + (m + 11)) = x[m + 11]
    <3> DEFINE l == Len(x)
    <3>1. /\ \A i \in 1 .. l - 1 : In(p + i - 1) /\ At(p + i - 1) = x[i]
          /\ In(p + l - 1) /\ At(p + l - 1) = ChunkHeader
          /\ In(p + l) /\ At(p + l) = x[l]
      BY <1>5 DEF Split
    <3>7. l = m + 11
      BY <2>1
    <3> HIDE DEF l
    <3>2. l = m + 11 /\ l - 1 = m + 10
      BY ONLY <1>1, <3>7
    <3>3. p + l - 1 = p + (m + 11) - 1 /\ p + l = p + (m + 11)
      BY <3>2
    <3>4. \A i \in 1 .. m + 10 : In(p + i - 1) /\ At(p + i - 1) = x[i]
      BY <3>1, <3>2
    <3>5. In(p + (m + 11) - 1) /\ At(p + (m + 11) - 1) = ChunkHeader
      BY <3>1, <3>3
    <3>6. In(p + (m + 11)) /\ At(p + (m + 11)) = x[m + 11]
      BY <3>1, <3>2, <3>3
    <3> QED BY <3>4, <3>5, <3>6
  <2>3. m + 10 \in Nat /\ m + 10 >= m + 3
    BY <1>1
  <2>4. Begins
    BY <1>3, <2>2, <2>3
  <2>5. ASSUME NEW i \in 1 .. 7 PROVE In(p + m + 3 + i - 1) /\ At(p + m + 3 + i - 1) = y[i]
    <3>1. m + 3 + i \in 1 .. m + 10 /\ p + (m + 3 + i) - 1 = p + m + 3 + i - 1 /\ i \in 1 .. n
      BY <1>1, <2>1
    <3>2. In(p + (m + 3 + i) - 1) /\ At(p + (m + 3 + i) - 1) = x[m + 3 + i]
      BY <2>2, <3>1
    <3> QED BY <1>1, <3>1, <3>2
  <2>6. In(p + m + 3 + 8 - 1) /\ At(p + m + 3 + 8 - 1) = ChunkHeader
    <3>1. p + m + 3 + 8 - 1 = p + (m + 11) - 1
      BY <1>1
    <3> QED BY <2>2, <3>1
  <2>7. In(p + m + 3 + 8) /\ At(p + m + 3 + 8) = y[8]
    <3>1. p + m + 3 + 8 = p + (m + 11) /\ 8 \in 1 .. n /\ m + 3 + 8 = m + 11
      BY <1>1, <2>1
    <3> QED BY <1>1, <2>2, <3>1
  <2>8. 8 - 1 = 7 /\ Len(y) = 8
    BY <2>1 DEF n
  <2>9. Split(y, p + m + 3)
    BY <2>5, <2>6, <2>7, <2>8 DEF Split
  <2> QED BY <2>4, <2>9
<1>6. /\ Plain(x, p) => Begins /\ Plain(y, p + m + 3)
      /\ c.value.type = "number" /\ Split(x, p) => Begins /\ Split(y, p + m + 3)
  BY <1>4, <1>5
<1> QED BY <1>6 DEF Begins, x, y, z, m

\* At p is the key of a pair with value c, which begins at e of the body and ends
\* at f: how the decoder reads it.
PairAt(p, c, e, f) ==
    LET q == p + 2 + StringLength(p)
        t == c.value.type
    IN  /\ p \in Nat /\ p < length /\ In(p) /\ In(p + 1) /\ In(p + 2)
        /\ ~(At(p) = 0 /\ At(p + 1) = 0 /\ At(p + 2) = EndObject)
        /\ Readable("string", p) /\ StringAt(p) = c.key
        /\ q \in Nat /\ p <= q /\ In(q) /\ TypeAt(q) = t
        /\ Readable(t, q + 1) /\ Size(t, q + 1) \in Nat
        /\ q + 1 + Size(t, q + 1) + Extra(t, q + 1) = f + Passed(f)
        /\ Passed(e) + Extra(t, q + 1) = Passed(f)
        /\ t \in {"number", "string"} => ValueAt(t, q + 1) = c.value.data

\* The pair the decoder is at.
LEMMA PairHere ==
    ASSUME SentInv, Foreseen, buffer \in Seq(Byte), NEW k \in 1 .. Len(sent),
           sent[k].type = "object", NEW j \in 1 .. Len(sent[k].data),
           NEW e, e = ObjectEnd(k, j - 1), NEW f, f = ObjectEnd(k, j),
           NEW p, p = e + Passed(e), TailInv(p),
           NEW c, c = sent[k].data[j]
    PROVE  PairAt(p, c, e, f)
<1> DEFINE ps == sent[k].data
           x == OnePair(c)
           v == c.value
           m == Len(c.key)
           n == Len(Payload(v))
           y == Prefixed(c.key)
<1>1. /\ ps \in Seq(PairType) /\ Len(ps) \in Nat
      /\ \A i \in 0 .. Len(ps) : ObjectEnd(k, i) \in Nat
      /\ \A i \in 0 .. Len(ps) : \A h \in i .. Len(ps) : ObjectEnd(k, i) <= ObjectEnd(k, h)
      /\ BodyEnd(sent, k) = ObjectEnd(k, Len(ps)) + 3
      /\ \A i \in 1 .. Len(ps) :
           /\ ObjectEnd(k, i) = ObjectEnd(k, i - 1) + Len(OnePair(ps[i]))
           /\ \A h \in 1 .. Len(OnePair(ps[i])) :
                Body(sent)[ObjectEnd(k, i - 1) + h] = OnePair(ps[i])[h]
  <2>1. ps = sent[k].data
    OBVIOUS
  <2> HIDE DEF ps
  <2>2. /\ ps \in Seq(PairType) /\ Len(ps) \in Nat
        /\ \A i \in 0 .. Len(ps) : ObjectEnd(k, i) \in Nat
        /\ \A i \in 0 .. Len(ps) : \A h \in i .. Len(ps) : ObjectEnd(k, i) <= ObjectEnd(k, h)
    BY <2>1, ObjectPlaces
  <2>3. k \in 1 .. Len(sent) /\ sent[k].type = "object" /\ SentInv
    OBVIOUS
  <2>4. /\ BodyEnd(sent, k) = ObjectEnd(k, Len(ps)) + 3
        /\ \A i \in 1 .. Len(ps) : ObjectEnd(k, i) = ObjectEnd(k, i - 1) + Len(OnePair(ps[i]))
    BY ONLY <2>1, <2>3, ObjectPlaces
  <2>5. \A i \in 1 .. Len(ps) : \A h \in 1 .. Len(OnePair(ps[i])) :
          Body(sent)[ObjectEnd(k, i - 1) + h] = OnePair(ps[i])[h]
    <3>1. PairsThere(k, ps)
      BY ONLY <2>1, <2>3, ObjectPlaces
    <3> QED BY ONLY <3>1 DEF PairsThere
  <2> QED BY ONLY <2>2, <2>4, <2>5
<1>2. c \in PairType /\ c = ps[j] /\ j \in 1 .. Len(ps)
  BY <1>1, ElementIn
<1>3. c.key \in Strings /\ v \in ScalarValues
  BY <1>2 DEF PairType
<1>4. x \in Seq(Byte) /\ m \in Nat /\ n \in Nat /\ Len(x) = m + 3 + n
  BY <1>2, OnePairIs DEF Text
<1>5. f = e + Len(x) /\ \A i \in 1 .. Len(x) : Body(sent)[e + i] = x[i]
  <2>1. /\ ObjectEnd(k, j) = ObjectEnd(k, j - 1) + Len(OnePair(ps[j]))
        /\ \A h \in 1 .. Len(OnePair(ps[j])) :
             Body(sent)[ObjectEnd(k, j - 1) + h] = OnePair(ps[j])[h]
    BY <1>1, <1>2
  <2> QED BY <1>2, <2>1
<1>6. e \in Nat /\ f \in Nat /\ f + 3 <= length /\ length \in Nat /\ Len(Wire) <= Len(buffer)
  <2>1. j - 1 \in 0 .. Len(ps) /\ j \in 0 .. Len(ps) /\ Len(ps) \in j .. Len(ps) /\ Len(ps) \in 0 .. Len(ps)
    BY <1>1, <1>2
  <2>2. e \in Nat /\ f \in Nat /\ f <= ObjectEnd(k, Len(ps)) /\ ObjectEnd(k, Len(ps)) \in Nat
    BY <1>1, <2>1
  <2>3. BodyEnd(sent, k) = ObjectEnd(k, Len(ps)) + 3
    BY <1>1
  <2>4. BodyEnd(sent, k) <= length /\ length \in Nat
    <3>1. k \in 0 .. Len(sent)
      BY ValuePlaces
    <3> QED BY <3>1, ValuePlaces, SentIs DEF SentInv
  <2>5. f + 3 <= length
    BY ONLY <2>2, <2>3, <2>4
  <2> QED BY <2>2, <2>4, <2>5 DEF TailInv
<1>7. p \in Nat /\ Passed(e) \in {0, 1} /\ Passed(f) \in {0, 1} /\ (p = e \/ p = e + 1)
  BY <1>6 DEF Passed
<1>8. cut \in {0} \cup NumberCuts /\ ~Mistaken(v) /\ v.type # "null"
  <2>1. k \in DOMAIN sent /\ j \in DOMAIN ps
    BY <1>1, <1>2, LenType DEF SentInv
  <2> QED BY <1>2, <2>1 DEF Foreseen
<1>9. Clean(e, f) \/ (v.type = "number" /\ cut = f - 1 /\ e < cut)
  <2>1. Clean(e, f) \/ CutInPair(k, j)
    <3>1. ps = sent[k].data /\ k \in 1 .. Len(sent) /\ sent[k].type = "object"
      OBVIOUS
    <3> HIDE DEF ps
    <3>2. \A i \in 1 .. Len(ps) : Clean(ObjectEnd(k, i - 1), ObjectEnd(k, i)) \/ CutInPair(k, i)
      BY <1>8, <3>1, CutOfPair
    <3> QED BY <1>2, <3>2
  <2>2. CutInPair(k, j) => v.type = "number" /\ cut = f - 1 /\ e < cut
    BY CutInPairIs DEF CutInPair
  <2> QED BY <2>1, <2>2
<1>10. /\ Clean(e, f) => Plain(x, p) /\ Passed(f) = Passed(e)
       /\ cut = f - 1 /\ e < cut => Split(x, e) /\ Passed(e) = 0 /\ Passed(f) = 1
  <2>1. /\ SentInv /\ buffer \in Seq(Byte) /\ x \in Seq(Byte) /\ e \in Nat /\ e + Len(x) <= length
        /\ TailInv(e + Passed(e)) /\ f = e + Len(x) /\ p = e + Passed(e)
    <3>1. x \in Seq(Byte) /\ f = e + Len(x) /\ Len(x) \in Nat
      BY <1>4, <1>5, LenType
    <3>2. e \in Nat /\ f + 3 <= length /\ length \in Nat
      BY <1>6
    <3> HIDE DEF x
    <3>3. e + Len(x) <= length
      BY ONLY <3>1, <3>2
    <3> QED BY <3>1, <3>2, <3>3
  <2>2. \A i \in 1 .. Len(x) : Body(sent)[e + i] = x[i]
    BY <1>5
  <2> HIDE DEF x
  <2>3. /\ Clean(e, e + Len(x)) => Plain(x, e + Passed(e)) /\ Passed(e + Len(x)) = Passed(e)
        /\ cut = e + Len(x) - 1 /\ e < cut
             => Split(x, e) /\ Passed(e) = 0 /\ Passed(e + Len(x)) = 1
    BY ONLY <2>1, <2>2, PartAt
  <2> QED BY ONLY <2>1, <2>3
<1> HIDE DEF ps, x, n, v, m, y
<1>11. PICK h \in {0, 1} :
        /\ \A i \in 1 .. m + 2 : In(p + i - 1) /\ At(p + i - 1) = y[i]
        /\ In(p + m + 2) /\ At(p + m + 2) = Marker[v.type]
        /\ Passed(f) = Passed(e) + h
        /\ h = 0 => Plain(Payload(v), p + m + 3)
        /\ h = 1 => v.type = "number" /\ Split(Payload(v), p + m + 3)
  <2>1. CASE Clean(e, f)
    <3>1. Plain(x, p) /\ Passed(f) = Passed(e) + 0
      BY <1>7, <1>10, <2>1
    <3>2. /\ \A i \in 1 .. m + 2 : In(p + i - 1) /\ At(p + i - 1) = y[i]
          /\ In(p + m + 2) /\ At(p + m + 2) = Marker[v.type]
          /\ Plain(Payload(v), p + m + 3)
      BY <1>2, <1>7, <3>1, BehindKey DEF x, y, v, m
    <3> QED BY <3>1, <3>2
  <2>2. CASE v.type = "number" /\ cut = f - 1 /\ e < cut
    <3>1. Split(x, e) /\ Passed(e) = 0 /\ Passed(f) = 0 + 1 /\ p = e
      BY <1>6, <1>10, <2>2
    <3>2. /\ \A i \in 1 .. m + 2 : In(p + i - 1) /\ At(p + i - 1) = y[i]
          /\ In(p + m + 2) /\ At(p + m + 2) = Marker[v.type]
          /\ Split(Payload(v), p + m + 3)
      <4>1. Split(x, p)
        BY <3>1
      <4> QED BY <1>2, <1>7, <2>2, <4>1, BehindKey DEF x, y, v, m
    <3> QED BY <2>2, <3>1, <3>2
  <2> QED BY <1>9, <2>1, <2>2
<1>12. Readable("string", p) /\ StringLength(p) = m /\ StringAt(p) = c.key
  BY <1>3, <1>7, <1>11, StringHeld DEF m, y
<1> DEFINE q == p + 2 + StringLength(p)
<1>13. q = p + m + 2 /\ q + 1 = p + m + 3 /\ q \in Nat /\ p <= q
  BY <1>4, <1>7, <1>12
<1> HIDE DEF q
<1>14. In(q) /\ TypeAt(q) = v.type
  <2>1. v.type \in DOMAIN Marker
    BY <1>3, ScalarIs, MarkerIs DEF Types
  <2> QED BY <1>11, <1>13, <2>1, TypeAtIs
<1>15. /\ Readable(v.type, q + 1) /\ Size(v.type, q + 1) = n /\ Extra(v.type, q + 1) = h
       /\ v.type \in {"number", "string"} => ValueAt(v.type, q + 1) = v.data
  <2>1. ASSUME v.type = "boolean" PROVE In(q + 1 + 1)
    <3>1. Payload(v) = v.data /\ Len(v.data) = 1
      BY <1>3, <2>1, ScalarIs DEF Payload
    <3>2. n = 1 /\ h = 0
      <4>1. Len(Payload(v)) = 1
        BY <3>1
      <4> QED BY <1>11, <2>1, <4>1 DEF n
    <3>3. q + 1 + 1 = f + Passed(f)
      <4>1. f = e + Len(x) /\ Len(x) = m + 3 + n /\ Passed(f) = Passed(e) + h
        BY <1>4, <1>5, <1>11 DEF x, n, v, m
      <4>2. e \in Nat /\ m \in Nat /\ Passed(e) \in {0, 1} /\ p = e + Passed(e) /\ q = p + m + 2
        BY <1>4, <1>6, <1>7, <1>13 DEF m
      <4> QED BY ONLY <3>2, <4>1, <4>2
    <3>4. f < length
      BY <1>6
    <3>5. In(f + Passed(f))
      BY <1>6, <3>4, PlaceIn
    <3> QED BY <3>3, <3>5
  <2>2. q + 1 \in Nat
    BY <1>13
  <2>3. /\ h = 0 => Plain(Payload(v), q + 1)
        /\ h = 1 => v.type = "number" /\ Split(Payload(v), q + 1)
    BY <1>11, <1>13
  <2> QED BY <1>3, <1>8, <2>1, <2>2, <2>3, ScalarHeld DEF n
<1>16. q + 1 + n + h = f + Passed(f)
  <2>1. f = e + Len(x) /\ Len(x) = m + 3 + n /\ Passed(f) = Passed(e) + h
    BY <1>4, <1>5, <1>11 DEF x, n, v, m
  <2>2. /\ e \in Nat /\ m \in Nat /\ n \in Nat /\ h \in {0, 1} /\ Passed(e) \in {0, 1}
        /\ p = e + Passed(e) /\ q = p + m + 2
    BY <1>4, <1>6, <1>7, <1>13 DEF m, n, v
  <2> DEFINE a == Passed(e)
             b == Passed(f)
             l == Len(x)
  <2>3. /\ e \in Nat /\ m \in Nat /\ n \in Nat /\ h \in Nat /\ a \in Nat
        /\ p = e + a /\ q = p + m + 2 /\ f = e + l /\ l = m + 3 + n /\ b = a + h
    <3>1. e \in Nat /\ m \in Nat /\ n \in Nat /\ p = e + a /\ q = p + m + 2
      BY <2>2
    <3>2. f = e + l /\ l = m + 3 + n /\ b = a + h
      BY <2>1
    <3>3. h \in Nat
      OBVIOUS
    <3>4. a \in Nat
      BY <2>2
    <3> QED BY ONLY <3>1, <3>2, <3>3, <3>4
  <2> HIDE DEF a, b, l
  <2>4. q + 1 + n + h = f + b
    BY ONLY <2>3
  <2> QED BY <2>4 DEF b
<1>17. In(p) /\ In(p + 1) /\ In(p + 2) /\ p < length
       /\ ~(At(p) = 0 /\ At(p + 1) = 0 /\ At(p + 2) = EndObject)
  <2>1. 1 \in 1 .. m + 2 /\ 2 \in 1 .. m + 2 /\ p + 1 - 1 = p /\ p + 2 - 1 = p + 1
    <3>1. m \in Nat
      BY <1>4 DEF m
    <3> QED BY <1>7, <3>1
  <2>2. In(p + 1 - 1) /\ At(p + 1 - 1) = y[1] /\ In(p + 2 - 1) /\ At(p + 2 - 1) = y[2]
    BY <1>11, <2>1
  <2>3. In(p) /\ At(p) = y[1] /\ In(p + 1) /\ At(p + 1) = y[2]
    BY <2>1, <2>2
  <2>4. y[1] \in Nat /\ y[2] \in Nat /\ 256 * y[1] + y[2] = m
    BY <1>3, PrefixedIs DEF y, m
  <2>5. m = 0 \/ (3 \in 1 .. m + 2 /\ p + 3 - 1 = p + 2)
    <3>1. m \in Nat /\ p \in Nat
      BY <1>4, <1>7 DEF m
    <3> QED BY ONLY <3>1
  <2>6. In(p + 2)
    <3>1. CASE m = 0
      <4>1. p + m + 2 = p + 2
        BY <1>7, <3>1
      <4> QED BY <1>11, <4>1
    <3>2. CASE m # 0
      <4>1. In(p + 3 - 1)
        BY <1>11, <2>5, <3>2
      <4> QED BY <2>5, <3>2, <4>1
    <3> QED BY <3>1, <3>2
  <2>7. ASSUME At(p) = 0, At(p + 1) = 0 PROVE At(p + 2) # EndObject
    <3>1. m = 0
      BY <2>3, <2>4, <2>7
    <3>2. p + m + 2 = p + 2
      BY <1>7, <3>1
    <3>3. At(p + 2) = Marker[v.type]
      BY <1>11, <3>2
    <3> QED BY <1>3, <3>3, PayloadIs
  <2>8. p < length
    <3>1. e <= f
      <4>1. f = e + Len(x) /\ Len(x) \in Nat
        BY <1>4, <1>5, LenType DEF x
      <4> QED BY <1>6, <4>1
    <3> QED BY <1>6, <1>7, <3>1
  <2> QED BY <2>3, <2>6, <2>7, <2>8
<1>18. Passed(e) + Extra(v.type, q + 1) = Passed(f)
  BY <1>11, <1>15
<1>19. q + 1 + Size(v.type, q + 1) + Extra(v.type, q + 1) = f + Passed(f) /\ Size(v.type, q + 1) \in Nat
  BY <1>4, <1>15, <1>16 DEF n, v
<1> QED BY <1>7, <1>12, <1>13, <1>14, <1>15, <1>17, <1>18, <1>19 DEF PairAt, q, v

\* The end of an object.
LEMMA EndHere ==
    ASSUME SentInv, Foreseen, buffer \in Seq(Byte), NEW k \in 1 .. Len(sent), sent[k].type = "object",
           NEW e, e = ObjectEnd(k, Len(sent[k].data)), NEW f, f = BodyEnd(sent, k),
           NEW p, p = e + Passed(e), TailInv(p)
    PROVE  /\ p \in Nat /\ In(p) /\ In(p + 1) /\ In(p + 2)
           /\ At(p) = 0 /\ At(p + 1) = 0 /\ At(p + 2) = EndObject
           /\ p + 3 = f + Passed(f) /\ Passed(f) = Passed(e)
<1> DEFINE ps == sent[k].data
           x == <<0, 0, EndObject>>
<1>1. ps = sent[k].data /\ k \in 1 .. Len(sent) /\ sent[k].type = "object" /\ SentInv /\ e = ObjectEnd(k, Len(ps))
  OBVIOUS
<1>2. cut \in {0} \cup NumberCuts
  BY DEF Foreseen
<1> HIDE DEF ps
<1>3. Len(ps) \in Nat /\ \A j \in 0 .. Len(ps) : ObjectEnd(k, j) \in Nat
  BY ONLY <1>1, ObjectPlaces
<1>4. f = e + 3 /\ Body(sent)[e + 1] = 0 /\ Body(sent)[e + 2] = 0 /\ Body(sent)[e + 3] = EndObject
  <2>1. /\ BodyEnd(sent, k) = ObjectEnd(k, Len(ps)) + 3
        /\ Body(sent)[ObjectEnd(k, Len(ps)) + 1] = 0
        /\ Body(sent)[ObjectEnd(k, Len(ps)) + 2] = 0
        /\ Body(sent)[ObjectEnd(k, Len(ps)) + 3] = EndObject
    BY ONLY <1>1, ObjectPlaces
  <2> QED BY <1>1, <2>1
<1>5. e \in Nat
  <2>1. Len(ps) \in 0 .. Len(ps)
    BY <1>3
  <2> QED BY <1>1, <1>3, <2>1
<1>6. Clean(e, f)
  <2>1. Clean(ObjectEnd(k, Len(ps)), BodyEnd(sent, k))
    BY ONLY <1>1, <1>2, CutOfPair
  <2> QED BY <1>1, <2>1
<1>7. f <= length /\ length \in Nat
  <2>1. k \in 0 .. Len(sent)
    BY ValuePlaces
  <2> QED BY <2>1, ValuePlaces, SentIs DEF SentInv
<1>8. x \in Seq(Byte) /\ Len(x) = 3 /\ x[1] = 0 /\ x[2] = 0 /\ x[3] = EndObject
  <2>1. 0 \in Byte /\ EndObject \in Byte
    BY DEF Byte, EndObject
  <2> QED BY <2>1
<1> HIDE DEF x
<1>9. \A i \in 1 .. Len(x) : Body(sent)[e + i] = x[i]
  <2>1. ASSUME NEW i \in 1 .. Len(x) PROVE Body(sent)[e + i] = x[i]
    <3>1. i = 1 \/ i = 2 \/ i = 3
      BY <1>8
    <3> QED BY <1>4, <1>8, <3>1
  <2> QED BY <2>1
<1>10. Plain(x, p) /\ Passed(f) = Passed(e)
  <2>1. /\ SentInv /\ buffer \in Seq(Byte) /\ x \in Seq(Byte) /\ e \in Nat /\ e + Len(x) <= length
        /\ TailInv(e + Passed(e)) /\ f = e + Len(x) /\ p = e + Passed(e)
    BY <1>4, <1>5, <1>7, <1>8
  <2>2. Clean(e, e + Len(x)) => Plain(x, e + Passed(e)) /\ Passed(e + Len(x)) = Passed(e)
    BY ONLY <1>9, <2>1, PartAt
  <2> QED BY <1>6, <2>1, <2>2
<1>11. p \in Nat /\ Passed(e) \in Nat
  BY <1>5 DEF Passed
<1>12. p + 3 = f + Passed(f)
  BY <1>4, <1>5, <1>10, <1>11
<1>13. /\ In(p) /\ In(p + 1) /\ In(p + 2)
       /\ At(p) = 0 /\ At(p + 1) = 0 /\ At(p + 2) = EndObject
  <2>1. \A i \in 1 .. 3 : In(p + i - 1) /\ At(p + i - 1) = x[i]
    BY <1>8, <1>10 DEF Plain
  <2>2. p + 1 - 1 = p /\ p + 2 - 1 = p + 1 /\ p + 3 - 1 = p + 2
    BY <1>11
  <2>3. /\ In(p + 1 - 1) /\ At(p + 1 - 1) = x[1]
        /\ In(p + 2 - 1) /\ At(p + 2 - 1) = x[2]
        /\ In(p + 3 - 1) /\ At(p + 3 - 1) = x[3]
    BY <2>1
  <2> QED BY <1>8, <2>2, <2>3
<1> QED BY <1>10, <1>11, <1>12, <1>13

\* The start of an object.
LEMMA OpenHere ==
    ASSUME SentInv, Foreseen, buffer \in Seq(Byte), NEW k \in 1 .. Len(sent), sent[k].type = "object",
           NEW e, e = BodyEnd(sent, k - 1), NEW f, f = ObjectEnd(k, 0),
           NEW p, p = e + Passed(e), TailInv(p)
    PROVE  /\ p \in Nat /\ p < length /\ In(p) /\ TypeAt(p) = "object"
           /\ p + 1 = f + Passed(f) /\ Passed(f) = Passed(e)
<1> DEFINE ps == sent[k].data
           x == <<3>>
<1>1. ps = sent[k].data /\ k \in 1 .. Len(sent) /\ sent[k].type = "object" /\ SentInv
  OBVIOUS
<1>2. cut \in {0} \cup NumberCuts
  BY DEF Foreseen
<1> HIDE DEF ps
<1>3. Len(ps) \in Nat /\ \A j \in 0 .. Len(ps) : \A m \in j .. Len(ps) : ObjectEnd(k, j) <= ObjectEnd(k, m)
  BY ONLY <1>1, ObjectPlaces
<1>4. \A j \in 0 .. Len(ps) : ObjectEnd(k, j) \in Nat
  BY ONLY <1>1, ObjectPlaces
<1>5. f = e + 1 /\ Body(sent)[e + 1] = 3 /\ BodyEnd(sent, k) = ObjectEnd(k, Len(ps)) + 3
  <2>1. /\ ObjectEnd(k, 0) = BodyEnd(sent, k - 1) + 1
        /\ BodyEnd(sent, k) = ObjectEnd(k, Len(ps)) + 3
        /\ Body(sent)[BodyEnd(sent, k - 1) + 1] = 3
    BY ONLY <1>1, ObjectPlaces
  <2> QED BY <2>1
<1>6. e \in Nat /\ length \in Nat /\ f + 3 <= length
  <2>1. e \in Nat
    BY ValuePlaces
  <2>2. k \in 0 .. Len(sent)
    BY ValuePlaces
  <2>3. BodyEnd(sent, k) <= length /\ length \in Nat
    BY <2>2, ValuePlaces, SentIs DEF SentInv
  <2>4. 0 \in 0 .. Len(ps) /\ Len(ps) \in 0 .. Len(ps)
    BY <1>3
  <2>5. f <= ObjectEnd(k, Len(ps)) /\ f \in Nat /\ ObjectEnd(k, Len(ps)) \in Nat
    BY <1>3, <1>4, <2>4
  <2> DEFINE o == ObjectEnd(k, Len(ps))
             g == BodyEnd(sent, k)
  <2>6. f <= o /\ f \in Nat /\ o \in Nat /\ g = o + 3 /\ g <= length /\ length \in Nat
    BY <1>5, <2>3, <2>5
  <2> HIDE DEF o, g
  <2>7. f + 3 <= length
    BY ONLY <2>6
  <2> QED BY <2>1, <2>3, <2>7
<1>7. Clean(e, f)
  <2>1. Clean(BodyEnd(sent, k - 1), ObjectEnd(k, 0))
    BY ONLY <1>1, <1>2, CutOfPair
  <2> QED BY <2>1
<1>8. x \in Seq(Byte) /\ Len(x) = 1 /\ x[1] = 3
  <2>1. 3 \in Byte
    BY DEF Byte
  <2> QED BY <2>1
<1> HIDE DEF x
<1>9. \A i \in 1 .. Len(x) : Body(sent)[e + i] = x[i]
  BY <1>5, <1>8
<1>10. Plain(x, p) /\ Passed(f) = Passed(e)
  <2>1. /\ SentInv /\ buffer \in Seq(Byte) /\ x \in Seq(Byte) /\ e \in Nat /\ e + Len(x) <= length
        /\ TailInv(e + Passed(e)) /\ f = e + Len(x) /\ p = e + Passed(e)
    BY <1>5, <1>6, <1>8
  <2>2. Clean(e, e + Len(x)) => Plain(x, e + Passed(e)) /\ Passed(e + Len(x)) = Passed(e)
    BY ONLY <1>9, <2>1, PartAt
  <2> QED BY <1>7, <2>1, <2>2
<1>11. p \in Nat /\ Passed(e) \in {0, 1}
  BY <1>6 DEF Passed
<1>12. p + 1 = f + Passed(f) /\ p < length
  <2> DEFINE a == Passed(e)
             b == Passed(f)
  <2>1. /\ a \in {0, 1} /\ b = a /\ p = e + a /\ f = e + 1 /\ f + 3 <= length
        /\ e \in Nat /\ length \in Nat
    BY <1>5, <1>6, <1>10, <1>11
  <2> HIDE DEF a, b
  <2>2. p + 1 = f + b /\ p < length
    BY ONLY <2>1
  <2> QED BY <2>2 DEF b
<1>13. In(p) /\ At(p) = 3
  <2>1. 1 \in 1 .. Len(x) /\ p + 1 - 1 = p
    BY <1>8, <1>11
  <2>2. In(p + 1 - 1) /\ At(p + 1 - 1) = x[1]
    BY <1>10, <2>1 DEF Plain
  <2> QED BY <1>8, <2>1, <2>2
<1>14. TypeAt(p) = "object"
  <2>1. "object" \in DOMAIN Marker /\ Marker["object"] = 3
    BY MarkerIs
  <2> QED BY <1>13, <2>1, TypeAtIs
<1> QED BY <1>10, <1>11, <1>12, <1>13, <1>14

-----------------------------------------------------------------------------
(* A body the decoder is made for.                                         *)

IsSeq(s) == s \in Seq({s[i] : i \in 1 .. Len(s)})

\* An object holds what the pairs hold: the booleans under their keys only.
Same(o, ps) == /\ o.number = MapOf(ps, "number")
               /\ o.string = MapOf(ps, "string")
               /\ DOMAIN o.boolean = DOMAIN MapOf(ps, "boolean")

\* The packet holds the first k values.
DecodedTo(k) == /\ packet.number = DataOf(Begin(sent, k), "number")
                /\ packet.string = DataOf(Begin(sent, k), "string")
                /\ Len(packet.boolean) = Len(DataOf(Begin(sent, k), "boolean"))
                /\ IsSeq(packet.object)
                /\ Len(packet.object) = Len(DataOf(Begin(sent, k), "object"))
                /\ \A i \in 1 .. Len(packet.object) :
                     Same(packet.object[i], DataOf(Begin(sent, k), "object")[i])

\* Behind value k, or past the end with every value there.
AtBlock(k) ==
    /\ DecodedTo(k) /\ byteError = Passed(BodyEnd(sent, k))
    /\ \/ processed = BodyEnd(sent, k) + Passed(BodyEnd(sent, k))
       \/ k = Len(sent) /\ processed >= length

\* Behind pair j of object k.
AtObject(k, j) ==
    /\ sent[k].type = "object"
    /\ DecodedTo(k - 1) /\ byteError = Passed(ObjectEnd(k, j))
    /\ processed = ObjectEnd(k, j) + Passed(ObjectEnd(k, j))
    /\ Same(object, Begin(sent[k].data, j))

\* Of a body that is foreseen, the decoder is behind a value or a pair and holds
\* what is before it; what is still to come is in the buffer as it was sent.
FInv == Foreseen =>
          \/ pc = "block" /\ TailInv(processed) /\ \E k \in 0 .. Len(sent) : AtBlock(k)
          \/ pc = "object" /\ TailInv(processed)
               /\ \E k \in 1 .. Len(sent) : \E j \in 0 .. Len(sent[k].data) : AtObject(k, j)
          \/ pc = "done" /\ DecodedTo(Len(sent)) /\ byteError = IF cut = 0 THEN 0 ELSE 1

\* One more element.
LEMMA Appended ==
    ASSUME NEW s, IsSeq(s), NEW x
    PROVE  /\ IsSeq(Append(s, x)) /\ Len(Append(s, x)) = Len(s) + 1 /\ Len(s) \in Nat
           /\ \A i \in 1 .. Len(s) : Append(s, x)[i] = s[i]
           /\ Append(s, x)[Len(s) + 1] = x
<1> DEFINE T == {s[i] : i \in 1 .. Len(s)} \cup {x}
           y == Append(s, x)
<1>1. s \in Seq(T) /\ x \in T
  BY DEF IsSeq
<1>2. Len(s) \in Nat
  BY <1>1, LenType
<1> HIDE DEF T
<1>3. /\ y \in Seq(T) /\ Len(y) = Len(s) + 1
      /\ \A i \in 1 .. Len(s) : y[i] = s[i]
      /\ y[Len(s) + 1] = x
  BY <1>1, <1>2, AppendProperties
<1> HIDE DEF y
<1>4. IsSeq(y)
  <2> DEFINE U == {y[i] : i \in 1 .. Len(y)}
  <2>1. \A i \in 1 .. Len(y) : y[i] \in U
    OBVIOUS
  <2> HIDE DEF U
  <2>2. y = [i \in 1 .. Len(y) |-> y[i]] /\ Len(y) \in Nat
    BY <1>3
  <2>3. y \in Seq(U)
    BY <2>1, <2>2
  <2> QED BY <2>3 DEF IsSeq, U
<1> QED BY <1>2, <1>3, <1>4 DEF y

\* What an action leaves alone.
LEMMA Kept ==
    ASSUME TInv, [Next]_vars
    PROVE  Len(buffer') = Len(buffer) /\ sent' = sent /\ cut' = cut /\ length' = length
<1>1. sent' = sent /\ cut' = cut /\ length' = length
  BY DEF Next, BlockValue, SkipValue, OpenObject, Pair, CloseObject, Finish, Outside, vars
<1>2. buffer \in Seq(Byte) /\ byteError \in Nat /\ processed \in Nat
  BY DEF TInv, BytesInv
<1>3. ASSUME NEW t \in DOMAIN Marker, NEW p \in Nat, p <= Len(buffer), Readable(t, p), Pass(t, p)
      PROVE  Len(buffer') = Len(buffer)
  BY <1>2, <1>3, PassType
<1>4. In(processed) => processed + 1 \in Nat /\ processed + 1 <= Len(buffer)
  BY <1>2, LenType DEF In
<1>5. ASSUME NEW t \in Scalars, BlockValue(t) PROVE Len(buffer') = Len(buffer)
  <2>1. In(processed) /\ Readable(t, processed + 1) /\ Pass(t, processed + 1)
    BY <1>5 DEF BlockValue, AtValue
  <2>2. t \in DOMAIN Marker
    BY MarkerIs DEF Scalars
  <2> QED BY <1>3, <1>4, <2>1, <2>2
<1>6. ASSUME SkipValue PROVE Len(buffer') = Len(buffer)
  <2> DEFINE t == TypeAt(processed)
  <2>1. In(processed) /\ t \in {"null", "undefined"} /\ Pass(t, processed + 1)
    BY <1>6 DEF SkipValue, AtValue
  <2> HIDE DEF t
  <2>2. t \in DOMAIN Marker /\ Readable(t, processed + 1)
    BY <2>1, MarkerIs DEF Readable
  <2> QED BY <1>3, <1>4, <2>1, <2>2
<1>7. ASSUME Pair PROVE Len(buffer') = Len(buffer)
  <2> DEFINE t == TypeAt(TypePlace)
  <2>1. Readable("string", processed) /\ In(TypePlace) /\ Readable(t, ValuePlace) /\ Pass(t, ValuePlace)
    BY <1>7 DEF Pair, PairReadable
  <2>2. ValuePlace \in Nat /\ ValuePlace <= Len(buffer)
    <3>1. StringLength(processed) \in Nat
      BY <1>2, <2>1, ReadString
    <3> QED BY <1>2, <2>1, <3>1, LenType DEF TypePlace, ValuePlace, In
  <2>3. t \in DOMAIN Marker
    BY TypeAtIs
  <2> QED BY <1>3, <2>1, <2>2, <2>3
<1>8. ASSUME OpenObject \/ CloseObject \/ Finish \/ Outside \/ UNCHANGED vars PROVE Len(buffer') = Len(buffer)
  BY <1>8 DEF OpenObject, CloseObject, Finish, Outside, vars
<1> QED BY <1>1, <1>5, <1>6, <1>7, <1>8 DEF Next

\* Whether a body is foreseen does not change.
LEMMA ForeseenKept ==
    ASSUME Len(buffer') = Len(buffer), sent' = sent, cut' = cut, Foreseen'
    PROVE  Foreseen
<1>1. NumberCuts' = NumberCuts
  BY DEF NumberCuts, Start
<1> QED BY <1>1 DEF Foreseen, Mistaken

Named == {"number", "boolean", "string", "object"}

\* The packet holds one value more: that of its type is appended.
LEMMA DecodedNext ==
    ASSUME SentInv, packet.boolean \in Seq(BOOLEAN), sent' = sent,
           NEW k \in 1 .. Len(sent), DecodedTo(k - 1),
           NEW t, t = sent[k].type, NEW x,
           \A u \in Named : packet'[u] = IF u = t THEN Append(packet[u], x) ELSE packet[u],
           t \in {"number", "string"} => x = sent[k].data,
           t = "boolean" => x \in BOOLEAN,
           t = "object" => Same(x, sent[k].data)
    PROVE  DecodedTo(k)'
<1> DEFINE D(u, j) == DataOf(Begin(sent, j), u)
           d == sent[k].data
           S == DataSet(sent)
<1>1. sent \in Seq(Values) /\ k \in 1 .. Len(sent) /\ k - 1 \in 0 .. Len(sent) /\ k \in 0 .. Len(sent)
  <2>1. Len(sent) \in Nat
    BY LenType DEF SentInv
  <2> QED BY <2>1 DEF SentInv
<1>2. ASSUME NEW u
      PROVE  /\ D(u, k) = IF u = t THEN Append(D(u, k - 1), d) ELSE D(u, k - 1)
             /\ D(u, k - 1) \in Seq(S)
  <2>1. sent \in Seq(Values)
    BY <1>1
  <2>2. \A j \in 0 .. Len(sent) : DataOf(Begin(sent, j), u) \in Seq(DataSet(sent))
    BY ONLY <2>1, DataFront
  <2>3. \A j \in 1 .. Len(sent) :
          DataOf(Begin(sent, j), u) = IF sent[j].type = u
                                      THEN Append(DataOf(Begin(sent, j - 1), u), sent[j].data)
                                      ELSE DataOf(Begin(sent, j - 1), u)
    BY ONLY <2>1, DataFront
  <2> QED BY <1>1, <2>2, <2>3
<1>3. d \in S
  BY DEF DataSet
<1>4. /\ packet.number = D("number", k - 1)
      /\ packet.string = D("string", k - 1)
      /\ Len(packet.boolean) = Len(D("boolean", k - 1))
      /\ IsSeq(packet.object)
      /\ Len(packet.object) = Len(D("object", k - 1))
      /\ \A i \in 1 .. Len(packet.object) : Same(packet.object[i], D("object", k - 1)[i])
  BY DEF DecodedTo
<1>5. /\ packet'.number = IF "number" = t THEN Append(packet.number, x) ELSE packet.number
      /\ packet'.string = IF "string" = t THEN Append(packet.string, x) ELSE packet.string
      /\ packet'.boolean = IF "boolean" = t THEN Append(packet.boolean, x) ELSE packet.boolean
      /\ packet'.object = IF "object" = t THEN Append(packet.object, x) ELSE packet.object
  <2>1. "number" \in Named /\ "string" \in Named /\ "boolean" \in Named /\ "object" \in Named
    BY DEF Named
  <2> QED BY <2>1
<1> HIDE DEF D, d, S
<1>6. packet'.number = D("number", k) /\ packet'.string = D("string", k)
  BY <1>2, <1>4, <1>5 DEF d
<1>7. Len(packet'.boolean) = Len(D("boolean", k))
  <2>1. CASE t = "boolean"
    <3>1. Len(Append(packet.boolean, x)) = Len(packet.boolean) + 1
      BY <2>1, AppendProperties
    <3>2. Len(Append(D("boolean", k - 1), d)) = Len(D("boolean", k - 1)) + 1
      BY <1>2, <1>3, AppendProperties
    <3> QED BY <1>2, <1>4, <1>5, <2>1, <3>1, <3>2
  <2>2. CASE t # "boolean"
    BY <1>2, <1>4, <1>5, <2>2
  <2> QED BY <2>1, <2>2
<1>8. /\ IsSeq(packet'.object)
      /\ Len(packet'.object) = Len(D("object", k))
      /\ \A i \in 1 .. Len(packet'.object) : Same(packet'.object[i], D("object", k)[i])
  <2>1. CASE t = "object"
    <3> DEFINE o == packet.object
               w == D("object", k - 1)
    <3>1. packet'.object = Append(o, x) /\ D("object", k) = Append(w, d)
      BY <1>2, <1>5, <2>1
    <3>2. IsSeq(o) /\ Len(o) = Len(w) /\ w \in Seq(S) /\ \A i \in 1 .. Len(o) : Same(o[i], w[i])
      BY <1>2, <1>4
    <3> HIDE DEF o, w
    <3>3. /\ IsSeq(Append(o, x)) /\ Len(Append(o, x)) = Len(o) + 1 /\ Len(o) \in Nat
          /\ \A i \in 1 .. Len(o) : Append(o, x)[i] = o[i]
          /\ Append(o, x)[Len(o) + 1] = x
      BY <3>2, Appended
    <3>4. /\ Len(Append(w, d)) = Len(w) + 1
          /\ \A i \in 1 .. Len(w) : Append(w, d)[i] = w[i]
          /\ Append(w, d)[Len(w) + 1] = d
      BY <1>3, <3>2, AppendProperties
    <3>5. ASSUME NEW i \in 1 .. Len(Append(o, x)) PROVE Same(Append(o, x)[i], Append(w, d)[i])
      <4>1. CASE i \in 1 .. Len(o)
        <5>1. Append(o, x)[i] = o[i] /\ Append(w, d)[i] = w[i] /\ Same(o[i], w[i])
          BY <3>2, <3>3, <3>4, <4>1
        <5> QED BY <5>1
      <4>2. CASE i = Len(o) + 1
        <5>1. Append(o, x)[i] = x /\ Append(w, d)[i] = d
          BY <3>2, <3>3, <3>4, <4>2
        <5> QED BY <2>1, <5>1 DEF d
      <4>3. i \in 1 .. Len(o) \/ i = Len(o) + 1
        <5> DEFINE m == Len(Append(o, x))
                   n == Len(o)
        <5>1. i \in 1 .. m /\ m = n + 1 /\ n \in Nat
          BY <3>3
        <5> HIDE DEF m, n
        <5>2. i \in 1 .. n \/ i = n + 1
          BY ONLY <5>1
        <5> QED BY <5>2 DEF n
      <4> QED BY <4>1, <4>2, <4>3
    <3> QED BY <3>1, <3>2, <3>3, <3>4, <3>5
  <2>2. CASE t # "object"
    <3>1. packet'.object = packet.object /\ D("object", k) = D("object", k - 1)
      BY <1>2, <1>5, <2>2
    <3> QED BY <1>4, <3>1
  <2> QED BY <2>1, <2>2
<1> QED BY <1>6, <1>7, <1>8 DEF DecodedTo, D, Same

\* A packet that is left alone holds what it held.
LEMMA DecodedKept ==
    ASSUME NEW k, DecodedTo(k), sent' = sent, packet' = packet
    PROVE  DecodedTo(k)'
BY DEF DecodedTo, Same

\* Where an action leaves the decoder.
LEMMA AtBlockNext ==
    ASSUME sent' = sent, cut' = cut, length' = length, NEW k, DecodedTo(k)',
           byteError' = Passed(BodyEnd(sent, k)),
           processed' = BodyEnd(sent, k) + Passed(BodyEnd(sent, k)) \/ (k = Len(sent) /\ processed' >= length)
    PROVE  AtBlock(k)'
BY DEF AtBlock, Passed

\* Where an action leaves the decoder in an object.
LEMMA AtObjectNext ==
    ASSUME sent' = sent, cut' = cut, NEW k, NEW j, sent[k].type = "object", DecodedTo(k - 1)',
           byteError' = Passed(ObjectEnd(k, j)),
           processed' = ObjectEnd(k, j) + Passed(ObjectEnd(k, j)),
           Same(object', Begin(sent[k].data, j))
    PROVE  AtObject(k, j)'
BY DEF AtObject, Passed, ObjectEnd, Same

\* The decoder starts before the first value.
LEMMA FInit == Init => FInv
<1> SUFFICES ASSUME Init PROVE FInv
  OBVIOUS
<1>1. /\ SentInv /\ TailInv(0) /\ pc = "block" /\ processed = 0 /\ byteError = 0
      /\ packet = EmptyPacket
  BY InitIs
<1>2. sent \in Seq(Values) /\ cut \in Nat /\ BodyEnd(sent, 0) = 0 /\ 0 \in 0 .. Len(sent)
  <2>1. Len(sent) \in Nat /\ BodyEnd(sent, 0) = 0
    BY <1>1, ValuePlaces
  <2> QED BY <1>1, <2>1 DEF SentInv
<1>3. \A u : DataOf(Begin(sent, 0), u) = <<>>
  BY ONLY <1>2, DataFront
<1>4. packet.number = <<>> /\ packet.string = <<>> /\ packet.boolean = <<>> /\ packet.object = <<>>
  BY <1>1 DEF EmptyPacket
<1>5. IsSeq(<<>>) /\ Len(<<>>) = 0
  BY DEF IsSeq
<1>6. DecodedTo(0)
  <2>1. \A i \in 1 .. Len(packet.object) : FALSE
    BY <1>4, <1>5
  <2> QED BY <1>3, <1>4, <1>5, <2>1 DEF DecodedTo
<1>7. Passed(BodyEnd(sent, 0)) = 0
  BY <1>2 DEF Passed
<1>8. AtBlock(0)
  BY <1>1, <1>2, <1>6, <1>7 DEF AtBlock
<1> QED BY <1>1, <1>2, <1>8 DEF FInv

\* The decoder is at the type of the next value.
LEMMA NextValue ==
    ASSUME SentInv, Foreseen, buffer \in Seq(Byte), NEW k \in 0 .. Len(sent), AtBlock(k), TailInv(processed),
           processed \in Nat, processed < length, NEW e, e = BodyEnd(sent, k)
    PROVE  /\ k + 1 \in 1 .. Len(sent) /\ k = (k + 1) - 1 /\ processed = e + Passed(e)
           /\ processed \in Nat /\ In(processed) /\ TypeAt(processed) = sent[k + 1].type
<1>1. length \in Nat /\ Len(sent) \in Nat /\ e \in Nat /\ BodyEnd(sent, Len(sent)) = length
  BY ValuePlaces, SentIs DEF SentInv
<1>2. processed = e + Passed(e) /\ Passed(e) \in {0, 1}
  <2>1. processed = e + Passed(e) \/ processed >= length
    BY DEF AtBlock
  <2>2. ~(processed >= length)
    BY <1>1
  <2> QED BY <2>1, <2>2 DEF Passed
<1>3. k # Len(sent)
  <2>1. SUFFICES ASSUME k = Len(sent) PROVE FALSE
    OBVIOUS
  <2>2. e = length
    BY <1>1, <2>1
  <2> QED BY <1>1, <1>2, <2>2
<1>4. k + 1 \in 1 .. Len(sent) /\ k = (k + 1) - 1
  BY <1>1, <1>3
<1>5. processed \in Nat
  BY <1>1, <1>2
<1> DEFINE m == k + 1
<1>6. m \in 1 .. Len(sent) /\ e = BodyEnd(sent, m - 1)
  BY <1>4
<1> HIDE DEF m
<1>7. CASE sent[m].type = "object"
  <2>1. In(processed) /\ TypeAt(processed) = "object"
    <3>1. \E f : f = ObjectEnd(m, 0)
      OBVIOUS
    <3> QED BY <1>2, <1>6, <1>7, <3>1, OpenHere
  <2> QED BY <1>2, <1>4, <1>5, <1>7, <2>1 DEF m
<1>8. CASE sent[m].type # "object"
  <2>1. In(e + Passed(e)) /\ TypeAt(e + Passed(e)) = sent[m].type
    <3>1. TailInv(e + Passed(e))
      BY <1>2
    <3>2. SentInv /\ Foreseen /\ buffer \in Seq(Byte)
      OBVIOUS
    <3> QED BY ONLY <1>6, <1>8, <3>1, <3>2, ValueHere
  <2> QED BY <1>2, <1>4, <1>5, <2>1 DEF m
<1> QED BY <1>7, <1>8

\* Past a value that is not an object.
LEMMA ValuePassed ==
    ASSUME SentInv, Foreseen, buffer \in Seq(Byte), NEW k \in 0 .. Len(sent), AtBlock(k), TailInv(processed),
           processed \in Nat, processed < length, UNCHANGED <<sent, cut, length>>,
           NEW t, t = TypeAt(processed), t # "object", Pass(t, processed + 1), DecodedTo(k + 1)'
    PROVE  TailInv(processed)' /\ AtBlock(k + 1)'
<1> DEFINE e == BodyEnd(sent, k)
           m == k + 1
           f == BodyEnd(sent, m)
           v == sent[m]
           p == processed
<1>1. m \in 1 .. Len(sent) /\ k = m - 1 /\ p = e + Passed(e) /\ p \in Nat /\ t = v.type
  BY NextValue
<1>2. SentInv /\ Foreseen /\ buffer \in Seq(Byte) /\ TailInv(e + Passed(e)) /\ v.type # "object"
  BY <1>1
<1>3. e = BodyEnd(sent, m - 1) /\ f = BodyEnd(sent, m) /\ v = sent[m]
  BY <1>1
<1>4. byteError = Passed(e) /\ DecodedTo(m)'
  BY DEF AtBlock
<1> HIDE DEF e, m, f, v
<1>5. /\ v.type # "null" =>
           /\ Readable(v.type, e + Passed(e) + 1) /\ Size(v.type, e + Passed(e) + 1) \in Nat
           /\ e + Passed(e) + 1 + Size(v.type, e + Passed(e) + 1) + Extra(v.type, e + Passed(e) + 1)
                = f + Passed(f)
           /\ Passed(e) + Extra(v.type, e + Passed(e) + 1) = Passed(f)
      /\ v.type = "null" => m = Len(sent) /\ Passed(f) = Passed(e) /\ e + Passed(e) + 2 >= length
  BY ONLY <1>1, <1>2, <1>3, ValueHere
<1>6. /\ processed' = p + 1 + Size(t, p + 1) + Extra(t, p + 1)
      /\ byteError' = byteError + Extra(t, p + 1)
  BY DEF Pass
<1>7. CASE t # "null"
  <2>1. Readable(t, p + 1) /\ Size(t, p + 1) \in Nat /\ processed' = f + Passed(f) /\ byteError' = Passed(f)
    BY <1>1, <1>4, <1>5, <1>6, <1>7
  <2>2. TailInv(processed)'
    <3>1. p + 1 \in Nat /\ p <= p + 1 /\ TailInv(p)
      BY <1>1
    <3> QED BY <1>1, <2>1, <3>1, PassTail
  <2>3. AtBlock(m)'
    BY <1>3, <1>4, <2>1, AtBlockNext
  <2> QED BY <2>2, <2>3 DEF m
<1>8. CASE t = "null"
  <2>1. Size(t, p + 1) = 1 /\ Extra(t, p + 1) = 0 /\ Readable(t, p + 1)
    BY <1>8 DEF Size, Extra, Readable
  <2>2. m = Len(sent) /\ Passed(f) = Passed(e) /\ p + 2 >= length
    BY <1>1, <1>5, <1>8
  <2>3. Passed(e) \in Nat
    BY DEF Passed
  <2>4. processed' >= length /\ byteError' = Passed(f)
    <3>1. processed' = p + 1 + 1 + 0 /\ byteError' = Passed(f) + 0 /\ Passed(f) \in Nat
      BY <1>4, <1>6, <2>1, <2>2, <2>3
    <3>2. processed' = p + 2 /\ byteError' = Passed(f)
      BY ONLY <1>1, <3>1
    <3> QED BY <2>2, <3>2
  <2>5. TailInv(processed)'
    <3>1. p + 1 \in Nat /\ p <= p + 1 /\ TailInv(p)
      BY <1>1
    <3> QED BY <1>1, <2>1, <3>1, PassTail
  <2>6. AtBlock(m)'
    BY <1>3, <1>4, <2>2, <2>4, AtBlockNext
  <2> QED BY <2>5, <2>6 DEF m
<1> QED BY <1>7, <1>8

\* The buffer that is left alone, further on.
LEMMA TailKept ==
    ASSUME buffer' = buffer, sent' = sent, cut' = cut, processed \in Nat, processed' \in Nat,
           processed <= processed', TailInv(processed)
    PROVE  TailInv(processed)'
<1>1. Wire' = Wire
  BY DEF Wire
<1>2. \A q \in Nat : processed' <= q => processed <= q
  OBVIOUS
<1> QED BY <1>1, <1>2 DEF TailInv, At

\* A front that is everything.
LEMMA WholeFront == ASSUME NEW T, NEW s \in Seq(T) PROVE Begin(s, Len(s)) = s
<1>1. Len(s) \in 0 .. Len(s)
  BY LenType
<1>2. /\ Begin(s, Len(s)) \in Seq(T) /\ Len(Begin(s, Len(s))) = Len(s)
      /\ \A i \in 1 .. Len(s) : Begin(s, Len(s))[i] = s[i]
  BY <1>1, SliceOf DEF Begin
<1> QED BY <1>2, SeqEqual

\* A value is stored behind those before it.
LEMMA BlockValueStep ==
    ASSUME TInv, SentInv, Foreseen, NEW k \in 0 .. Len(sent), AtBlock(k), TailInv(processed),
           NEW t \in Scalars, BlockValue(t)
    PROVE  pc' = "block" /\ TailInv(processed)' /\ k + 1 \in 0 .. Len(sent) /\ AtBlock(k + 1)'
<1> DEFINE m == k + 1
           p == processed
           x == ValueAt(t, p + 1)
<1>1. /\ pc = "block" /\ p < length /\ TypeAt(p) = t /\ Readable(t, p + 1)
      /\ packet' = [packet EXCEPT ![t] = Append(@, x)] /\ Pass(t, p + 1)
      /\ UNCHANGED <<length, pc, object, sent, cut>>
  BY DEF BlockValue, AtValue
<1>2. p \in Nat /\ buffer \in Seq(Byte) /\ PacketInv
  BY DEF TInv, BytesInv
<1> DEFINE e == BodyEnd(sent, k)
<1>3. m \in 1 .. Len(sent) /\ k = m - 1 /\ p = e + Passed(e) /\ t = sent[m].type
  BY <1>1, <1>2, NextValue
<1>4. t \in {"number", "boolean", "string"} /\ t # "object" /\ t # "null"
  BY DEF Scalars
<1>5. t = "boolean" => x \in BOOLEAN
  <2>1. p + 1 \in Nat
    BY <1>2
  <2> QED BY <1>1, <1>2, <2>1, ValueType
<1>6. e = BodyEnd(sent, m - 1) /\ TailInv(e + Passed(e)) /\ sent[m].type # "object" /\ sent[m].type # "null"
  BY <1>3, <1>4
<1> HIDE DEF m, e, x
<1>7. t \in {"number", "string"} => x = sent[m].data
  <2>1. /\ SentInv /\ Foreseen /\ buffer \in Seq(Byte)
        /\ m \in 1 .. Len(sent) /\ e = BodyEnd(sent, m - 1) /\ TailInv(e + Passed(e)) /\ sent[m].type # "object"
    BY <1>2, <1>3, <1>6
  <2>2. sent[m].type # "null" /\ sent[m].type \in {"number", "string"} =>
          ValueAt(sent[m].type, e + Passed(e) + 1) = sent[m].data
    BY ONLY <2>1, ValueHere
  <2> QED BY <1>3, <1>4, <2>2 DEF x
<1>8. \A u \in Named : packet'[u] = IF u = t THEN Append(packet[u], x) ELSE packet[u]
  BY <1>1, <1>2, <1>4 DEF Named, PacketInv
<1>9. DecodedTo(m)'
  <2>1. DecodedTo(m - 1) /\ packet.boolean \in Seq(BOOLEAN) /\ sent' = sent
    BY <1>1, <1>2, <1>3 DEF AtBlock, PacketInv
  <2>2. t = "object" => Same(x, sent[m].data)
    BY <1>4
  <2> QED BY <1>3, <1>5, <1>7, <1>8, <2>1, <2>2, DecodedNext
<1>10. TailInv(processed)' /\ AtBlock(k + 1)'
  <2>1. DecodedTo(k + 1)'
    BY <1>9 DEF m
  <2> QED BY <1>1, <1>2, <1>4, <2>1, ValuePassed
<1>11. k + 1 \in 0 .. Len(sent)
  BY <1>3 DEF m
<1> QED BY <1>1, <1>10, <1>11

\* A null or an undefined value is passed.
LEMMA SkipValueStep ==
    ASSUME TInv, SentInv, Foreseen, NEW k \in 0 .. Len(sent), AtBlock(k), TailInv(processed), SkipValue
    PROVE  pc' = "block" /\ TailInv(processed)' /\ k + 1 \in 0 .. Len(sent) /\ AtBlock(k + 1)'
<1> DEFINE m == k + 1
           p == processed
           t == TypeAt(processed)
<1>1. /\ pc = "block" /\ p < length /\ t \in {"null", "undefined"} /\ Pass(t, p + 1)
      /\ UNCHANGED <<length, pc, packet, object, sent, cut>>
  BY DEF SkipValue, AtValue
<1>2. p \in Nat /\ buffer \in Seq(Byte) /\ PacketInv
  BY DEF TInv, BytesInv
<1>3. m \in 1 .. Len(sent) /\ k = m - 1 /\ t = sent[m].type
  BY <1>1, <1>2, NextValue
<1>4. t \notin Named /\ t # "object"
  BY <1>1 DEF Named
<1> HIDE DEF m, t
<1>5. DecodedTo(m)'
  <2>1. DecodedTo(m - 1) /\ packet.boolean \in Seq(BOOLEAN) /\ sent' = sent
    BY <1>1, <1>2, <1>3 DEF AtBlock, PacketInv
  <2>2. \A u \in Named : packet'[u] = IF u = t THEN Append(packet[u], <<>>) ELSE packet[u]
    BY <1>1, <1>4
  <2>3. t # "number" /\ t # "string" /\ t # "boolean"
    BY <1>1
  <2> QED BY <1>3, <1>4, <2>1, <2>2, <2>3, DecodedNext
<1>6. TailInv(processed)' /\ AtBlock(k + 1)'
  <2>1. DecodedTo(k + 1)' /\ t = TypeAt(processed)
    BY <1>5 DEF m, t
  <2> QED BY <1>1, <1>2, <1>4, <2>1, ValuePassed
<1>7. k + 1 \in 0 .. Len(sent)
  BY <1>3 DEF m
<1> QED BY <1>1, <1>6, <1>7

\* An object that is opened has no pair yet.
LEMMA OpenObjectStep ==
    ASSUME TInv, SentInv, Foreseen, NEW k \in 0 .. Len(sent), AtBlock(k), TailInv(processed), OpenObject
    PROVE  pc' = "object" /\ TailInv(processed)' /\ k + 1 \in 1 .. Len(sent)
           /\ 0 \in 0 .. Len(sent[k + 1].data) /\ AtObject(k + 1, 0)'
<1> DEFINE m == k + 1
           p == processed
           e == BodyEnd(sent, k)
           ps == sent[m].data
           f == ObjectEnd(m, 0)
<1>1. /\ pc = "block" /\ p < length /\ TypeAt(p) = "object" /\ pc' = "object"
      /\ object' = EmptyObject /\ processed' = p + 1
      /\ UNCHANGED <<buffer, length, byteError, packet, sent, cut>>
  BY DEF OpenObject, AtValue
<1>2. p \in Nat /\ buffer \in Seq(Byte)
  BY DEF TInv, BytesInv
<1>3. m \in 1 .. Len(sent) /\ k = m - 1 /\ p = e + Passed(e) /\ sent[m].type = "object"
  BY <1>1, <1>2, NextValue
<1>4. e = BodyEnd(sent, m - 1) /\ f = ObjectEnd(m, 0) /\ ps = sent[m].data
  BY <1>3
<1>5. byteError = Passed(e) /\ DecodedTo(m - 1)
  BY <1>3 DEF AtBlock
<1> HIDE DEF m, e, ps, f
<1>6. p + 1 = f + Passed(f) /\ Passed(f) = Passed(e)
  <2>1. SentInv /\ Foreseen /\ buffer \in Seq(Byte) /\ TailInv(p)
    BY <1>2
  <2> QED BY ONLY <1>3, <1>4, <2>1, OpenHere
<1>7. ps \in Seq(PairType) /\ Len(ps) \in Nat
  <2>1. SentInv
    OBVIOUS
  <2> QED BY ONLY <1>3, <1>4, <2>1, ObjectPlaces
<1>8. Same(object', Begin(ps, 0))
  <2>1. \A u : MapOf(Begin(ps, 0), u) = <<>>
    BY ONLY <1>7, MapFront
  <2> QED BY <1>1, <2>1 DEF Same, EmptyObject
<1>9. DecodedTo(m - 1)'
  BY <1>1, <1>5, DecodedKept
<1>10. AtObject(m, 0)'
  BY <1>1, <1>3, <1>4, <1>5, <1>6, <1>8, <1>9, AtObjectNext
<1>11. TailInv(processed)'
  BY <1>1, <1>2, TailKept
<1> QED BY <1>1, <1>3, <1>4, <1>7, <1>10, <1>11 DEF m

\* In an object, the decoder is at a pair or at the end.
LEMMA InObject ==
    ASSUME TInv, SentInv, Foreseen, NEW k \in 1 .. Len(sent), NEW j \in 0 .. Len(sent[k].data),
           AtObject(k, j), TailInv(processed), NEW n, n = Len(sent[k].data)
    PROVE  /\ n \in Nat /\ EndReadable
           /\ IsEndObject <=> j = n
           /\ processed >= length => j = n
           /\ j = n => LET f == BodyEnd(sent, k)
                       IN  processed + 3 = f + Passed(f) /\ byteError = Passed(f)
           /\ j # n => /\ j + 1 \in 1 .. n /\ PairReadable /\ byteError = Passed(ObjectEnd(k, j))
                       /\ PairAt(processed, sent[k].data[j + 1], ObjectEnd(k, j), ObjectEnd(k, j + 1))
<1> DEFINE p == processed
           ps == sent[k].data
<1>1. p \in Nat /\ buffer \in Seq(Byte) /\ length \in Nat
  BY DEF TInv, BytesInv
<1>2. /\ sent[k].type = "object" /\ byteError = Passed(ObjectEnd(k, j))
      /\ p = ObjectEnd(k, j) + Passed(ObjectEnd(k, j))
  BY DEF AtObject
<1>3. n \in Nat
  <2>1. SentInv /\ k \in 1 .. Len(sent) /\ ps = sent[k].data
    OBVIOUS
  <2> HIDE DEF ps
  <2>2. Len(ps) \in Nat
    BY ONLY <1>2, <2>1, ObjectPlaces
  <2> QED BY <2>1, <2>2
<1>4. SentInv /\ Foreseen /\ buffer \in Seq(Byte) /\ k \in 1 .. Len(sent) /\ TailInv(p)
  BY <1>1
<1>5. CASE j = n
  <2> DEFINE f == BodyEnd(sent, k)
             e == ObjectEnd(k, j)
  <2>1. e = ObjectEnd(k, Len(sent[k].data)) /\ f = BodyEnd(sent, k) /\ p = e + Passed(e)
    BY <1>2, <1>5
  <2> HIDE DEF e, f
  <2>2. /\ In(p) /\ In(p + 1) /\ In(p + 2)
        /\ At(p) = 0 /\ At(p + 1) = 0 /\ At(p + 2) = EndObject
        /\ p + 3 = f + Passed(f) /\ Passed(f) = Passed(e)
    BY ONLY <1>2, <1>4, <2>1, EndHere
  <2>3. EndReadable /\ IsEndObject
    BY <2>2 DEF EndReadable, IsEndObject
  <2> QED BY <1>2, <1>3, <1>5, <2>2, <2>3 DEF e, f
<1>6. CASE j # n
  <2> DEFINE i == j + 1
             c == sent[k].data[i]
             e == ObjectEnd(k, j)
             f == ObjectEnd(k, i)
             t == c.value.type
             q == p + 2 + StringLength(p)
  <2>1. i \in 1 .. n /\ j = i - 1
    BY <1>3, <1>6
  <2>2. /\ i \in 1 .. Len(sent[k].data) /\ e = ObjectEnd(k, i - 1) /\ f = ObjectEnd(k, i)
        /\ c = sent[k].data[i] /\ p = e + Passed(e) /\ q = p + 2 + StringLength(p) /\ t = c.value.type
    BY <1>2, <2>1
  <2> HIDE DEF i, e, f, q, c, t
  <2>9. PairAt(p, c, e, f)
    BY ONLY <1>2, <1>4, <2>2, PairHere
  <2>3. /\ p \in Nat /\ p < length /\ In(p) /\ In(p + 1) /\ In(p + 2)
        /\ ~(At(p) = 0 /\ At(p + 1) = 0 /\ At(p + 2) = EndObject)
        /\ Readable("string", p) /\ StringAt(p) = c.key
        /\ q \in Nat /\ p <= q /\ In(q) /\ TypeAt(q) = t
        /\ Readable(t, q + 1) /\ Size(t, q + 1) \in Nat
        /\ q + 1 + Size(t, q + 1) + Extra(t, q + 1) = f + Passed(f)
        /\ Passed(e) + Extra(t, q + 1) = Passed(f)
        /\ t \in {"number", "string"} => ValueAt(t, q + 1) = c.value.data
    BY ONLY <2>2, <2>9 DEF PairAt
  <2>4. TypePlace = q /\ ValuePlace = q + 1
    BY <2>2 DEF TypePlace, ValuePlace
  <2>5. EndReadable /\ ~IsEndObject
    BY <2>3 DEF EndReadable, IsEndObject
  <2>6. PairReadable
    BY <2>3, <2>4 DEF PairReadable
  <2>7. ~(p >= length)
    BY <1>1, <2>3
  <2>8. byteError = Passed(e)
    BY <1>2 DEF e
  <2>10. PairAt(p, sent[k].data[j + 1], ObjectEnd(k, j), ObjectEnd(k, j + 1))
    BY <2>9 DEF c, e, f, i
  <2> QED BY <1>3, <1>6, <2>1, <2>5, <2>6, <2>7, <2>8, <2>10 DEF e, i
<1> QED BY <1>5, <1>6

\* Past the end of an object.
LEMMA CloseObjectStep ==
    ASSUME TInv, SentInv, Foreseen, NEW k \in 1 .. Len(sent), NEW j \in 0 .. Len(sent[k].data),
           AtObject(k, j), TailInv(processed), CloseObject
    PROVE  pc' = "block" /\ TailInv(processed)' /\ k \in 0 .. Len(sent) /\ AtBlock(k)'
<1> DEFINE p == processed
           ps == sent[k].data
           n == Len(ps)
           f == BodyEnd(sent, k)
<1>1. /\ IsEndObject \/ p >= length
      /\ packet' = [packet EXCEPT !.object = Append(@, object)]
      /\ processed' = p + 3 /\ pc' = "block"
      /\ UNCHANGED <<buffer, length, byteError, object, sent, cut>>
  BY DEF CloseObject
<1>2. p \in Nat /\ PacketInv
  BY DEF TInv, BytesInv
<1>3. j = n /\ p + 3 = f + Passed(f) /\ byteError = Passed(f)
  BY <1>1, InObject
<1>4. sent[k].type = "object" /\ DecodedTo(k - 1) /\ Same(object, Begin(ps, j))
  BY DEF AtObject
<1>5. ps = sent[k].data
  OBVIOUS
<1> HIDE DEF ps, n, f
<1>6. Begin(ps, j) = ps
  <2>1. SentInv /\ k \in 1 .. Len(sent)
    OBVIOUS
  <2>2. ps \in Seq(PairType)
    BY ONLY <1>4, <1>5, <2>1, ObjectPlaces
  <2> QED BY <1>3, <2>2, WholeFront DEF n
<1>7. DecodedTo(k)'
  <2>1. \A u \in Named : packet'[u] = IF u = "object" THEN Append(packet[u], object) ELSE packet[u]
    BY <1>1, <1>2 DEF Named, PacketInv
  <2>2. packet.boolean \in Seq(BOOLEAN) /\ sent' = sent /\ Same(object, sent[k].data)
    BY <1>1, <1>2, <1>4, <1>5, <1>6 DEF PacketInv
  <2> QED BY <1>4, <2>1, <2>2, DecodedNext
<1>8. AtBlock(k)'
  BY <1>1, <1>3, <1>7, AtBlockNext DEF f
<1>9. TailInv(processed)'
  BY <1>1, <1>2, TailKept
<1>10. k \in 0 .. Len(sent)
  BY ValuePlaces
<1> QED BY <1>1, <1>8, <1>9, <1>10

\* What a pair adds to an object.
LEMMA SameNext ==
    ASSUME ObjectInv, NEW ps \in Seq(PairType), NEW i \in 1 .. Len(ps), Same(object, Begin(ps, i - 1)),
           NEW c, c = ps[i], NEW t, t = c.value.type, NEW v,
           t \in {"number", "string"} => v = c.value.data,
           object' = IF t \in Scalars THEN [object EXCEPT ![t] = Insert(@, c.key, v)] ELSE object
    PROVE  Same(object', Begin(ps, i))
<1> DEFINE M(u, j) == MapOf(Begin(ps, j), u)
<1>1. ASSUME NEW u
      PROVE  M(u, i) = IF t = u THEN Insert(M(u, i - 1), c.key, c.value.data) ELSE M(u, i - 1)
  <2>1. ps \in Seq(PairType) /\ i \in 1 .. Len(ps)
    OBVIOUS
  <2>2. MapOf(Begin(ps, i), u) = IF ps[i].value.type = u
                                 THEN Insert(MapOf(Begin(ps, i - 1), u), ps[i].key, ps[i].value.data)
                                 ELSE MapOf(Begin(ps, i - 1), u)
    BY ONLY <2>1, MapFront
  <2> QED BY <2>2
<1>2. /\ object.number = M("number", i - 1) /\ object.string = M("string", i - 1)
      /\ DOMAIN object.boolean = DOMAIN M("boolean", i - 1)
  BY DEF Same
<1>3. \A u \in Scalars : object'[u] = IF u = t THEN Insert(object[u], c.key, v) ELSE object[u]
  BY DEF ObjectInv
<1>4. /\ object'.number = IF "number" = t THEN Insert(object.number, c.key, v) ELSE object.number
      /\ object'.string = IF "string" = t THEN Insert(object.string, c.key, v) ELSE object.string
      /\ object'.boolean = IF "boolean" = t THEN Insert(object.boolean, c.key, v) ELSE object.boolean
  <2>1. "number" \in Scalars /\ "string" \in Scalars /\ "boolean" \in Scalars
    BY DEF Scalars
  <2> QED BY <1>3, <2>1
<1> HIDE DEF M
<1>5. object'.number = M("number", i) /\ object'.string = M("string", i)
  BY <1>1, <1>2, <1>4
<1>6. DOMAIN object'.boolean = DOMAIN M("boolean", i)
  <2>1. \A g, key, w : DOMAIN Insert(g, key, w) = DOMAIN g \cup {key}
    BY DEF Insert
  <2>2. CASE t = "boolean"
    <3>1. /\ object'.boolean = Insert(object.boolean, c.key, v)
          /\ M("boolean", i) = Insert(M("boolean", i - 1), c.key, c.value.data)
      BY <1>1, <1>4, <2>2
    <3>2. /\ DOMAIN Insert(object.boolean, c.key, v) = DOMAIN object.boolean \cup {c.key}
          /\ DOMAIN Insert(M("boolean", i - 1), c.key, c.value.data) = DOMAIN M("boolean", i - 1) \cup {c.key}
      BY <2>1
    <3> QED BY ONLY <1>2, <3>1, <3>2
  <2>3. CASE t # "boolean"
    <3>1. object'.boolean = object.boolean /\ M("boolean", i) = M("boolean", i - 1)
      BY <1>1, <1>4, <2>3
    <3> QED BY <1>2, <3>1
  <2> QED BY <2>2, <2>3
<1> QED BY <1>5, <1>6 DEF Same, M

\* Past a pair.
LEMMA PairStep ==
    ASSUME TInv, SentInv, Foreseen, NEW k \in 1 .. Len(sent), NEW j \in 0 .. Len(sent[k].data),
           AtObject(k, j), TailInv(processed), Pair
    PROVE  pc' = "object" /\ TailInv(processed)' /\ j + 1 \in 0 .. Len(sent[k].data) /\ AtObject(k, j + 1)'
<1> DEFINE p == processed
           ps == sent[k].data
           n == Len(ps)
           i == j + 1
           c == ps[i]
           f == ObjectEnd(k, i)
           t == TypeAt(TypePlace)
           v == ValueAt(t, ValuePlace)
<1>1. /\ pc = "object" /\ ~IsEndObject /\ Readable(t, ValuePlace) /\ Pass(t, ValuePlace)
      /\ object' = IF t \in Scalars THEN [object EXCEPT ![t] = Insert(@, StringAt(p), v)] ELSE object
      /\ UNCHANGED <<length, pc, packet, sent, cut>>
  BY DEF Pair, AtPair, PairReadable
<1>2. p \in Nat /\ buffer \in Seq(Byte) /\ ObjectInv
  BY DEF TInv, BytesInv
<1>3. n \in Nat /\ j # n
  BY <1>1, InObject
<1>4. i \in 1 .. n /\ PairAt(p, c, ObjectEnd(k, j), f) /\ byteError = Passed(ObjectEnd(k, j))
  BY <1>3, InObject
<1>5. ps = sent[k].data /\ c = ps[i] /\ i \in 1 .. Len(ps) /\ f = ObjectEnd(k, i)
  BY <1>4
<1>6. sent[k].type = "object" /\ DecodedTo(k - 1) /\ Same(object, Begin(ps, i - 1))
  <2>1. i - 1 = j
    OBVIOUS
  <2> QED BY <2>1 DEF AtObject
<1>7. t = TypeAt(TypePlace) /\ v = ValueAt(t, ValuePlace)
  OBVIOUS
<1> HIDE DEF ps, n, i, c, f, t, v
<1>8. /\ StringAt(p) = c.key /\ TypeAt(TypePlace) = c.value.type
      /\ ValuePlace = TypePlace + 1 /\ TypePlace \in Nat /\ p <= TypePlace
      /\ Size(c.value.type, ValuePlace) \in Nat
      /\ ValuePlace + Size(c.value.type, ValuePlace) + Extra(c.value.type, ValuePlace) = f + Passed(f)
      /\ byteError + Extra(c.value.type, ValuePlace) = Passed(f)
      /\ c.value.type \in {"number", "string"} => ValueAt(c.value.type, ValuePlace) = c.value.data
  BY ONLY <1>4 DEF PairAt, TypePlace, ValuePlace
<1>9. /\ t = c.value.type /\ ValuePlace \in Nat /\ p <= ValuePlace /\ Size(t, ValuePlace) \in Nat
      /\ ValuePlace + Size(t, ValuePlace) + Extra(t, ValuePlace) = f + Passed(f)
      /\ byteError + Extra(t, ValuePlace) = Passed(f)
      /\ t \in {"number", "string"} => v = c.value.data
  BY ONLY <1>2, <1>7, <1>8
<1>10. ps \in Seq(PairType)
  <2>1. SentInv /\ k \in 1 .. Len(sent)
    OBVIOUS
  <2> QED BY ONLY <1>5, <1>6, <2>1, ObjectPlaces
<1>11. Same(object', Begin(ps, i))
  <2>1. object' = IF t \in Scalars THEN [object EXCEPT ![t] = Insert(@, c.key, v)] ELSE object
    BY <1>1, <1>8
  <2>2. /\ ObjectInv /\ ps \in Seq(PairType) /\ i \in 1 .. Len(ps) /\ Same(object, Begin(ps, i - 1))
        /\ c = ps[i] /\ t = c.value.type /\ (t \in {"number", "string"} => v = c.value.data)
    BY <1>2, <1>5, <1>6, <1>9, <1>10
  <2> QED BY ONLY <2>1, <2>2, SameNext
<1>12. DecodedTo(k - 1)'
  BY <1>1, <1>6, DecodedKept
<1>13. processed' = f + Passed(f) /\ byteError' = Passed(f)
  <2>1. /\ processed' = ValuePlace + Size(t, ValuePlace) + Extra(t, ValuePlace)
        /\ byteError' = byteError + Extra(t, ValuePlace)
    BY ONLY <1>1 DEF Pass
  <2> QED BY ONLY <1>9, <2>1
<1>14. TailInv(processed)'
  <2>1. /\ buffer \in Seq(Byte) /\ ValuePlace \in Nat /\ p \in Nat /\ p <= ValuePlace /\ TailInv(p)
        /\ Size(t, ValuePlace) \in Nat /\ Pass(t, ValuePlace) /\ Readable(t, ValuePlace)
        /\ UNCHANGED <<sent, cut>>
    BY <1>1, <1>2, <1>9
  <2> QED BY ONLY <2>1, PassTail
<1>15. AtObject(k, i)'
  BY <1>1, <1>5, <1>6, <1>11, <1>12, <1>13, AtObjectNext
<1>16. i \in 0 .. Len(sent[k].data)
  BY <1>5
<1> QED BY <1>1, <1>14, <1>15, <1>16 DEF i

\* The decoder is done with all values but, behind a header, a last one that has
\* no bytes besides its type.
LEMMA FinishStep ==
    ASSUME TInv, SentInv, Foreseen, NEW k \in 0 .. Len(sent), AtBlock(k), Finish
    PROVE  pc' = "done" /\ DecodedTo(Len(sent))' /\ byteError' = IF cut' = 0 THEN 0 ELSE 1
<1> DEFINE e == BodyEnd(sent, k)
           L == Len(sent)
<1>1. /\ processed >= length /\ pc' = "done"
      /\ UNCHANGED <<buffer, length, processed, byteError, packet, object, sent, cut>>
  BY DEF Finish
<1>2. processed \in Nat /\ length \in Nat /\ packet.boolean \in Seq(BOOLEAN)
  BY DEF TInv, BytesInv, PacketInv
<1>3. L \in Nat /\ e \in Nat /\ e <= length /\ cut \in Nat
  BY ValuePlaces DEF SentInv
<1>4. DecodedTo(k) /\ byteError = Passed(e) /\ (processed = e + Passed(e) \/ k = L)
  BY DEF AtBlock
<1>5. CASE k = L
  <2>1. e = length /\ (cut = 0 \/ cut < length)
    BY <1>5, ValuePlaces DEF SentInv
  <2>2. Passed(e) = IF cut = 0 THEN 0 ELSE 1
    BY <2>1 DEF Passed
  <2>3. DecodedTo(k)'
    BY <1>1, <1>4, DecodedKept
  <2> QED BY <1>1, <1>4, <1>5, <2>2, <2>3
<1>6. CASE k # L
  <2> DEFINE m == k + 1
             f == BodyEnd(sent, m)
             w == Len(Encoded(sent[m]))
  <2>1. m \in 1 .. L /\ k = m - 1 /\ m \in 0 .. L
    BY <1>3, <1>6
  <2>2. e < f /\ f = e + w /\ f \in Nat /\ f <= length
    BY <2>1, ValuePlaces
  <2>3. Passed(e) \in {0, 1} /\ (Passed(e) = 1 => cut # 0)
    BY DEF Passed
  <2>4. Passed(e) = 1 /\ w = 1 /\ f = length
    <3> DEFINE a == Passed(e)
    <3>1. w \in Nat
      BY <2>1, ValuePlaces, EncodedIs
    <3>2. /\ a \in {0, 1} /\ e < f /\ f = e + w /\ f \in Nat /\ f <= length /\ e \in Nat
          /\ length \in Nat /\ processed = e + a /\ processed >= length /\ w \in Nat
      BY <1>1, <1>2, <1>3, <1>4, <1>6, <2>2, <2>3, <3>1
    <3> HIDE DEF a, e, f, w
    <3>3. a = 1 /\ w = 1 /\ f = length
      BY ONLY <3>2
    <3> QED BY <3>3 DEF a
  <2>5. m = L
    <3>1. SUFFICES ASSUME m # L PROVE FALSE
      OBVIOUS
    <3>2. m + 1 \in 1 .. L /\ (m + 1) - 1 = m /\ m + 1 \in 0 .. L
      BY <1>3, <2>1, <3>1
    <3>3. f < BodyEnd(sent, m + 1) /\ BodyEnd(sent, m + 1) <= length /\ BodyEnd(sent, m + 1) \in Nat
      BY <3>2, ValuePlaces
    <3> QED BY <1>2, <2>2, <2>4, <3>3
  <2>6. sent[m].type \notin Named
    <3> DEFINE u == sent[m]
               y == Payload(u)
    <3>1. u \in Values /\ Len(Encoded(u)) = 1
      BY <2>1, <2>4, ValuePlaces
    <3> HIDE DEF u, y
    <3>2. u.type # "object"
      <4>1. SUFFICES ASSUME u.type = "object" PROVE FALSE
        OBVIOUS
      <4>2. u.data \in Seq(PairType)
        BY <3>1, <4>1, ValueIs DEF Types
      <4>3. Len(Encoded(u)) = Len(Pairs(u.data)) + 4 /\ Len(Pairs(u.data)) \in Nat
        BY <4>1, <4>2, ObjectIs
      <4> DEFINE a == Len(Encoded(u))
                 b == Len(Pairs(u.data))
      <4>4. a = 1 /\ a = b + 4 /\ b \in Nat
        BY <3>1, <4>3
      <4> HIDE DEF a, b
      <4> QED BY ONLY <4>4
    <3>3. u \in ScalarValues /\ Encoded(u) = Scalar(u)
      BY <3>1, <3>2, ValueIs DEF Encoded
    <3>4. Len(y) = 0
      <4>1. Len(Encoded(u)) = Len(y) + 1 /\ Len(y) \in Nat
        BY <3>3, ScalarBytes, PayloadIs DEF y
      <4> DEFINE a == Len(Encoded(u))
                 b == Len(y)
      <4>2. a = 1 /\ a = b + 1 /\ b \in Nat
        BY <3>1, <4>1
      <4> HIDE DEF a, b
      <4>3. b = 0
        BY ONLY <4>2
      <4> QED BY <4>3 DEF b
    <3>5. u.type # "number"
      <4>1. u.type = "number" => Len(Scalar(u)) = 9
        BY <3>3, NumberSize
      <4> QED BY ONLY <3>1, <3>3, <4>1
    <3>6. u.type # "boolean"
      <4>1. u.type = "boolean" => Len(u.data) = 1 /\ y = u.data
        BY <3>3, ScalarIs, PayloadIs DEF y
      <4> DEFINE a == Len(y)
      <4>2. a = 0 /\ (u.type = "boolean" => a = 1)
        BY <3>4, <4>1
      <4> HIDE DEF a
      <4> QED BY ONLY <4>2
    <3>7. u.type # "string"
      <4>1. u.type = "string" => Len(y) = Len(u.data) + 2 /\ Len(u.data) \in Nat
        <5>1. u.data \in Text
          BY <3>3, ScalarIs
        <5>2. Len(u.data) \in Nat
          BY <5>1, LenType DEF Text
        <5> QED BY <3>3, <5>2, PayloadIs DEF y
      <4> QED BY ONLY <3>4, <4>1
    <3> QED BY <3>2, <3>5, <3>6, <3>7 DEF Named, u
  <2>7. DecodedTo(m)'
    <3> DEFINE t == sent[m].type
    <3>1. t # "number" /\ t # "string" /\ t # "boolean" /\ t # "object"
      BY <2>6 DEF Named
    <3>2. \A u \in Named : packet'[u] = IF u = t THEN Append(packet[u], <<>>) ELSE packet[u]
      BY <1>1, <2>6
    <3>3. DecodedTo(m - 1) /\ packet.boolean \in Seq(BOOLEAN) /\ sent' = sent /\ m \in 1 .. Len(sent)
      BY <1>1, <1>2, <1>4, <2>1
    <3> HIDE DEF m
    <3> QED BY <3>1, <3>2, <3>3, DecodedNext
  <2> QED BY <1>1, <1>4, <2>3, <2>4, <2>5, <2>7
<1> QED BY <1>5, <1>6

\* Between two values, the next one can be read.
LEMMA ValueReadable ==
    ASSUME TInv, SentInv, Foreseen, NEW k \in 0 .. Len(sent), AtBlock(k), TailInv(processed), processed < length
    PROVE  In(processed) /\ Readable(TypeAt(processed), processed + 1)
<1> DEFINE m == k + 1
           e == BodyEnd(sent, k)
           t == sent[m].type
           p == processed
<1>1. p \in Nat /\ buffer \in Seq(Byte)
  BY DEF TInv, BytesInv
<1>2. m \in 1 .. Len(sent) /\ k = m - 1 /\ p = e + Passed(e) /\ In(p) /\ TypeAt(p) = t
  BY <1>1, NextValue
<1>3. CASE t \in {"object", "null"}
  <2>1. Readable(t, p + 1)
    BY <1>3 DEF Readable
  <2> QED BY <1>2, <2>1
<1>4. CASE t \notin {"object", "null"}
  <2>1. /\ SentInv /\ Foreseen /\ buffer \in Seq(Byte) /\ e = BodyEnd(sent, m - 1) /\ TailInv(e + Passed(e))
        /\ m \in 1 .. Len(sent) /\ sent[m].type # "object" /\ sent[m].type # "null"
    BY <1>1, <1>2, <1>4
  <2> HIDE DEF m, e
  <2>2. Readable(sent[m].type, e + Passed(e) + 1)
    BY ONLY <2>1, ValueHere
  <2> QED BY <1>2, <2>2
<1> QED BY <1>3, <1>4

\* Every action leads from a place between two values or pairs to the next one.
LEMMA FNext == TInv /\ SentInv /\ FInv /\ [Next]_vars => FInv'
<1> SUFFICES ASSUME TInv, SentInv, FInv, [Next]_vars PROVE FInv'
  OBVIOUS
<1>1. Len(buffer') = Len(buffer) /\ sent' = sent /\ cut' = cut /\ length' = length
  BY Kept
<1> SUFFICES ASSUME Foreseen' PROVE
      \/ pc' = "block" /\ TailInv(processed)' /\ \E k \in 0 .. Len(sent) : AtBlock(k)'
      \/ pc' = "object" /\ TailInv(processed)'
           /\ \E k \in 1 .. Len(sent) : \E j \in 0 .. Len(sent[k].data) : AtObject(k, j)'
      \/ pc' = "done" /\ DecodedTo(Len(sent))' /\ byteError' = IF cut' = 0 THEN 0 ELSE 1
  BY <1>1 DEF FInv
<1>2. Foreseen
  BY <1>1, ForeseenKept
<1>3. CASE UNCHANGED vars
  <2>1. UNCHANGED <<buffer, length, pc, processed, byteError, packet, object, sent, cut>>
    BY <1>3 DEF vars
  <2>2. TailInv(processed) => TailInv(processed)'
    <3>1. processed \in Nat
      BY DEF TInv, BytesInv
    <3> QED BY <2>1, <3>1, TailKept
  <2>3. \A k : DecodedTo(k) => DecodedTo(k)'
    BY <2>1, DecodedKept
  <2>4. \A k : AtBlock(k) => AtBlock(k)'
    BY <2>1, <2>3 DEF AtBlock, Passed
  <2>5. \A k, j : AtObject(k, j) => AtObject(k, j)'
    BY <2>1, <2>3 DEF AtObject, Passed, ObjectEnd, Same
  <2> QED BY <1>2, <2>1, <2>2, <2>3, <2>4, <2>5 DEF FInv
<1>4. CASE Next /\ pc = "block"
  <2>1. PICK k \in 0 .. Len(sent) : AtBlock(k) /\ TailInv(processed)
    BY <1>2, <1>4 DEF FInv
  <2>2. ASSUME NEW t \in Scalars, BlockValue(t)
        PROVE  pc' = "block" /\ TailInv(processed)' /\ \E h \in 0 .. Len(sent) : AtBlock(h)'
    <3>1. pc' = "block" /\ TailInv(processed)' /\ k + 1 \in 0 .. Len(sent) /\ AtBlock(k + 1)'
      BY <1>2, <2>1, <2>2, BlockValueStep
    <3> QED BY <3>1
  <2>3. ASSUME SkipValue
        PROVE  pc' = "block" /\ TailInv(processed)' /\ \E h \in 0 .. Len(sent) : AtBlock(h)'
    <3>1. pc' = "block" /\ TailInv(processed)' /\ k + 1 \in 0 .. Len(sent) /\ AtBlock(k + 1)'
      BY <1>2, <2>1, <2>3, SkipValueStep
    <3> QED BY <3>1
  <2>4. ASSUME OpenObject
        PROVE  /\ pc' = "object" /\ TailInv(processed)'
               /\ \E h \in 1 .. Len(sent) : \E j \in 0 .. Len(sent[h].data) : AtObject(h, j)'
    <3>1. /\ pc' = "object" /\ TailInv(processed)' /\ k + 1 \in 1 .. Len(sent)
          /\ 0 \in 0 .. Len(sent[k + 1].data) /\ AtObject(k + 1, 0)'
      BY <1>2, <2>1, <2>4, OpenObjectStep
    <3> QED BY <3>1
  <2>5. ASSUME Finish
        PROVE  pc' = "done" /\ DecodedTo(Len(sent))' /\ byteError' = IF cut' = 0 THEN 0 ELSE 1
    BY <1>2, <2>1, <2>5, FinishStep
  <2>6. ~Outside
    <3>1. SUFFICES ASSUME Outside PROVE FALSE
      OBVIOUS
    <3>2. processed < length /\ (In(processed) => ~Readable(TypeAt(processed), processed + 1))
      BY <1>4, <3>1 DEF Outside, AtPair
    <3> QED BY <1>2, <2>1, <3>2, ValueReadable
  <2>7. ~Pair /\ ~CloseObject
    BY <1>4 DEF Pair, AtPair, CloseObject
  <2> QED BY <1>4, <2>2, <2>3, <2>4, <2>5, <2>6, <2>7 DEF Next
<1>5. CASE Next /\ pc = "object"
  <2>1. PICK k \in 1 .. Len(sent) : \E j \in 0 .. Len(sent[k].data) : AtObject(k, j) /\ TailInv(processed)
    BY <1>2, <1>5 DEF FInv
  <2>2. PICK j \in 0 .. Len(sent[k].data) : AtObject(k, j) /\ TailInv(processed)
    BY <2>1
  <2>3. ASSUME Pair
        PROVE  /\ pc' = "object" /\ TailInv(processed)'
               /\ \E h \in 1 .. Len(sent) : \E i \in 0 .. Len(sent[h].data) : AtObject(h, i)'
    <3>1. pc' = "object" /\ TailInv(processed)' /\ j + 1 \in 0 .. Len(sent[k].data) /\ AtObject(k, j + 1)'
      BY <1>2, <2>2, <2>3, PairStep
    <3> QED BY <3>1
  <2>4. ASSUME CloseObject
        PROVE  pc' = "block" /\ TailInv(processed)' /\ \E h \in 0 .. Len(sent) : AtBlock(h)'
    <3>1. pc' = "block" /\ TailInv(processed)' /\ k \in 0 .. Len(sent) /\ AtBlock(k)'
      BY <1>2, <2>2, <2>4, CloseObjectStep
    <3> QED BY <3>1
  <2>5. ~Outside
    <3>1. EndReadable /\ (~IsEndObject => PairReadable)
      <4> DEFINE n == Len(sent[k].data)
      <4>1. EndReadable /\ (IsEndObject <=> j = n) /\ (j # n => PairReadable)
        BY <1>2, <2>2, InObject
      <4> QED BY <4>1
    <3> QED BY <1>5, <3>1 DEF Outside, AtPair
  <2>6. /\ \A t : ~BlockValue(t)
        /\ ~SkipValue /\ ~OpenObject /\ ~Finish
    BY <1>5 DEF BlockValue, SkipValue, OpenObject, Finish, AtValue
  <2> QED BY <1>5, <2>3, <2>4, <2>5, <2>6 DEF Next
<1>6. CASE Next /\ pc \notin {"block", "object"}
  BY <1>6 DEF Next, BlockValue, SkipValue, OpenObject, Pair, CloseObject, Finish, Outside, AtValue, AtPair
<1> QED BY <1>3, <1>4, <1>5, <1>6

\* What the invariant says of a decoder that is done.
LEMMA FIsFaithful == SentInv /\ FInv => HeadersCounted /\ Faithful
<1> SUFFICES ASSUME SentInv, FInv, Foreseen
             PROVE  /\ pc # "outside"
                    /\ pc = "done" => byteError = (IF cut = 0 THEN 0 ELSE 1) /\ Faithful
  BY DEF HeadersCounted, Faithful
<1>1. pc # "outside" /\ (pc = "done" => byteError = IF cut = 0 THEN 0 ELSE 1)
  BY DEF FInv
<1>2. ASSUME pc = "done" PROVE Faithful
  <2>1. DecodedTo(Len(sent))
    BY <1>2 DEF FInv
  <2>2. Begin(sent, Len(sent)) = sent
    BY WholeFront DEF SentInv
  <2> DEFINE w == DataOf(sent, "object")
             o == packet.object
  <2>3. /\ packet.number = DataOf(sent, "number") /\ packet.string = DataOf(sent, "string")
        /\ Len(packet.boolean) = Len(DataOf(sent, "boolean"))
        /\ Len(o) = Len(w) /\ \A i \in 1 .. Len(o) : Same(o[i], w[i])
    BY <2>1, <2>2 DEF DecodedTo
  <2>4. DOMAIN w = 1 .. Len(w)
    <3>1. sent \in Seq(Values) /\ Len(sent) \in 0 .. Len(sent)
      BY LenType DEF SentInv
    <3>2. DataOf(Begin(sent, Len(sent)), "object") \in Seq(DataSet(sent))
      BY ONLY <3>1, DataFront
    <3>3. w \in Seq(DataSet(sent))
      BY <2>2, <3>2
    <3> HIDE DEF w
    <3> QED BY <3>3
  <2> HIDE DEF w, o
  <2>5. \A i \in DOMAIN w : Same(o[i], w[i])
    BY <2>3, <2>4
  <2> QED BY <2>3, <2>5 DEF Faithful, Same, w, o
<1> QED BY <1>1, <1>2

\* Of a body the decoder is made for, it reads no byte outside the buffer, and
\* byteError is the number of chunk headers inside it: the cursor that
\* AMFConnectCommand moves on by byteError is at the next chunk.
THEOREM HeadersCountedAlways == Spec => []HeadersCounted
<1>1. Init => TInv /\ SentInv /\ FInv
  BY InitIs, TInit, FInit
<1>2. TInv /\ SentInv /\ FInv /\ [Next]_vars => (TInv /\ SentInv /\ FInv)'
  BY TNext, SentNext, FNext
<1>3. TInv /\ SentInv /\ FInv => HeadersCounted
  BY FIsFaithful
<1> QED BY <1>1, <1>2, <1>3, PTL DEF Spec

\* Such a body is decoded to what the client sent, whatever its values and their
\* number, and also with a chunk header inside a number: all numbers and strings
\* in their order, those of objects under their keys, and as many booleans.
THEOREM FaithfulAlways == Spec => []Faithful
<1>1. Init => TInv /\ SentInv /\ FInv
  BY InitIs, TInit, FInit
<1>2. TInv /\ SentInv /\ FInv /\ [Next]_vars => (TInv /\ SentInv /\ FInv)'
  BY TNext, SentNext, FNext
<1>3. TInv /\ SentInv /\ FInv => Faithful
  BY FIsFaithful
<1> QED BY <1>1, <1>2, <1>3, PTL DEF Spec
=============================================================================
