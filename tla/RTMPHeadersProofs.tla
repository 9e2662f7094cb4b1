------------------------- MODULE RTMPHeadersProofs -------------------------
(***************************************************************************)
(* What RTMPHeaders reads and builds, for every id, timestamp, length and  *)
(* type, whatever follows the header.                                      *)
(***************************************************************************)
EXTENDS RTMPHeaders, Recursion, SequenceTheorems, TLAPS

LEMMA Limit24Type == Limit24 \in Nat
  BY SMT DEF Limit24

LEMMA ByteType == \A x \in Byte : x \in Int /\ 0 <= x /\ x <= 255
  BY DEF Byte

\* A number below Limit24 and its three bytes.
LEMMA Three ==
    ASSUME NEW x \in Nat, x < Limit24
    PROVE  /\ x \div 65536 \in Byte /\ (x \div 256) % 256 \in Byte /\ x % 256 \in Byte
           /\ x = (x % 256) + 256 * ((x \div 256) % 256) + 65536 * (x \div 65536)
<1>1. x = 256 * (x \div 256) + (x % 256) /\ x \div 256 \in Nat
  OBVIOUS
<1>2. x \div 256 = 256 * ((x \div 256) \div 256) + ((x \div 256) % 256)
  BY <1>1
<1>3. x \div 65536 = (x \div 256) \div 256
  OBVIOUS
<1>4. x \div 65536 \in Byte /\ (x \div 256) % 256 \in Byte /\ x % 256 \in Byte
  BY SMT DEF Limit24, Byte
<1> QED BY <1>1, <1>2, <1>3, <1>4

LEMMA BigType == ASSUME NEW x \in Nat, x < Limit24 PROVE Big3(x) \in Seq(Byte)
  BY Three DEF Big3

LEMMA ConcatType ==
    ASSUME NEW s \in Seq(Byte), NEW t \in Seq(Byte)
    PROVE  s \o t \in Seq(Byte) /\ Len(s \o t) = Len(s) + Len(t)
  OBVIOUS

LEMMA ConcatFirst ==
    ASSUME NEW s \in Seq(Byte), NEW t \in Seq(Byte), NEW k \in 1 .. Len(s)
    PROVE  (s \o t)[k] = s[k]
  OBVIOUS

LEMMA ConcatSecond ==
    ASSUME NEW s \in Seq(Byte), NEW t \in Seq(Byte), NEW k \in 1 .. Len(t),
           NEW j, j = Len(s) + k
    PROVE  (s \o t)[j] = t[k]
  OBVIOUS

\* Two fields of three bytes, and what follows them.
LEMMA TwoFields ==
    ASSUME NEW T \in Seq(Byte), NEW L \in Seq(Byte), Len(T) = 3, Len(L) = 3
    PROVE  /\ T \o L \in Seq(Byte) /\ Len(T \o L) = 6
           /\ (T \o L)[1] = T[1] /\ (T \o L)[2] = T[2] /\ (T \o L)[3] = T[3]
           /\ (T \o L)[4] = L[1] /\ (T \o L)[5] = L[2] /\ (T \o L)[6] = L[3]
<1>1. /\ 1 \in 1 .. Len(T) /\ 2 \in 1 .. Len(T) /\ 3 \in 1 .. Len(T)
  OBVIOUS
<1>2. (T \o L)[1] = T[1]
  BY <1>1, ConcatFirst
<1>3. (T \o L)[2] = T[2]
  BY <1>1, ConcatFirst
<1>4. (T \o L)[3] = T[3]
  BY <1>1, ConcatFirst
<1>5. (T \o L)[4] = L[1]
  <2>1. 4 = Len(T) + 1 /\ 1 \in 1 .. Len(L)
    OBVIOUS
  <2> QED BY <2>1, ConcatSecond
<1>6. (T \o L)[5] = L[2]
  <2>1. 5 = Len(T) + 2 /\ 2 \in 1 .. Len(L)
    OBVIOUS
  <2> QED BY <2>1, ConcatSecond
<1>7. (T \o L)[6] = L[3]
  <2>1. 6 = Len(T) + 3 /\ 3 \in 1 .. Len(L)
    OBVIOUS
  <2> QED BY <2>1, ConcatSecond
<1>8. T \o L \in Seq(Byte) /\ Len(T \o L) = 6
  <2>1. T \o L \in Seq(Byte) /\ Len(T \o L) = Len(T) + Len(L)
    BY ConcatType
  <2> QED BY <1>1, <2>1
<1> QED BY <1>2, <1>3, <1>4, <1>5, <1>6, <1>7, <1>8

LEMMA ThenOne ==
    ASSUME NEW A \in Seq(Byte), Len(A) = 6, NEW x \in Byte
    PROVE  /\ A \o <<x>> \in Seq(Byte) /\ Len(A \o <<x>>) = 7 /\ (A \o <<x>>)[7] = x
           /\ \A k \in 1 .. 6 : (A \o <<x>>)[k] = A[k]
<1> DEFINE s == <<x>>
<1>1. s \in Seq(Byte) /\ Len(s) = 1 /\ s[1] = x /\ 1 \in 1 .. Len(s)
      /\ 7 = Len(A) + 1
  OBVIOUS
<1> HIDE DEF s
<1>2. (A \o s)[7] = s[1]
  BY <1>1, ConcatSecond
<1>3. \A k \in 1 .. 6 : (A \o s)[k] = A[k]
  BY <1>1, ConcatFirst
<1>4. A \o s \in Seq(Byte) /\ Len(A \o s) = 7
  <2>1. A \o s \in Seq(Byte) /\ Len(A \o s) = Len(A) + Len(s)
    BY <1>1, ConcatType
  <2> QED BY <1>1, <2>1
<1>5. /\ A \o s \in Seq(Byte) /\ Len(A \o s) = 7 /\ (A \o s)[7] = x
      /\ \A k \in 1 .. 6 : (A \o s)[k] = A[k]
  BY <1>1, <1>2, <1>3, <1>4
<1> QED BY ONLY <1>5 DEF s

LEMMA ThenFour ==
    ASSUME NEW B \in Seq(Byte), NEW S \in Seq(Byte), Len(B) = 7, Len(S) = 4
    PROVE  /\ B \o S \in Seq(Byte) /\ Len(B \o S) = 11
           /\ \A k \in 1 .. 7 : (B \o S)[k] = B[k]
           /\ (B \o S)[8] = S[1] /\ (B \o S)[9] = S[2]
           /\ (B \o S)[10] = S[3] /\ (B \o S)[11] = S[4]
<1>1. (B \o S)[8] = S[1]
  <2>1. 8 = Len(B) + 1 /\ 1 \in 1 .. Len(S)
    OBVIOUS
  <2> QED BY <2>1, ConcatSecond
<1>2. (B \o S)[9] = S[2]
  <2>1. 9 = Len(B) + 2 /\ 2 \in 1 .. Len(S)
    OBVIOUS
  <2> QED BY <2>1, ConcatSecond
<1>3. (B \o S)[10] = S[3]
  <2>1. 10 = Len(B) + 3 /\ 3 \in 1 .. Len(S)
    OBVIOUS
  <2> QED BY <2>1, ConcatSecond
<1>4. (B \o S)[11] = S[4]
  <2>1. 11 = Len(B) + 4 /\ 4 \in 1 .. Len(S)
    OBVIOUS
  <2> QED BY <2>1, ConcatSecond
<1>5. \A k \in 1 .. 7 : (B \o S)[k] = B[k]
  BY ConcatFirst
<1>6. B \o S \in Seq(Byte) /\ Len(B \o S) = 11
  <2>1. B \o S \in Seq(Byte) /\ Len(B \o S) = Len(B) + Len(S)
    BY ConcatType
  <2> QED BY <2>1
<1> QED BY <1>1, <1>2, <1>3, <1>4, <1>5, <1>6

LEMMA RequestType ==
    ASSUME NEW r \in Requests
    PROVE  /\ r.basic \in 1 .. 3 /\ r.type \in 0 .. 3 /\ r.cs_id \in Nat
           /\ r.timestamp \in Nat /\ r.msg_length \in Nat /\ r.msg_type_id \in Byte
           /\ r.msg_stream_id \in Words
<1>1. /\ r.basic \in 1 .. 3 /\ r.type \in 0 .. 3 /\ r.cs_id \in ChunkStreams
      /\ r.timestamp \in Timestamps /\ r.msg_length \in Lengths
      /\ r.msg_type_id \in TypeIds /\ r.msg_stream_id \in StreamIds
  BY DEF Requests
<1>2. /\ r.cs_id \in Nat /\ r.timestamp \in 0 .. Limit24 /\ r.msg_length \in 0 .. Limit24
      /\ r.msg_type_id \in Byte /\ r.msg_stream_id \in Words
  BY <1>1, HeadersAssumption
<1> QED BY <1>1, <1>2, Limit24Type

\* Where the fields of a client's message header lie.
LEMMA Layout ==
    ASSUME NEW r \in Requests, r.timestamp < Limit24, r.msg_length < Limit24
    PROVE  LET m  == ClientMessage(r)
               ts == r.timestamp
               ln == r.msg_length
           IN  /\ m \in Seq(Byte) /\ Len(m) = MessageSize[r.type + 1]
               /\ r.type <= 2 => /\ m[1] = ts \div 65536
                                 /\ m[2] = (ts \div 256) % 256
                                 /\ m[3] = ts % 256
               /\ r.type <= 1 => /\ m[4] = ln \div 65536
                                 /\ m[5] = (ln \div 256) % 256
                                 /\ m[6] = ln % 256
                                 /\ m[7] = r.msg_type_id
               /\ r.type = 0 => \A k \in 1 .. 4 : m[7 + k] = r.msg_stream_id[5 - k]
<1> DEFINE m == ClientMessage(r)
           T == Big3(r.timestamp)
           L == Big3(r.msg_length)
           S == Swap(r.msg_stream_id)
<1>1. /\ T \in Seq(Byte) /\ Len(T) = 3 /\ T[1] = r.timestamp \div 65536
      /\ T[2] = (r.timestamp \div 256) % 256 /\ T[3] = r.timestamp % 256
  BY RequestType, BigType DEF Big3
<1>2. /\ L \in Seq(Byte) /\ Len(L) = 3 /\ L[1] = r.msg_length \div 65536
      /\ L[2] = (r.msg_length \div 256) % 256 /\ L[3] = r.msg_length % 256
  BY RequestType, BigType DEF Big3
<1>3. /\ S \in Seq(Byte) /\ Len(S) = 4
      /\ S[1] = r.msg_stream_id[4] /\ S[2] = r.msg_stream_id[3]
      /\ S[3] = r.msg_stream_id[2] /\ S[4] = r.msg_stream_id[1]
  BY RequestType DEF Swap, Words
<1>4. <<r.msg_type_id>> \in Seq(Byte)
  BY RequestType
<1>5. r.type \in 0 .. 3
  BY RequestType
<1> HIDE DEF T, L, S
<1>6. /\ T \o L \in Seq(Byte) /\ Len(T \o L) = 6
      /\ (T \o L)[1] = T[1] /\ (T \o L)[2] = T[2] /\ (T \o L)[3] = T[3]
      /\ (T \o L)[4] = L[1] /\ (T \o L)[5] = L[2] /\ (T \o L)[6] = L[3]
  BY <1>1, <1>2, TwoFields
<1> DEFINE A == T \o L
           B == A \o <<r.msg_type_id>>
<1> HIDE DEF A
<1>7. /\ B \in Seq(Byte) /\ Len(B) = 7 /\ B[7] = r.msg_type_id
      /\ B[1] = T[1] /\ B[2] = T[2] /\ B[3] = T[3]
      /\ B[4] = L[1] /\ B[5] = L[2] /\ B[6] = L[3]
  <2>1. A \in Seq(Byte) /\ Len(A) = 6
    BY <1>6 DEF A
  <2>2. /\ B \in Seq(Byte) /\ Len(B) = 7 /\ B[7] = r.msg_type_id
        /\ \A k \in 1 .. 6 : B[k] = A[k]
    BY <2>1, ThenOne, RequestType
  <2>3. /\ A[1] = T[1] /\ A[2] = T[2] /\ A[3] = T[3]
        /\ A[4] = L[1] /\ A[5] = L[2] /\ A[6] = L[3]
    BY <1>6 DEF A
  <2> HIDE DEF B
  <2> QED BY <2>2, <2>3
<1> HIDE DEF B
<1>8. CASE r.type = 0
  <2>1. m = B \o S
    BY <1>8 DEF ClientMessage, A, B, T, L, S
  <2> HIDE DEF m
  <2>2. /\ B \o S \in Seq(Byte) /\ Len(B \o S) = 11
        /\ \A k \in 1 .. 7 : (B \o S)[k] = B[k]
        /\ (B \o S)[8] = S[1] /\ (B \o S)[9] = S[2]
        /\ (B \o S)[10] = S[3] /\ (B \o S)[11] = S[4]
    BY <1>3, <1>7, ThenFour
  <2>3. /\ m[1] = T[1] /\ m[2] = T[2] /\ m[3] = T[3]
        /\ m[4] = L[1] /\ m[5] = L[2] /\ m[6] = L[3] /\ m[7] = r.msg_type_id
    <3>1. /\ m[1] = B[1] /\ m[2] = B[2] /\ m[3] = B[3] /\ m[4] = B[4]
          /\ m[5] = B[5] /\ m[6] = B[6] /\ m[7] = B[7]
      <4>1. /\ 1 \in 1 .. 7 /\ 2 \in 1 .. 7 /\ 3 \in 1 .. 7 /\ 4 \in 1 .. 7
            /\ 5 \in 1 .. 7 /\ 6 \in 1 .. 7 /\ 7 \in 1 .. 7
        OBVIOUS
      <4>2. \A k \in 1 .. 7 : m[k] = B[k]
        BY <2>1, <2>2
      <4> HIDE DEF m
      <4> QED BY <4>1, <4>2
    <3> QED BY <1>7, <3>1
  <2>4. \A k \in 1 .. 4 : m[7 + k] = r.msg_stream_id[5 - k]
    <3> SUFFICES ASSUME NEW k \in 1 .. 4 PROVE m[7 + k] = r.msg_stream_id[5 - k]
      OBVIOUS
    <3>5. m[8] = S[1] /\ m[9] = S[2] /\ m[10] = S[3] /\ m[11] = S[4]
      BY <2>1, <2>2
    <3> HIDE DEF m
    <3>1. CASE k = 1 BY <3>1, <1>3, <3>5
    <3>2. CASE k = 2 BY <3>2, <1>3, <3>5
    <3>3. CASE k = 3 BY <3>3, <1>3, <3>5
    <3>4. CASE k = 4 BY <3>4, <1>3, <3>5
    <3> QED BY <3>1, <3>2, <3>3, <3>4
  <2>5. m \in Seq(Byte) /\ Len(m) = MessageSize[r.type + 1]
    BY <1>8, <2>1, <2>2 DEF MessageSize
  <2> QED BY <1>1, <1>2, <1>8, <2>3, <2>4, <2>5 DEF m
<1>9. CASE r.type = 1
  <2>1. m = B
    BY <1>9 DEF ClientMessage, A, B, T, L
  <2> HIDE DEF m
  <2>2. m \in Seq(Byte) /\ Len(m) = MessageSize[r.type + 1]
    BY <1>7, <1>9, <2>1 DEF MessageSize
  <2> QED BY <1>1, <1>2, <1>7, <1>9, <2>1, <2>2 DEF m
<1>10. CASE r.type = 2
  BY <1>1, <1>10 DEF ClientMessage, MessageSize, T
<1>11. CASE r.type = 3
  BY <1>11 DEF ClientMessage, MessageSize
<1> QED BY <1>5, <1>8, <1>9, <1>10, <1>11

\* Bytes that begin with a client's message header are read as its fields.
LEMMA Fields ==
    ASSUME NEW r \in Requests, r.timestamp < Limit24, r.msg_length < Limit24, NEW d,
           \A k \in 1 .. MessageSize[r.type + 1] : d[k] = ClientMessage(r)[k]
    PROVE  /\ r.type <= 2 => TimestampOf(d) = r.timestamp
           /\ r.type <= 1 => LengthOf(d) = r.msg_length /\ d[7] = r.msg_type_id
           /\ r.type = 0 => Swap(WordAt(d, 8)) = r.msg_stream_id
<1>1. r.timestamp \in Nat /\ r.msg_length \in Nat /\ r.type \in 0 .. 3 /\ r.msg_stream_id \in Words
  BY RequestType
<1>2. ASSUME r.type <= 2 PROVE TimestampOf(d) = r.timestamp
  <2>1. d[1] = ClientMessage(r)[1] /\ d[2] = ClientMessage(r)[2] /\ d[3] = ClientMessage(r)[3]
    BY <1>1, <1>2 DEF MessageSize
  <2>2. TimestampOf(d) = d[3] + 256 * d[2] + 65536 * d[1]
    BY DEF TimestampOf, Num, Swap, ShiftedAt
  <2>3. /\ d[1] = r.timestamp \div 65536 /\ d[2] = (r.timestamp \div 256) % 256
        /\ d[3] = r.timestamp % 256
    BY <1>2, <2>1, Layout
  <2> QED BY <1>1, <2>2, <2>3, Three
<1>3. ASSUME r.type <= 1 PROVE LengthOf(d) = r.msg_length /\ d[7] = r.msg_type_id
  <2>1. /\ d[4] = ClientMessage(r)[4] /\ d[5] = ClientMessage(r)[5] /\ d[6] = ClientMessage(r)[6]
        /\ d[7] = ClientMessage(r)[7]
    BY <1>1, <1>3 DEF MessageSize
  <2>2. LengthOf(d) = d[6] + 256 * d[5] + 65536 * d[4]
    BY DEF LengthOf, Num, Mask24, Swap, WordAt
  <2>3. /\ d[4] = r.msg_length \div 65536 /\ d[5] = (r.msg_length \div 256) % 256
        /\ d[6] = r.msg_length % 256 /\ d[7] = r.msg_type_id
    BY <1>3, <2>1, Layout
  <2> QED BY <1>1, <2>2, <2>3, Three
<1>4. ASSUME r.type = 0 PROVE Swap(WordAt(d, 8)) = r.msg_stream_id
  <2>1. \A k \in 1 .. 4 : ClientMessage(r)[7 + k] = r.msg_stream_id[5 - k]
    BY <1>4, Layout
  <2>2. \A k \in 8 .. 11 : d[k] = ClientMessage(r)[k]
    BY <1>4 DEF MessageSize
  <2>3. /\ d[8] = r.msg_stream_id[4] /\ d[9] = r.msg_stream_id[3]
        /\ d[10] = r.msg_stream_id[2] /\ d[11] = r.msg_stream_id[1]
    BY <2>1, <2>2
  <2>4. Swap(WordAt(d, 8)) = <<r.msg_stream_id[1], r.msg_stream_id[2], r.msg_stream_id[3],
                               r.msg_stream_id[4]>>
    BY <2>3 DEF Swap, WordAt
  <2> QED BY <1>1, <2>4 DEF Words
<1> QED BY <1>2, <1>3, <1>4

\* The first byte of a header: two bits and six.
LEMMA FirstByte ==
    ASSUME NEW t \in 0 .. 3, NEW c \in 0 .. 63
    PROVE  /\ 64 * t + c \in Byte /\ (64 * t + c) % 64 = c /\ (64 * t + c) \div 64 = t
<1>1. CASE t = 0
  BY <1>1, SMT DEF Byte
<1>2. CASE t = 1
  BY <1>2, SMT DEF Byte
<1>3. CASE t = 2
  BY <1>3, SMT DEF Byte
<1>4. CASE t = 3
  BY <1>4, SMT DEF Byte
<1> QED BY <1>1, <1>2, <1>3, <1>4

\* A long header's id and its two bytes.
LEMMA LongId ==
    ASSUME NEW x \in Nat, 64 <= x, x <= 65599
    PROVE  (x - 64) % 256 \in Byte /\ (x - 64) \div 256 \in Byte
<1>1. (x - 64) % 256 \in 0 .. 255 /\ (x - 64) \div 256 \in 0 .. 255
  BY SMT
<1> QED BY <1>1 DEF Byte

\* A client's basic header: what its first byte tells.
LEMMA BasicLayout ==
    ASSUME NEW r \in Requests, Fits(r)
    PROVE  LET c == ClientBasic(r)
           IN  /\ c \in Seq(Byte) /\ Len(c) = r.basic
               /\ c[1] % 64 = CASE r.basic = 1 -> r.cs_id
                               [] r.basic = 2 -> 0
                               [] r.basic = 3 -> 1
               /\ c[1] \div 64 = r.type
<1>1. r.basic \in 1 .. 3 /\ r.type \in 0 .. 3 /\ r.cs_id \in Nat
  BY RequestType
<1>2. CASE r.basic = 1
  <2>1. r.cs_id \in 0 .. 63
    BY <1>2, SMT DEF Fits
  <2>2. /\ 64 * r.type + r.cs_id \in Byte /\ (64 * r.type + r.cs_id) % 64 = r.cs_id
        /\ (64 * r.type + r.cs_id) \div 64 = r.type
    BY <1>1, <2>1, FirstByte
  <2>3. ClientBasic(r) = <<64 * r.type + r.cs_id>>
    BY <1>2, SMT DEF ClientBasic
  <2> QED BY <1>2, <2>2, <2>3
<1>3. CASE r.basic = 2
  <2>1. r.cs_id - 64 \in Byte
    BY <1>1, <1>3, SMT DEF Fits, Byte
  <2>2. 64 * r.type + 0 \in Byte /\ (64 * r.type + 0) % 64 = 0 /\ (64 * r.type + 0) \div 64 = r.type
    BY <1>1, 0 \in 0 .. 63, FirstByte
  <2>3. 64 * r.type + 0 = 64 * r.type
    BY <1>1
  <2>4. ClientBasic(r) = <<64 * r.type, r.cs_id - 64>>
    BY <1>3, SMT DEF ClientBasic
  <2> QED BY <1>3, <2>1, <2>2, <2>3, <2>4
<1>4. CASE r.basic = 3
  <2> DEFINE low == (r.cs_id - 64) % 256
             high == (r.cs_id - 64) \div 256
  <2>1. 64 <= r.cs_id /\ r.cs_id <= 65599
    BY <1>4, SMT DEF Fits
  <2>2. low \in Byte /\ high \in Byte
    BY <1>1, <2>1, LongId
  <2>3. 64 * r.type + 1 \in Byte /\ (64 * r.type + 1) % 64 = 1 /\ (64 * r.type + 1) \div 64 = r.type
    BY <1>1, 1 \in 0 .. 63, FirstByte
  <2>4. ClientBasic(r) = <<64 * r.type + 1, low, high>>
    BY <1>4, SMT DEF ClientBasic
  <2> HIDE DEF low, high
  <2> QED BY <1>4, <2>2, <2>3, <2>4
<1> QED BY <1>1, <1>2, <1>3, <1>4

LEMMA FromAt ==
    ASSUME NEW b \in Seq(Byte), NEW n \in Nat, NEW k \in 1 .. (Len(b) - n)
    PROVE  From(b, n + 1)[k] = b[n + k]
  BY SMT DEF From

\* A client's header and whatever follows it: the reader finds its parts.
LEMMA ReadBasic ==
    ASSUME NEW r \in Requests, Fits(r), r.timestamp < Limit24, r.msg_length < Limit24,
           NEW body \in Seq(Byte), NEW b, b = ClientHeader(r) \o body
    PROVE  /\ b \in Seq(Byte) /\ Len(ClientHeader(r)) = r.basic + MessageSize[r.type + 1]
           /\ BasicSize(b) = r.basic /\ TypeOf(b) = r.type
           /\ r.basic = 1 => StreamId(b) = r.cs_id
           /\ \A k \in 1 .. MessageSize[r.type + 1] :
                  From(b, BasicSize(b) + 1)[k] = ClientMessage(r)[k]
<1> DEFINE c == ClientBasic(r)
           m == ClientMessage(r)
           h == c \o m
<1>1. /\ c \in Seq(Byte) /\ Len(c) = r.basic /\ c[1] \div 64 = r.type
      /\ c[1] % 64 = CASE r.basic = 1 -> r.cs_id [] r.basic = 2 -> 0 [] r.basic = 3 -> 1
  BY BasicLayout
<1>2. m \in Seq(Byte) /\ Len(m) = MessageSize[r.type + 1]
  BY Layout
<1>3. r.basic \in 1 .. 3 /\ MessageSize[r.type + 1] \in Nat
  BY RequestType DEF MessageSize
<1>4. b = h \o body
  BY DEF ClientHeader
<1> HIDE DEF c, m
<1>5. h \in Seq(Byte) /\ Len(h) = r.basic + MessageSize[r.type + 1]
  BY <1>1, <1>2, ConcatType
<1>6. 1 \in 1 .. Len(c) /\ 1 \in 1 .. Len(h)
  BY <1>1, <1>3, <1>5
<1>7. h[1] = c[1]
  BY <1>1, <1>2, <1>6, ConcatFirst
<1>8. ASSUME NEW k \in 1 .. Len(m) PROVE h[r.basic + k] = m[k]
  <2>1. c \in Seq(Byte) /\ m \in Seq(Byte) /\ r.basic + k = Len(c) + k
    BY <1>1, <1>2
  <2> QED BY <2>1, ConcatSecond
<1> HIDE DEF h
<1>9. b \in Seq(Byte) /\ Len(b) = Len(h) + Len(body)
  BY <1>4, <1>5, ConcatType
<1>10. b[1] = c[1]
  BY <1>4, <1>5, <1>6, <1>7, ConcatFirst
<1>11. /\ BasicSize(b) = r.basic /\ TypeOf(b) = r.type
       /\ r.basic = 1 => StreamId(b) = r.cs_id
  <2>1. CASE r.basic = 1
    <3>1. r.cs_id # 0 /\ r.cs_id # 1
      <4>1. r.cs_id \in 2 .. 63
        BY <2>1 DEF Fits
      <4>2. 0 \notin 2 .. 63 /\ 1 \notin 2 .. 63
        OBVIOUS
      <4> QED BY <4>1, <4>2
    <3>2. b[1] % 64 = r.cs_id /\ b[1] \div 64 = r.type
      BY <1>1, <1>10, <2>1
    <3>3. BasicSize(b) = 1
      BY <3>1, <3>2 DEF BasicSize
    <3>4. StreamId(b) = r.cs_id
      BY <3>2, <3>3, 1 # 2, 1 # 3 DEF StreamId
    <3> QED BY <2>1, <3>2, <3>3, <3>4 DEF TypeOf
  <2>2. CASE r.basic = 2
    BY <1>1, <1>10, <2>2 DEF BasicSize, TypeOf
  <2>3. CASE r.basic = 3
    BY <1>1, <1>10, <2>3 DEF BasicSize, TypeOf
  <2> QED BY <1>3, <2>1, <2>2, <2>3
<1>12. ASSUME NEW k \in 1 .. MessageSize[r.type + 1]
       PROVE  From(b, BasicSize(b) + 1)[k] = m[k]
  <2> DEFINE size == MessageSize[r.type + 1]
  <2>1. k \in 1 .. (Len(b) - r.basic) /\ r.basic + k \in 1 .. Len(h) /\ k \in 1 .. Len(m)
    <3>1. r.basic \in Nat /\ size \in Nat /\ Len(body) \in Nat /\ k \in 1 .. size
      BY <1>3
    <3>2. Len(m) = size /\ Len(h) = r.basic + size /\ Len(b) = r.basic + size + Len(body)
      BY <1>2, <1>5, <1>9
    <3> HIDE DEF size
    <3> QED BY <3>1, <3>2
  <2>2. From(b, r.basic + 1)[k] = b[r.basic + k]
    <3>1. r.basic \in Nat /\ b \in Seq(Byte)
      BY <1>3, <1>9
    <3> QED BY <2>1, <3>1, FromAt
  <2>3. b[r.basic + k] = h[r.basic + k]
    BY <1>4, <1>5, <2>1, ConcatFirst
  <2> QED BY <1>8, <1>11, <2>1, <2>2, <2>3
<1>13. Len(ClientHeader(r)) = r.basic + MessageSize[r.type + 1]
  BY <1>5 DEF ClientHeader, h, c, m
<1> QED BY <1>9, <1>11, <1>12, <1>13 DEF m

-----------------------------------------------------------------------------
(***************************************************************************)
(* The inductive invariant: what a client has sent is its header and some  *)
(* bytes, and what is parsed is what is on the wire.                       *)
(***************************************************************************)
ClientWire ==
    phase \in {"wire", "parsed"} /\ sender = "client" =>
        /\ Fits(asked) /\ asked.timestamp < Limit24 /\ asked.msg_length < Limit24
        /\ written = ClientHeader(asked)
        /\ \E body \in Seq(Byte) : wire = ClientHeader(asked) \o body

WireInv == /\ asked \in Requests
           /\ ClientWire
           /\ phase = "parsed" => header = Parsed(wire)

LEMMA InitWire == Init => WireInv
  BY DEF Init, WireInv, ClientWire

LEMMA NextWire == WireInv /\ [Next]_vars => WireInv'
<1> SUFFICES ASSUME WireInv, [Next]_vars PROVE WireInv'
  OBVIOUS
<1>1. ASSUME NEW body \in Bodies, ClientSends(body) PROVE WireInv'
  <2>1. body \in Seq(Byte)
    BY HeadersAssumption
  <2>2. asked.timestamp \in Nat
    BY RequestType DEF WireInv
  <2>3. asked.timestamp < Limit24
    BY <1>1, <2>2, Limit24Type DEF ClientSends
  <2> QED BY <1>1, <2>1, <2>3 DEF ClientSends, WireInv, ClientWire
<1>2. ASSUME NEW stack \in Stacks, ServerSends(stack) PROVE WireInv'
  BY <1>2 DEF ServerSends, WireInv, ClientWire
<1>3. CASE Parse
  BY <1>3 DEF Parse, WireInv, ClientWire
<1>4. CASE UNCHANGED vars
  BY <1>4 DEF vars, WireInv, ClientWire
<1> QED BY <1>1, <1>2, <1>3, <1>4 DEF Next

LEMMA WireSuffices == WireInv => ClientHeaderRead
<1> SUFFICES ASSUME WireInv, phase = "parsed", sender = "client" PROVE ClientHeaderRead
  BY DEF ClientHeaderRead
<1> DEFINE d == From(wire, BasicSize(wire) + 1)
<1>1. /\ asked \in Requests /\ Fits(asked)
      /\ asked.timestamp < Limit24 /\ asked.msg_length < Limit24
      /\ written = ClientHeader(asked) /\ header = Parsed(wire)
  BY DEF WireInv, ClientWire
<1>2. PICK body \in Seq(Byte) : wire = ClientHeader(asked) \o body
  BY DEF WireInv, ClientWire
<1>3. /\ Len(written) = asked.basic + MessageSize[asked.type + 1]
      /\ BasicSize(wire) = asked.basic /\ TypeOf(wire) = asked.type
      /\ asked.basic = 1 => StreamId(wire) = asked.cs_id
      /\ \A k \in 1 .. MessageSize[asked.type + 1] : d[k] = ClientMessage(asked)[k]
  BY <1>1, <1>2, ReadBasic
<1> HIDE DEF d
<1>4. /\ asked.type <= 2 => TimestampOf(d) = asked.timestamp
      /\ asked.type <= 1 => /\ LengthOf(d) = asked.msg_length
                            /\ d[7] = asked.msg_type_id
      /\ asked.type = 0 => Swap(WordAt(d, 8)) = asked.msg_stream_id
  BY <1>1, <1>3, Fields
<1>5. asked.type \in 0 .. 3
  BY <1>1, RequestType
<1>6. /\ header.header_size = BasicSize(wire) + MessageSize[TypeOf(wire) + 1]
      /\ header.stream_id = StreamId(wire) /\ header.type = TypeOf(wire)
      /\ TypeOf(wire) <= 2 => header.timestamp = TimestampOf(d)
      /\ TypeOf(wire) <= 1 => /\ header.message_length = LengthOf(d)
                              /\ header.message_type_id = d[7]
      /\ TypeOf(wire) = 0 => header.message_stream_id = Swap(WordAt(d, 8))
  BY <1>1 DEF Parsed, d
<1> QED BY <1>3, <1>4, <1>5, <1>6 DEF ClientHeaderRead

(***************************************************************************)
(* A client's header is read for what it is, for every id, timestamp,      *)
(* length, type and body: RTMPHeaders' constructor with the functions for  *)
(* the types.                                                              *)
(***************************************************************************)
THEOREM ClientHeaderReadAlways == Spec => []ClientHeaderRead
<1>1. Init => WireInv
  BY InitWire
<1>2. WireInv /\ [Next]_vars => WireInv'
  BY NextWire
<1>3. WireInv => ClientHeaderRead
  BY WireSuffices
<1> QED BY <1>1, <1>2, <1>3, PTL DEF Spec
-----------------------------------------------------------------------------
(* Types: whatever bytes are sent or built, the object holds numbers in    *)
(* the ranges of its fields.                                               *)

LEMMA LeadingType ==
    ASSUME NEW s \in Seq(Byte), NEW S
    PROVE  Leading(s, S) \in 0 .. Len(s)
<1> DEFINE T == {n \in 0 .. Len(s) : \A k \in 1 .. n : s[k] \in S}
<1>1. 0 \in T /\ T \subseteq 0 .. Len(s) /\ Len(s) \in Nat
  OBVIOUS
<1>2. PICK n \in T : \A m \in T : m <= n
  BY <1>1, Greatest
<1>3. n \in 0 .. Len(s) /\ \A k \in 1 .. n : s[k] \in S
  OBVIOUS
<1>4. n < Len(s) => s[n + 1] \notin S
  <2>1. SUFFICES ASSUME n < Len(s), s[n + 1] \in S PROVE FALSE
    OBVIOUS
  <2>2. n + 1 \in 0 .. Len(s) /\ \A k \in 1 .. n + 1 : k = n + 1 \/ k \in 1 .. n
    BY <1>1, <1>3, <2>1
  <2>3. n + 1 \in T
    BY <1>3, <2>1, <2>2
  <2> QED BY <1>1, <1>2, <1>3, <2>3
<1> QED BY <1>3, <1>4 DEF Leading

\* The recursion of Decimal has a function, and its values are integers.
LEMMA DecimalType ==
    ASSUME NEW s \in Seq(Byte), NEW n \in 0 .. Len(s)
    PROVE  Decimal(s, n) \in Int
<1> DEFINE Step(f) == [k \in 0 .. n |-> IF k = 0 THEN 0 ELSE 10 * f[k - 1] + (s[k] - 48)]
           value == CHOOSE f : f = Step(f)
           F == [p \in Nat \X Int |-> IF p[1] \in 1 .. n THEN 10 * p[2] + (s[p[1]] - 48) ELSE 0]
<1>1. Decimal(s, n) = value[n]
  BY DEF Decimal
<1>2. n \in Nat /\ \A k \in 1 .. n : s[k] \in Int
  <2>1. n \in Nat
    OBVIOUS
  <2>2. ASSUME NEW k \in 1 .. n PROVE s[k] \in Int
    <3>1. k \in 1 .. Len(s)
      OBVIOUS
    <3>2. s[k] \in Byte
      BY <3>1
    <3> QED BY ONLY <3>2, ByteType
  <2> QED BY <2>1, <2>2
<1>3. F \in [Nat \X Int -> Int]
  BY <1>2
<1>4. \A k \in 1 .. n, x \in Int : F[<<k, x>>] = 10 * x + (s[k] - 48)
  OBVIOUS
<1> HIDE DEF F
<1>5. PICK f \in [0 .. n -> Int] : Computes(f, n, 0, F)
  <2>1. 0 \in Int
    OBVIOUS
  <2> QED BY <1>2, <1>3, <2>1, Computable
<1>6. \A k \in 0 .. n : f[k] = IF k = 0 THEN 0 ELSE 10 * f[k - 1] + (s[k] - 48)
  <2>1. f[0] = 0
    BY <1>5 DEF Computes
  <2>2. ASSUME NEW k \in 1 .. n PROVE f[k] = 10 * f[k - 1] + (s[k] - 48)
    <3>1. k - 1 \in 0 .. n
      BY <1>2
    <3>2. f[k - 1] \in Int
      BY <3>1
    <3> QED BY <1>4, <1>5, <3>2 DEF Computes
  <2> QED BY <1>2, <2>1, <2>2
<1>7. f = Step(f)
  BY <1>6
<1> HIDE DEF Step
<1>8. value = Step(value)
  BY <1>7
<1>9. \A k \in 0 .. n : value[k] \in Int
  <2> DEFINE T == {k \in Nat : k <= n => value[k] \in Int}
  <2>1. \A k \in 0 .. n : value[k] = IF k = 0 THEN 0 ELSE 10 * value[k - 1] + (s[k] - 48)
    BY <1>8 DEF Step
  <2> HIDE DEF value
  <2>2. 0 \in T
    BY <1>2, <2>1
  <2>3. ASSUME NEW k \in Nat, k \in T PROVE k + 1 \in T
    <3>1. SUFFICES ASSUME k + 1 <= n PROVE value[k + 1] \in Int
      OBVIOUS
    <3>2. k + 1 \in 0 .. n /\ k + 1 \in 1 .. n /\ k + 1 # 0 /\ (k + 1) - 1 = k /\ value[k] \in Int
      BY <1>2, <2>3, <3>1
    <3>3. value[k + 1] = 10 * value[k] + (s[k + 1] - 48)
      BY <2>1, <3>2
    <3>4. s[k + 1] \in Int
      BY <1>2, <3>2
    <3>5. ASSUME NEW x \in Int, NEW y \in Int PROVE 10 * x + (y - 48) \in Int
      OBVIOUS
    <3> QED BY ONLY <3>2, <3>3, <3>4, <3>5
  <2> HIDE DEF T
  <2>4. Nat \subseteq T
    BY <2>2, <2>3, Induct
  <2> QED BY <1>2, <2>4 DEF T
<1> QED BY <1>1, <1>2, <1>9

LEMMA AtoiType == ASSUME NEW s \in Seq(Byte) PROVE Atoi(s) \in Int
<1> DEFINE text   == SubSeq(s, Leading(s, Spaces) + 1, Len(s))
           signed == text # <<>> /\ Head(text) \in {43, 45}
           number == IF signed THEN Tail(text) ELSE text
           value  == Decimal(number, Leading(number, Digits))
<1>1. Leading(s, Spaces) \in Nat
  BY LeadingType
<1>2. text \in Seq(Byte)
  BY <1>1
<1>3. Atoi(s) = IF signed /\ Head(text) = 45 THEN -value ELSE value
  BY DEF Atoi
<1> HIDE DEF text
<1>4. number \in Seq(Byte)
  BY <1>2
<1> HIDE DEF number
<1>5. value \in Int
  BY <1>4, LeadingType, DecimalType
<1> HIDE DEF value, signed
<1> QED BY <1>3, <1>5

LEMMA FromType == ASSUME NEW b \in Seq(Byte), NEW k \in Nat, k # 0 PROVE From(b, k) \in Seq(Byte)
  BY DEF From

LEMMA FirstType ==
    ASSUME NEW b \in Seq(Byte), b # <<>>
    PROVE  /\ BasicSize(b) \in 1 .. 3 /\ TypeOf(b) \in 0 .. 3 /\ StreamId(b) \in Int
           /\ MessageSize[TypeOf(b) + 1] \in 0 .. 11
<1>1. b[1] \in 0 .. 255
  <2>1. 1 \in 1 .. Len(b)
    OBVIOUS
  <2>2. b[1] \in Byte
    BY <2>1
  <2> QED BY <2>2 DEF Byte
<1>2. b[1] % 64 \in Int /\ b[1] \div 64 \in 0 .. 3
  <2>1. ASSUME NEW x \in 0 .. 255 PROVE x % 64 \in Int /\ x \div 64 \in 0 .. 3
    OBVIOUS
  <2> QED BY <1>1, <2>1
<1>3. BasicSize(b) \in 1 .. 3
  BY DEF BasicSize
<1>4. From(b, 2) \in Seq(Byte) /\ From(b, 3) \in Seq(Byte)
  BY FromType
<1>5. StreamId(b) \in Int
  BY <1>2, <1>3, <1>4, AtoiType DEF StreamId
<1>6. TypeOf(b) \in 0 .. 3
  BY <1>2 DEF TypeOf
<1>7. \A t \in 0 .. 3 : MessageSize[t + 1] \in 0 .. 11
  BY DEF MessageSize
<1> QED BY <1>3, <1>5, <1>6, <1>7

LEMMA ThreeNum ==
    ASSUME NEW x \in Byte, NEW y \in Byte, NEW z \in Byte
    PROVE  x + 256 * y + 65536 * z \in 0 .. Limit24 - 1
<1>1. /\ x \in Int /\ 0 <= x /\ x <= 255
      /\ y \in Int /\ 0 <= y /\ y <= 255
      /\ z \in Int /\ 0 <= z /\ z <= 255
  BY ByteType
<1>2. 0 <= x + 256 * y + 65536 * z /\ x + 256 * y + 65536 * z <= 16777215
  BY <1>1, SMT
<1>3. x + 256 * y + 65536 * z \in Int
  BY <1>1
<1>4. ASSUME NEW n \in Int, 0 <= n, n <= 16777215 PROVE n \in 0 .. Limit24 - 1
  <2>1. n < Limit24
    BY <1>4, SMT DEF Limit24
  <2> QED BY <1>4, <2>1, Limit24Type
<1> QED BY ONLY <1>2, <1>3, <1>4

Headers == [header_size : 0 .. 14, stream_id : Int, type : 0 .. 3,
            timestamp : -1 .. Limit24 - 1, message_length : -1 .. Limit24 - 1,
            message_type_id : {-1} \cup Byte, message_stream_id : Words]

\* Parsing a header that is there in full.
LEMMA ParsedType ==
    ASSUME NEW b \in Seq(Byte), b # <<>>, Len(b) >= BasicSize(b) + MessageSize[TypeOf(b) + 1]
    PROVE  Parsed(b) \in Headers
<1> DEFINE n == BasicSize(b)
           t == TypeOf(b)
           size == MessageSize[t + 1]
           d == From(b, n + 1)
<1>1. n \in 1 .. 3 /\ t \in 0 .. 3 /\ StreamId(b) \in Int /\ size \in 0 .. 11
  BY FirstType
<1>2. /\ t = 0 => size = 11
      /\ t = 1 => size = 7
      /\ t = 2 => size = 3
  BY DEF MessageSize
<1>3. Len(b) >= n + size
  OBVIOUS
<1>4. Parsed(b) = [header_size       |-> n + size,
                   stream_id         |-> StreamId(b),
                   type              |-> t,
                   timestamp         |-> IF t <= 2 THEN TimestampOf(d) ELSE Garbage.timestamp,
                   message_length    |-> IF t <= 1 THEN LengthOf(d) ELSE Garbage.message_length,
                   message_type_id   |-> IF t <= 1 THEN d[7] ELSE Garbage.message_type_id,
                   message_stream_id |-> IF t = 0 THEN Swap(WordAt(d, 8))
                                         ELSE Garbage.message_stream_id]
  BY DEF Parsed
<1> HIDE DEF n, t, size, d
<1>5. ASSUME NEW k \in 1 .. size PROVE d[k] \in Byte
  <2>1. k \in 1 .. (Len(b) - n) /\ n \in Nat
    BY <1>1, <1>3
  <2>2. d[k] = b[n + k]
    BY <2>1, FromAt DEF d
  <2>3. n + k \in 1 .. Len(b)
    BY <2>1
  <2> QED BY <2>2, <2>3
<1>6. t <= 2 => TimestampOf(d) \in 0 .. Limit24 - 1
  <2>1. SUFFICES ASSUME t <= 2 PROVE TimestampOf(d) \in 0 .. Limit24 - 1
    OBVIOUS
  <2>2. 1 \in 1 .. size /\ 2 \in 1 .. size /\ 3 \in 1 .. size
    BY <1>1, <1>2, <2>1
  <2>3. TimestampOf(d) = d[3] + 256 * d[2] + 65536 * d[1]
    BY DEF TimestampOf, Num, Swap, ShiftedAt
  <2>4. d[1] \in Byte /\ d[2] \in Byte /\ d[3] \in Byte
    BY <1>5, <2>2
  <2>5. ASSUME NEW x, NEW y, NEW z, x = d[3], y = d[2], z = d[1]
        PROVE  x + 256 * y + 65536 * z \in 0 .. Limit24 - 1
    <3>1. x \in Byte /\ y \in Byte /\ z \in Byte
      BY <2>4, <2>5
    <3> QED BY ONLY <3>1, ThreeNum
  <2> QED BY ONLY <2>3, <2>5
<1>7. t <= 1 => LengthOf(d) \in 0 .. Limit24 - 1 /\ d[7] \in Byte
  <2>1. SUFFICES ASSUME t <= 1 PROVE LengthOf(d) \in 0 .. Limit24 - 1 /\ d[7] \in Byte
    OBVIOUS
  <2>2. 4 \in 1 .. size /\ 5 \in 1 .. size /\ 6 \in 1 .. size /\ 7 \in 1 .. size
    BY <1>1, <1>2, <2>1
  <2>3. LengthOf(d) = d[6] + 256 * d[5] + 65536 * d[4]
    BY DEF LengthOf, Num, Mask24, Swap, WordAt
  <2>4. d[4] \in Byte /\ d[5] \in Byte /\ d[6] \in Byte /\ d[7] \in Byte
    BY <1>5, <2>2
  <2>5. ASSUME NEW x, NEW y, NEW z, x = d[6], y = d[5], z = d[4]
        PROVE  x + 256 * y + 65536 * z \in 0 .. Limit24 - 1
    <3>1. x \in Byte /\ y \in Byte /\ z \in Byte
      BY <2>4, <2>5
    <3> QED BY ONLY <3>1, ThreeNum
  <2> QED BY ONLY <2>3, <2>4, <2>5
<1>8. t = 0 => Swap(WordAt(d, 8)) \in Words
  <2>1. SUFFICES ASSUME t = 0 PROVE Swap(WordAt(d, 8)) \in Words
    OBVIOUS
  <2>2. 8 \in 1 .. size /\ 9 \in 1 .. size /\ 10 \in 1 .. size /\ 11 \in 1 .. size
    BY <1>2, <2>1
  <2>3. Swap(WordAt(d, 8)) = <<d[11], d[10], d[9], d[8]>>
    BY DEF Swap, WordAt
  <2>4. d[8] \in Byte /\ d[9] \in Byte /\ d[10] \in Byte /\ d[11] \in Byte
    BY <1>5, <2>2
  <2> QED BY <2>3, <2>4 DEF Words
<1>9. /\ Garbage.timestamp \in -1 .. Limit24 - 1 /\ Garbage.message_length \in -1 .. Limit24 - 1
      /\ Garbage.message_type_id = -1 /\ Garbage.message_stream_id \in Words
  <2>1. <<255, 255, 255, 255>> \in Words
    BY SMT DEF Words, Byte
  <2>2. -1 \in -1 .. Limit24 - 1
    BY SMT, Limit24Type
  <2> QED BY <2>1, <2>2, SMT DEF Garbage
<1>10. n + size \in 0 .. 14
  BY <1>1
<1>11. (IF t <= 2 THEN TimestampOf(d) ELSE Garbage.timestamp) \in -1 .. Limit24 - 1
  BY <1>6, <1>9, Limit24Type
<1>12. (IF t <= 1 THEN LengthOf(d) ELSE Garbage.message_length) \in -1 .. Limit24 - 1
  BY <1>7, <1>9, Limit24Type
<1>13. (IF t <= 1 THEN d[7] ELSE Garbage.message_type_id) \in {-1} \cup Byte
  BY <1>7, <1>9
<1>14. (IF t = 0 THEN Swap(WordAt(d, 8)) ELSE Garbage.message_stream_id) \in Words
  BY <1>8, <1>9
<1> QED BY <1>1, <1>4, <1>10, <1>11, <1>12, <1>13, <1>14 DEF Headers
\* What a client sends is bytes.
LEMMA ClientHeaderType ==
    ASSUME NEW r \in Requests, Fits(r), r.timestamp < Limit24, r.msg_length < Limit24
    PROVE  ClientHeader(r) \in Seq(Byte) /\ ClientHeader(r) # <<>>
<1>1. ClientBasic(r) \in Seq(Byte) /\ Len(ClientBasic(r)) = r.basic
  BY BasicLayout
<1>2. ClientMessage(r) \in Seq(Byte)
  BY Layout
<1>3. r.basic \in 1 .. 3
  BY RequestType
<1>4. /\ ClientHeader(r) \in Seq(Byte)
      /\ Len(ClientHeader(r)) = Len(ClientBasic(r)) + Len(ClientMessage(r))
  BY <1>1, <1>2, ConcatType DEF ClientHeader
<1>5. Len(ClientMessage(r)) \in Nat
  BY <1>2
<1>6. Len(ClientHeader(r)) # 0
  BY <1>1, <1>3, <1>4, <1>5
<1> QED BY <1>4, <1>6

LEMMA WordType == ASSUME NEW x \in Nat, x < Limit24 PROVE Word(x) \in Words
<1>1. <<x % 256, (x \div 256) % 256, x \div 65536, 0>> \in Words
  <2>1. 0 \in Byte
    BY DEF Byte
  <2> QED BY <2>1, Three DEF Words
<1> QED BY <1>1 DEF Word

LEMMA SwapType ==
    ASSUME NEW w \in Words
    PROVE  /\ Swap(w) \in Words /\ Swap(w) \in Seq(Byte) /\ Len(Swap(w)) = 4
           /\ Swap(w)[1] = w[4] /\ Swap(w)[2] = w[3] /\ Swap(w)[3] = w[2] /\ Swap(w)[4] = w[1]
  BY DEF Swap, Words

LEMMA FirstThree ==
    ASSUME NEW w \in Words
    PROVE  SubSeq(w, 1, 3) \in Seq(Byte) /\ Len(SubSeq(w, 1, 3)) = 3
<1>1. ASSUME NEW a \in Byte, NEW b \in Byte, NEW c \in Byte, NEW d \in Byte
      PROVE  SubSeq(<<a, b, c, d>>, 1, 3) \in Seq(Byte) /\ Len(SubSeq(<<a, b, c, d>>, 1, 3)) = 3
  <2>1. <<a, b, c, d>> \in Seq(Byte) /\ Len(<<a, b, c, d>>) = 4
    OBVIOUS
  <2> DEFINE t == <<a, b, c, d>>
  <2> HIDE DEF t
  <2>2. SubSeq(t, 1, 3) \in Seq(Byte) /\ Len(SubSeq(t, 1, 3)) = 3
    BY <2>1 DEF t
  <2> QED BY <2>2 DEF t
<1>2. /\ w = <<w[1], w[2], w[3], w[4]>>
      /\ w[1] \in Byte /\ w[2] \in Byte /\ w[3] \in Byte /\ w[4] \in Byte
  BY DEF Words
<1>3. ASSUME NEW a \in Byte, NEW b \in Byte, NEW c \in Byte, NEW d \in Byte, w = <<a, b, c, d>>
      PROVE  SubSeq(w, 1, 3) \in Seq(Byte) /\ Len(SubSeq(w, 1, 3)) = 3
  BY ONLY <1>1, <1>3
<1> QED BY ONLY <1>2, <1>3

LEMMA ShiftType == ASSUME NEW w \in Words PROVE ShiftLeft8(w) \in Words
<1>1. <<0, w[1], w[2], w[3]>> \in Words
  <2>1. 0 \in Byte /\ w[1] \in Byte /\ w[2] \in Byte /\ w[3] \in Byte
    BY DEF Words, Byte
  <2> QED BY <2>1 DEF Words
<1> QED BY <1>1 DEF ShiftLeft8

\* The basic header of the builder: its first byte is the id, or the mark of a
\* longer header, and has no type in it.
BasicBytes(r, c) ==
    /\ c \in Seq(Byte)
    /\ c # <<>> => /\ Len(c) = r.basic
                   /\ r.basic = 1 => c[1] = r.cs_id /\ 2 <= r.cs_id /\ r.cs_id <= 63
                   /\ r.basic = 2 => c[1] = 0
                   /\ r.basic = 3 => c[1] = 1

LEMMA BuiltBasic ==
    ASSUME NEW r \in Requests, NEW stack \in Byte
    PROVE  BasicBytes(r, BasicHeader(r, stack))
<1> DEFINE c == BasicHeader(r, stack)
           low == (r.cs_id - 64) % 256
           high == (r.cs_id - 64) \div 256
           A1 == r.basic = 1 /\ 2 <= r.cs_id /\ r.cs_id <= 63
           A2 == r.basic = 2 /\ 64 <= r.cs_id /\ r.cs_id <= 319
           A3 == r.basic = 3 /\ 64 <= r.cs_id /\ r.cs_id <= 255
           A4 == r.basic = 3 /\ 256 <= r.cs_id /\ r.cs_id <= 65599
<1>1. r.basic \in 1 .. 3 /\ r.cs_id \in Nat
  BY RequestType
<1>2. 0 \in Byte /\ 1 \in Byte
  BY DEF Byte
<1>3. CASE A1
  <2>1. c = <<r.cs_id>>
    BY <1>3, SMT DEF BasicHeader
  <2>2. r.cs_id \in Byte
    BY <1>1, <1>3, SMT DEF Byte
  <2> QED BY <1>3, <2>1, <2>2 DEF BasicBytes
<1>4. CASE A2
  <2>1. c = <<0, r.cs_id - 64>>
    BY <1>4, SMT DEF BasicHeader
  <2>2. r.cs_id - 64 \in Byte
    BY <1>1, <1>4, SMT DEF Byte
  <2> QED BY <1>2, <1>4, <2>1, <2>2 DEF BasicBytes
<1>5. CASE A3
  <2>1. c = <<1, r.cs_id - 64, stack>>
    BY <1>1, <1>5, SMT DEF BasicHeader
  <2>2. r.cs_id - 64 \in Byte
    BY <1>1, <1>5, SMT DEF Byte
  <2> QED BY <1>2, <1>5, <2>1, <2>2 DEF BasicBytes
<1>6. CASE A4
  <2>1. c = <<1, low, high>>
    BY <1>1, <1>6, SMT DEF BasicHeader
  <2>2. 64 <= r.cs_id
    BY <1>1, <1>6
  <2>3. low \in Byte /\ high \in Byte
    BY <1>1, <1>6, <2>2, LongId
  <2> HIDE DEF low, high
  <2> QED BY <1>2, <1>6, <2>1, <2>3 DEF BasicBytes
<1>7. CASE ~(A1 \/ A2 \/ A3 \/ A4)
  <2>1. c = <<>>
    BY <1>1, <1>7, SMT DEF BasicHeader
  <2> QED BY <2>1 DEF BasicBytes
<1> HIDE DEF A1, A2, A3, A4
<1> QED BY <1>3, <1>4, <1>5, <1>6, <1>7
LEMMA IncompatibleNot ==
    ASSUME NEW r \in Requests, ~Incompatible(r)
    PROVE  /\ r.type = 0 => r.timestamp < Limit24
           /\ r.type <= 1 => r.msg_length < Limit24
<1>1. r.type \in 0 .. 3 /\ r.timestamp \in Nat /\ r.msg_length \in Nat
  BY RequestType
<1>2. r.type <= 1 => r.type \in {0, 1}
  BY <1>1
<1> QED BY <1>1, <1>2, Limit24Type DEF Incompatible

\* The message header of the builder is bytes; where its parts lie for type 0.
LEMMA BuiltMessage ==
    ASSUME NEW r \in Requests, ~Incompatible(r)
    PROVE  LET m == MessageHeader(r)
           IN  /\ m \in Seq(Byte)
               /\ r.type = 0 => /\ Len(m) = 11 /\ m[7] = r.msg_type_id
                                /\ m[8] = r.msg_stream_id[4] /\ m[9] = r.msg_stream_id[3]
                                /\ m[10] = r.msg_stream_id[2] /\ m[11] = r.msg_stream_id[1]
<1> DEFINE time == SubSeq(Swap(Word(r.timestamp)), 1, 3)
           len  == SubSeq(ShiftLeft8(Swap(Word(r.msg_length))), 1, 3)
           id   == <<r.msg_type_id>>
           T == IF r.type = 0 THEN time ELSE <<>>
           L == IF r.type <= 1 THEN len \o id ELSE <<>>
           S == IF r.type <= 2 THEN Swap(r.msg_stream_id) ELSE <<>>
           m == MessageHeader(r)
<1>1. r.type \in 0 .. 3 /\ r.msg_type_id \in Byte /\ r.msg_stream_id \in Words
  BY RequestType
<1>2. r.type = 0 => time \in Seq(Byte) /\ Len(time) = 3
  <2>1. SUFFICES ASSUME r.type = 0 PROVE time \in Seq(Byte) /\ Len(time) = 3
    OBVIOUS
  <2>2. Swap(Word(r.timestamp)) \in Words
    BY <2>1, IncompatibleNot, RequestType, WordType, SwapType
  <2> QED BY <2>2, FirstThree
<1>3. r.type <= 1 => len \in Seq(Byte) /\ Len(len) = 3
  <2>1. SUFFICES ASSUME r.type <= 1 PROVE len \in Seq(Byte) /\ Len(len) = 3
    OBVIOUS
  <2>2. Swap(Word(r.msg_length)) \in Words
    BY <2>1, IncompatibleNot, RequestType, WordType, SwapType
  <2>3. ShiftLeft8(Swap(Word(r.msg_length))) \in Words
    BY <2>2, ShiftType
  <2> QED BY <2>3, FirstThree
<1>4. id \in Seq(Byte) /\ Len(id) = 1 /\ id[1] = r.msg_type_id
  BY <1>1
<1>5. /\ Swap(r.msg_stream_id) \in Seq(Byte) /\ Len(Swap(r.msg_stream_id)) = 4
      /\ Swap(r.msg_stream_id)[1] = r.msg_stream_id[4] /\ Swap(r.msg_stream_id)[2] = r.msg_stream_id[3]
      /\ Swap(r.msg_stream_id)[3] = r.msg_stream_id[2] /\ Swap(r.msg_stream_id)[4] = r.msg_stream_id[1]
  BY <1>1, SwapType
<1>6. m = (T \o L) \o S
  BY DEF MessageHeader
<1> HIDE DEF time, len, id, m
<1>7. <<>> \in Seq(Byte)
  OBVIOUS
<1>8. r.type <= 1 => len \o id \in Seq(Byte)
  BY <1>3, <1>4, ConcatType
<1>9. T \in Seq(Byte) /\ L \in Seq(Byte) /\ S \in Seq(Byte)
  BY <1>2, <1>5, <1>7, <1>8
<1>10. m \in Seq(Byte)
  <2> HIDE DEF T, L, S
  <2>1. T \o L \in Seq(Byte)
    BY <1>9, ConcatType
  <2> QED BY <1>6, <1>9, <2>1, ConcatType
<1>11. ASSUME r.type = 0
       PROVE  /\ Len(m) = 11 /\ m[7] = r.msg_type_id
              /\ m[8] = r.msg_stream_id[4] /\ m[9] = r.msg_stream_id[3]
              /\ m[10] = r.msg_stream_id[2] /\ m[11] = r.msg_stream_id[1]
  <2> DEFINE A == time \o len
             Q == Swap(r.msg_stream_id)
  <2>1. time \in Seq(Byte) /\ len \in Seq(Byte) /\ Len(time) = 3 /\ Len(len) = 3
    BY <1>2, <1>3, <1>11
  <2>2. A \in Seq(Byte) /\ Len(A) = 6
    BY <2>1, TwoFields
  <2>3. T \o L = A \o <<r.msg_type_id>>
    <3>1. T \o L = time \o (len \o id)
      BY <1>11
    <3>2. time \in Seq(Byte) /\ len \in Seq(Byte) /\ id \in Seq(Byte)
      BY <1>4, <2>1
    <3>3. time \o (len \o id) = (time \o len) \o id
      BY ONLY <3>2, ConcatAssociative
    <3> QED BY <3>1, <3>3 DEF id
  <2>4. Q \in Seq(Byte) /\ Len(Q) = 4 /\ S = Q
    BY <1>5, <1>11
  <2> DEFINE B == A \o <<r.msg_type_id>>
  <2>5. B \in Seq(Byte) /\ Len(B) = 7 /\ B[7] = r.msg_type_id
    <3> HIDE DEF A
    <3> QED BY <1>1, <2>2, ThenOne
  <2>6. m = B \o Q
    BY <1>6, <2>3, <2>4
  <2> HIDE DEF A, B, T, L, S, Q
  <2>7. /\ Len(B \o Q) = 11 /\ \A k \in 1 .. 7 : (B \o Q)[k] = B[k]
        /\ (B \o Q)[8] = Q[1] /\ (B \o Q)[9] = Q[2]
        /\ (B \o Q)[10] = Q[3] /\ (B \o Q)[11] = Q[4]
    BY <2>4, <2>5, ThenFour
  <2>8. 7 \in 1 .. 7
    OBVIOUS
  <2> QED BY <1>5, <2>5, <2>6, <2>7, <2>8 DEF Q
<1> QED BY <1>10, <1>11 DEF m

LEMMA BuiltType == ASSUME NEW r \in Requests, NEW stack \in Byte PROVE Built(r, stack) \in Seq(Byte)
<1>1. CASE BasicHeader(r, stack) = <<>> \/ Incompatible(r)
  BY <1>1 DEF Built
<1>2. CASE ~(BasicHeader(r, stack) = <<>> \/ Incompatible(r))
  <2>1. BasicHeader(r, stack) \in Seq(Byte)
    BY BuiltBasic DEF BasicBytes
  <2>2. MessageHeader(r) \in Seq(Byte)
    BY <1>2, BuiltMessage
  <2> QED BY <1>2, <2>1, <2>2, ConcatType DEF Built
<1> QED BY <1>1, <1>2

(***************************************************************************)
(* TypeOK needs one thing more: where the reader begins there is a byte.   *)
(***************************************************************************)
TypeInv == TypeOK /\ (phase = "wire" => wire # <<>>)

LEMMA InitType == Init => TypeInv
<1>1. Garbage \in Headers
  <2>1. -1 \in -1 .. Limit24 - 1 /\ -1 \in Int /\ 0 \in 0 .. 14 /\ 0 \in 0 .. 3
    BY Limit24Type
  <2>2. <<255, 255, 255, 255>> \in Words
    BY SMT DEF Words, Byte
  <2> QED BY <2>1, <2>2 DEF Garbage, Headers
<1> QED BY <1>1 DEF Init, TypeInv, TypeOK, Headers

LEMMA NextType == TypeInv /\ [Next]_vars => TypeInv'
<1> SUFFICES ASSUME TypeInv, [Next]_vars PROVE TypeInv'
  OBVIOUS
<1>1. /\ asked \in Requests /\ wire \in Seq(Byte)
      /\ phase = "wire" => wire # <<>>
  BY DEF TypeInv, TypeOK
<1>2. ASSUME NEW body \in Bodies, ClientSends(body) PROVE TypeInv'
  <2> DEFINE h == ClientHeader(asked)
  <2>1. body \in Seq(Byte)
    BY HeadersAssumption
  <2>2. asked.timestamp \in Nat
    BY <1>1, RequestType
  <2>3. asked.timestamp < Limit24
    BY <1>2, <2>2, Limit24Type DEF ClientSends
  <2>4. h \in Seq(Byte) /\ h # <<>>
    BY <1>1, <1>2, <2>3, ClientHeaderType DEF ClientSends
  <2> HIDE DEF h
  <2>5. h \o body \in Seq(Byte) /\ h \o body # <<>>
    <3>1. Len(h) # 0 /\ Len(h) \in Nat /\ Len(body) \in Nat
      BY <2>1, <2>4
    <3>2. h \o body \in Seq(Byte) /\ Len(h \o body) = Len(h) + Len(body)
      BY <2>1, <2>4, ConcatType
    <3>3. Len(h \o body) # 0
      BY <3>1, <3>2
    <3> QED BY <3>2, <3>3
  <2>6. written' = h /\ wire' = h \o body /\ phase' = "wire" /\ UNCHANGED <<sender, asked, header>>
    BY <1>2 DEF ClientSends, h
  <2> QED BY <2>4, <2>5, <2>6 DEF TypeInv, TypeOK
<1>3. ASSUME NEW stack \in Stacks, ServerSends(stack) PROVE TypeInv'
  <2>1. stack \in Byte
    BY HeadersAssumption
  <2>2. Built(asked, stack) \in Seq(Byte)
    BY <1>1, <2>1, BuiltType
  <2>3. phase' \in {"wire", "refused"} /\ (phase' = "wire" => Built(asked, stack) # <<>>)
    BY <1>3 DEF ServerSends
  <2> QED BY <1>3, <2>2, <2>3 DEF ServerSends, TypeInv, TypeOK
<1>4. CASE Parse
  <2>1. phase = "wire" /\ Len(wire) >= BasicSize(wire) + MessageSize[TypeOf(wire) + 1]
        /\ phase' = "parsed" /\ header' = Parsed(wire) /\ UNCHANGED <<sender, asked, written, wire>>
    BY <1>4 DEF Parse
  <2>2. Parsed(wire) \in Headers
    BY <1>1, <2>1, ParsedType
  <2> QED BY <2>1, <2>2 DEF TypeInv, TypeOK, Headers
<1>5. CASE UNCHANGED vars
  BY <1>5 DEF vars, TypeInv, TypeOK
<1> QED BY <1>2, <1>3, <1>4, <1>5 DEF Next

(***************************************************************************)
(* Whatever bytes are on the wire, the fields of the object are numbers of *)
(* their width, and chunk stream ids integers (StreamId and atoi, for text *)
(* of any length).                                                         *)
(***************************************************************************)
THEOREM TypeCorrect == Spec => []TypeOK
<1>1. TypeInv => TypeOK
  BY DEF TypeInv
<1> QED BY <1>1, InitType, NextType, PTL DEF Spec
-----------------------------------------------------------------------------
(***************************************************************************)
(* What the server sends: the wire holds a header that was built.          *)
(***************************************************************************)
ServerWire ==
    phase \in {"wire", "parsed"} /\ sender = "server" =>
        /\ written # <<>> /\ wire = written
        /\ \E stack \in Byte : written = Built(asked, stack)

ServerInv == /\ asked \in Requests
             /\ ServerWire
             /\ phase = "parsed" => header = Parsed(wire)

LEMMA InitServer == Init => ServerInv
  BY DEF Init, ServerInv, ServerWire

LEMMA NextServer == ServerInv /\ [Next]_vars => ServerInv'
<1> SUFFICES ASSUME ServerInv, [Next]_vars PROVE ServerInv'
  OBVIOUS
<1>1. ASSUME NEW body \in Bodies, ClientSends(body) PROVE ServerInv'
  BY <1>1 DEF ClientSends, ServerInv, ServerWire
<1>2. ASSUME NEW stack \in Stacks, ServerSends(stack) PROVE ServerInv'
  <2>1. stack \in Byte
    BY HeadersAssumption
  <2> QED BY <1>2, <2>1 DEF ServerSends, ServerInv, ServerWire
<1>3. CASE Parse
  BY <1>3 DEF Parse, ServerInv, ServerWire
<1>4. CASE UNCHANGED vars
  BY <1>4 DEF vars, ServerInv, ServerWire
<1> QED BY <1>1, <1>2, <1>3, <1>4 DEF Next

\* A header of type 0 as it was built, and how its bytes are read.
LEMMA ReadBuilt ==
    ASSUME NEW r \in Requests, r.type = 0, NEW stack \in Byte,
           NEW b, b = Built(r, stack), b # <<>>
    PROVE  /\ Len(b) = r.basic + 11 /\ BasicSize(b) = r.basic /\ TypeOf(b) = 0
           /\ r.basic = 1 => StreamId(b) = r.cs_id
           /\ LET d == From(b, BasicSize(b) + 1)
              IN  d[7] = r.msg_type_id /\ Swap(WordAt(d, 8)) = r.msg_stream_id
<1> DEFINE c == BasicHeader(r, stack)
           m == MessageHeader(r)
           d == From(b, BasicSize(b) + 1)
<1>1. c # <<>> /\ ~Incompatible(r) /\ b = c \o m
  BY DEF Built
<1>2. /\ m \in Seq(Byte) /\ Len(m) = 11 /\ m[7] = r.msg_type_id
      /\ m[8] = r.msg_stream_id[4] /\ m[9] = r.msg_stream_id[3]
      /\ m[10] = r.msg_stream_id[2] /\ m[11] = r.msg_stream_id[1]
  BY <1>1, BuiltMessage
<1>3. /\ c \in Seq(Byte) /\ Len(c) = r.basic
      /\ r.basic = 1 => c[1] = r.cs_id /\ 2 <= r.cs_id /\ r.cs_id <= 63
      /\ r.basic = 2 => c[1] = 0
      /\ r.basic = 3 => c[1] = 1
  BY <1>1, BuiltBasic DEF BasicBytes
<1>4. r.basic \in 1 .. 3 /\ r.msg_stream_id \in Words
  BY RequestType
<1> HIDE DEF c, m
<1>5. b \in Seq(Byte) /\ Len(b) = r.basic + 11
  <2>1. c \in Seq(Byte) /\ m \in Seq(Byte) /\ Len(c) = r.basic /\ Len(m) = 11 /\ b = c \o m
    BY <1>1, <1>2, <1>3
  <2>2. c \o m \in Seq(Byte) /\ Len(c \o m) = Len(c) + Len(m)
    BY <2>1, ConcatType
  <2> QED BY <2>1, <2>2
<1>6. b[1] = c[1]
  <2>1. 1 \in 1 .. Len(c)
    BY <1>3, <1>4
  <2> QED BY <1>1, <1>2, <1>3, <2>1, ConcatFirst
<1>7. BasicSize(b) = r.basic /\ TypeOf(b) = 0 /\ (r.basic = 1 => StreamId(b) = r.cs_id)
  <2>1. CASE r.basic = 1
    <3>1. b[1] = r.cs_id /\ 2 <= r.cs_id /\ r.cs_id <= 63
      BY <1>3, <1>6, <2>1
    <3>2. ASSUME NEW x \in Int, 2 <= x, x <= 63
          PROVE  x % 64 = x /\ x \div 64 = 0 /\ x # 0 /\ x # 1
      BY <3>2
    <3>3. r.cs_id \in Int /\ 2 <= r.cs_id /\ r.cs_id <= 63
      BY <3>1, RequestType
    <3>6. b[1] % 64 = r.cs_id /\ b[1] \div 64 = 0 /\ b[1] % 64 # 0 /\ b[1] % 64 # 1
      <4>1. r.cs_id % 64 = r.cs_id /\ r.cs_id \div 64 = 0 /\ r.cs_id # 0 /\ r.cs_id # 1
        BY ONLY <3>2, <3>3
      <4> QED BY ONLY <3>1, <4>1
    <3>4. BasicSize(b) = 1
      BY <3>6 DEF BasicSize
    <3>5. StreamId(b) = r.cs_id
      BY <3>6, <3>4, 1 # 2, 1 # 3 DEF StreamId
    <3> QED BY <2>1, <3>6, <3>4, <3>5 DEF TypeOf
  <2>2. CASE r.basic = 2
    <3>1. b[1] % 64 = 0 /\ b[1] \div 64 = 0
      BY <1>3, <1>6, <2>2
    <3> QED BY <2>2, <3>1 DEF BasicSize, TypeOf
  <2>3. CASE r.basic = 3
    <3>1. b[1] % 64 = 1 /\ b[1] \div 64 = 0
      BY <1>3, <1>6, <2>3
    <3> QED BY <2>3, <3>1 DEF BasicSize, TypeOf
  <2> QED BY <1>4, <2>1, <2>2, <2>3
<1>8. ASSUME NEW k \in 1 .. 11 PROVE d[k] = m[k]
  <2>1. r.basic \in Nat
    BY <1>4
  <2>2. k \in 1 .. (Len(b) - r.basic) /\ k \in 1 .. Len(m)
    BY <1>2, <1>5, <2>1
  <2>3. From(b, r.basic + 1)[k] = b[r.basic + k]
    BY <1>5, <2>1, <2>2, FromAt
  <2>4. b[r.basic + k] = m[k]
    <3>1. /\ c \in Seq(Byte) /\ m \in Seq(Byte) /\ b = c \o m
          /\ r.basic + k = Len(c) + k /\ k \in 1 .. Len(m)
      BY <1>1, <1>2, <1>3, <2>2
    <3>2. (c \o m)[r.basic + k] = m[k]
      BY ONLY <3>1, ConcatSecond
    <3> QED BY <3>1, <3>2
  <2> QED BY <1>7, <2>3, <2>4
<1> HIDE DEF d
<1>9. d[7] = r.msg_type_id
  <2>1. 7 \in 1 .. 11
    OBVIOUS
  <2> QED BY <1>2, <1>8, <2>1
<1>10. Swap(WordAt(d, 8)) = r.msg_stream_id
  <2>1. 8 \in 1 .. 11 /\ 9 \in 1 .. 11 /\ 10 \in 1 .. 11 /\ 11 \in 1 .. 11
    OBVIOUS
  <2>2. /\ d[8] = r.msg_stream_id[4] /\ d[9] = r.msg_stream_id[3]
        /\ d[10] = r.msg_stream_id[2] /\ d[11] = r.msg_stream_id[1]
    BY <1>2, <1>8, <2>1
  <2>3. Swap(WordAt(d, 8)) = <<r.msg_stream_id[1], r.msg_stream_id[2], r.msg_stream_id[3],
                               r.msg_stream_id[4]>>
    BY <2>2 DEF Swap, WordAt
  <2> QED BY <1>4, <2>3 DEF Words
<1> QED BY <1>5, <1>7, <1>9, <1>10 DEF d

(***************************************************************************)
(* A header of type 0 from build_rtmp_header is read for what it is: its   *)
(* length, its type, its message's type and stream, for every id, length   *)
(* and time the builder accepts.                                           *)
(***************************************************************************)
THEOREM ServerHeaderReadAlways == Spec => []ServerHeaderRead
<1>1. ServerInv => ServerHeaderRead
  <2> SUFFICES ASSUME ServerInv, phase = "parsed", sender = "server", asked.type = 0
               PROVE  ServerHeaderRead
    BY DEF ServerHeaderRead
  <2> DEFINE d == From(wire, BasicSize(wire) + 1)
  <2>1. PICK stack \in Byte : written = Built(asked, stack)
    BY DEF ServerInv, ServerWire
  <2>2. asked \in Requests /\ wire = written /\ written # <<>> /\ header = Parsed(wire)
    BY DEF ServerInv, ServerWire
  <2>3. /\ Len(wire) = asked.basic + 11 /\ BasicSize(wire) = asked.basic /\ TypeOf(wire) = 0
        /\ asked.basic = 1 => StreamId(wire) = asked.cs_id
        /\ d[7] = asked.msg_type_id /\ Swap(WordAt(d, 8)) = asked.msg_stream_id
    BY <2>1, <2>2, ReadBuilt
  <2> HIDE DEF d
  <2>4. /\ header.header_size = BasicSize(wire) + MessageSize[TypeOf(wire) + 1]
        /\ header.stream_id = StreamId(wire)
        /\ TypeOf(wire) <= 1 => header.message_type_id = d[7]
        /\ TypeOf(wire) = 0 => header.message_stream_id = Swap(WordAt(d, 8))
    BY <2>2 DEF Parsed, d
  <2>5. MessageSize[0 + 1] = 11
    BY DEF MessageSize
  <2> QED BY <2>2, <2>3, <2>4, <2>5 DEF ServerHeaderRead
<1> QED BY <1>1, InitServer, NextServer, PTL DEF Spec
=============================================================================
