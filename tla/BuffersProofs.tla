--------------------------- MODULE BuffersProofs ---------------------------
(***************************************************************************)
(* The memory of Buffers and the sizes of what the calls return, for every *)
(* packet, header and read, and for any set of places that malloc and      *)
(* realloc may return.                                                     *)
(***************************************************************************)
EXTENDS Buffers, Recursion, SequenceTheorems, TLAPS

Names == {"string", "double", "boolean", "object", "BlockEncoder", "build_basic_header",
          "build_message_header", "build_rtmp_header", "reply", "result", "receive"}

Args(name) == CASE name = "string" -> Nat \cup {None}
                [] name \in {"double", "boolean", "reply"} -> Nat
                [] name = "object"       -> Objects
                [] name = "BlockEncoder" -> Packets
                [] name = "result"       -> {0}
                [] name = "receive"      -> Reads
                [] OTHER                 -> Requests

FnType == {f \in [name : Names, arg : UNION {Args(name) : name \in Names}] :
              f.arg \in Args(f.name)}

\* What each function does, and whom it calls.
Appends             == [op : {"append"}, n : Nat]
Checks              == [op : {"check"}, ok : BOOLEAN]
Calling(op, callee) == [op : {op}, f : {f \in FnType : f.name \in callee}]

Steps(name) ==
    CASE name \in {"string", "double"} -> Appends
      [] name = "boolean"      -> Appends \cup {OnStack}
      [] name = "object"       -> Appends \cup Calling("appendOf", {"string", "double", "boolean"})
      [] name = "BlockEncoder" -> Checks \cup Calling("appendOf", {"string", "double", "object"})
      [] name = "build_basic_header"   -> Checks \cup Appends
      [] name = "build_message_header" -> Checks \cup Appends
      [] name = "build_rtmp_header" -> Calling("take", {"build_basic_header"})
                                         \cup Calling("appendOf", {"build_message_header"})
      [] name = "reply"   -> Calling("take", {"build_rtmp_header"}) \cup Appends \cup {Use, Free}
      [] name = "result"  -> Calling("take", {"BlockEncoder"}) \cup {Use}
      [] name = "receive" -> [op : {"read"}, n : Int] \cup Calling("run", {"reply"}) \cup {Use, Free}

BufferType == [ini : Cells \cup {NoCell, Local}, size : Nat]
FrameType  == {fr \in [name : Names, code : Seq(UNION {Steps(name) : name \in Names}),
                       buffer : BufferType] : fr.code \in Seq(Steps(fr.name))}

\* What a function has left to do, and the Buffer it has by then: what gives it
\* memory comes first, one that returns none frees it at the end or, of the
\* result command, sends it, and only a boolean's Buffer is not on the heap.
Ordered(fr) ==
    /\ \A i \in 1 .. Len(fr.code) :
         fr.code[i].op \in {"take", "read", "local"} => i = 1 /\ fr.buffer = NoBuffer
    /\ fr.name \in {"reply", "receive"} /\ fr.code # <<>> => fr.code[Len(fr.code)] = Free
    /\ \A i \in 1 .. Len(fr.code) : fr.code[i].op = "free" => i = Len(fr.code)
    /\ fr.name = "result" => fr.code \in {ResultCommand, <<Use>>, <<>>}
    /\ fr.name = "boolean" => \/ fr.code = encodeBoolean /\ fr.buffer = NoBuffer
                              \/ fr.code = <<Append_(1)>> /\ fr.buffer.ini = Local
    /\ fr.buffer.ini = Local => fr.name = "boolean"

FrameOK(fr) == fr \in FrameType /\ Ordered(fr)

-----------------------------------------------------------------------------
(* The functions begin well.                                               *)

\* A call with an argument its function takes.
LEMMA FnIn ==
    ASSUME NEW name \in Names, NEW arg \in Args(name)
    PROVE  Fn(name, arg) \in FnType /\ Fn(name, arg).name = name /\ Fn(name, arg).arg = arg
  BY DEF Fn, FnType

\* What a list of steps must satisfy for a call of its function to begin in order.
LEMMA Start ==
    ASSUME NEW f \in FnType, Code(f) \in Seq(Steps(f.name)),
           \A i \in 1 .. Len(Code(f)) : Code(f)[i].op \in {"take", "read", "local"} => i = 1,
           \A i \in 1 .. Len(Code(f)) : Code(f)[i].op = "free" => i = Len(Code(f)),
           f.name \in {"reply", "receive"} => Code(f)[Len(Code(f))] = Free,
           f.name = "result" => Code(f) = ResultCommand,
           f.name = "boolean" => Code(f) = encodeBoolean
    PROVE  FrameOK(Frame(f))
<1>1. f.name \in Names
  BY DEF FnType
<1>2. Code(f) \in Seq(UNION {Steps(name) : name \in Names})
  BY <1>1
<1>3. NoBuffer \in BufferType /\ NoBuffer.ini # Local
  BY BuffersAssumption DEF NoBuffer, BufferAt, BufferType
<1> QED
  BY <1>1, <1>2, <1>3 DEF FrameOK, Frame, FrameType, Ordered

LEMMA AppendsOp == ASSUME NEW s \in Seq(Appends), NEW i \in 1 .. Len(s) PROVE s[i].op = "append"
<1>1. s[i] \in Appends
  OBVIOUS
<1> QED BY <1>1 DEF Appends

\* Each function in turn.
LEMMA StartString == ASSUME NEW f \in FnType, f.name = "string" PROVE FrameOK(Frame(f))
<1>1. f.arg \in Nat \cup {None}
  BY DEF FnType, Args
<1>2. Swapped(f.arg) \in Nat
  BY <1>1 DEF Swapped, None
<1>3. Code(f) = encodeString(f.arg) /\ Steps(f.name) = Appends
  BY DEF Code, Steps
<1>4. encodeString(f.arg) \in Seq(Appends)
  BY <1>2 DEF encodeString, Append_, Appends
<1>5. \A i \in 1 .. Len(encodeString(f.arg)) : encodeString(f.arg)[i].op = "append"
  BY <1>4, AppendsOp
<1> QED
  BY <1>3, <1>4, <1>5, Start

LEMMA StartDouble == ASSUME NEW f \in FnType, f.name = "double" PROVE FrameOK(Frame(f))
<1>3. Code(f) = encodeDouble /\ Steps(f.name) = Appends
  BY DEF Code, Steps
<1>4. encodeDouble \in Seq(Appends)
  BY DEF encodeDouble, Append_, Appends
<1>5. \A i \in 1 .. Len(encodeDouble) : encodeDouble[i].op = "append"
  BY <1>4, AppendsOp
<1> QED
  BY <1>3, <1>4, <1>5, Start

LEMMA StartBoolean == ASSUME NEW f \in FnType, f.name = "boolean" PROVE FrameOK(Frame(f))
<1>3. Code(f) = encodeBoolean /\ Steps(f.name) = Appends \cup {OnStack}
  BY DEF Code, Steps
<1>4. encodeBoolean \in Seq(Appends \cup {OnStack})
  BY DEF encodeBoolean, Append_, Appends
<1>5. \A i \in 1 .. Len(encodeBoolean) : encodeBoolean[i].op = "local" => i = 1
  BY DEF encodeBoolean, Append_, OnStack
<1>6. \A i \in 1 .. Len(encodeBoolean) : encodeBoolean[i].op \in {"append", "local"}
  BY DEF encodeBoolean, Append_, OnStack
<1> QED
  BY <1>3, <1>4, <1>5, <1>6, Start

LEMMA StartObject == ASSUME NEW f \in FnType, f.name = "object" PROVE FrameOK(Frame(f))
<1> DEFINE o == f.arg
           S == Appends \cup Calling("appendOf", {"string", "double", "boolean"})
           step(i) == IF i % 2 = 1 THEN AppendOf(Fn("string", o[(i + 1) \div 2].key))
                                   ELSE AppendOf(o[i \div 2].encoder)
           pairs == [i \in 1 .. 2 * Len(o) |-> step(i)]
<1>1. o \in Seq([key : Nat, encoder : Encoders])
  BY DEF FnType, Args, Objects
<1>0. \A j \in 1 .. Len(o) : o[j] \in [key : Nat, encoder : Encoders]
  <2>1. ASSUME NEW T, NEW s \in Seq(T), NEW j \in 1 .. Len(s) PROVE s[j] \in T
    OBVIOUS
  <2> QED BY <1>1, <2>1
<1>2. Code(f) = <<Append_(1)>> \o pairs \o <<Append_(3)>> /\ Steps(f.name) = S
  BY DEF Code, Steps, encodeObject
<1>3. ASSUME NEW i \in 1 .. 2 * Len(o) PROVE step(i) \in S
  <2>1. CASE i % 2 = 1
    <3>1. (i + 1) \div 2 \in 1 .. Len(o)
      BY <1>1, <2>1
    <3>2. o[(i + 1) \div 2].key \in Nat
      BY <1>0, <3>1
    <3>3. Fn("string", o[(i + 1) \div 2].key) \in {g \in FnType : g.name \in {"string", "double", "boolean"}}
      BY <3>2, FnIn DEF Names, Args
    <3> QED BY <2>1, <3>3 DEF AppendOf, Calling
  <2>2. CASE i % 2 # 1
    <3>1. i \div 2 \in 1 .. Len(o)
      BY <1>1, <2>2
    <3>2. o[i \div 2].encoder \in Encoders
      BY <1>0, <3>1
    <3>3. ASSUME NEW e \in Encoders
          PROVE  e \in {g \in FnType : g.name \in {"string", "double", "boolean"}}
      <4>1. e = Fn(e.name, e.arg) /\ e.name \in {"string", "double", "boolean"} /\ e.arg \in Nat
        BY DEF Encoders, Fn
      <4>2. e.name \in Names /\ e.arg \in Args(e.name)
        BY <4>1 DEF Names, Args
      <4> QED BY <4>1, <4>2, FnIn
    <3> QED BY <2>2, <3>2, <3>3 DEF AppendOf, Calling
  <2> QED BY <2>1, <2>2
<1>4. Len(o) \in Nat
  BY <1>1
<1> HIDE DEF o, step
<1>5. pairs \in Seq(S)
  BY <1>3, <1>4
<1>6. <<Append_(1)>> \in Seq(S) /\ <<Append_(3)>> \in Seq(S)
  BY DEF Append_, Appends
<1>7. Code(f) \in Seq(S)
  BY <1>2, <1>5, <1>6
<1>8. \A s \in S : s.op \in {"append", "appendOf"}
  BY DEF Appends, Calling
<1>9. \A i \in 1 .. Len(Code(f)) : Code(f)[i].op \in {"append", "appendOf"}
  BY <1>7, <1>8
<1> QED
  BY <1>2, <1>7, <1>9, Start

LEMMA StartBlockEncoder == ASSUME NEW f \in FnType, f.name = "BlockEncoder" PROVE FrameOK(Frame(f))
<1> DEFINE p == f.arg
           callees == {g \in FnType : g.name \in {"string", "double", "object"}}
           S == Checks \cup Calling("appendOf", {"string", "double", "object"})
           first == <<Check(p.command # None), AppendOf(Fn("string", p.command)),
                      Check(p.transaction_id), AppendOf(Fn("double", 0))>>
           step(k) == AppendOf(Fn("object", p.objects[k]))
           rest == [k \in 1 .. Len(p.objects) |-> step(k)]
<1>1. p \in Packets
  BY DEF FnType, Args
<1>2. Code(f) = first \o rest /\ Steps(f.name) = S
  BY DEF Code, Steps, BlockEncoder
<1>3. p.transaction_id \in BOOLEAN /\ p.objects \in Seq(Objects)
  BY <1>1 DEF Packets
<1>4. rest \in Seq(S)
  <2>1. Len(p.objects) \in Nat /\ \A k \in 1 .. Len(p.objects) : p.objects[k] \in Objects
    BY <1>3
  <2>2. ASSUME NEW k \in 1 .. Len(p.objects) PROVE step(k) \in S
    <3>1. Fn("object", p.objects[k]) \in callees
      BY <2>1, FnIn DEF Names, Args
    <3> QED BY <3>1 DEF AppendOf, Calling
  <2> HIDE DEF step, p
  <2>3. rest \in [1 .. Len(p.objects) -> S]
    BY <2>2
  <2> HIDE DEF rest, S
  <2> QED BY <2>1, <2>3
<1>5. first \in Seq(S)
  <2>1. (p.command # None) \in BOOLEAN
    OBVIOUS
  <2>2. Fn("string", p.command) \in callees /\ Fn("double", 0) \in callees
    BY <1>1, FnIn DEF Packets, Names, Args
  <2>3. AppendOf(Fn("string", p.command)) \in S /\ AppendOf(Fn("double", 0)) \in S
    BY <2>2 DEF AppendOf, Calling
  <2>4. Check(p.command # None) \in S /\ Check(p.transaction_id) \in S
    BY <1>3, <2>1 DEF Check, Checks
  <2> QED BY <2>3, <2>4
<1>6. \A s \in S : s.op \in {"check", "appendOf"}
  BY DEF Checks, Calling
<1> HIDE DEF first, rest, S
<1>7. Code(f) \in Seq(S)
  BY <1>2, <1>4, <1>5
<1>8. \A i \in 1 .. Len(Code(f)) : Code(f)[i].op \in {"check", "appendOf"}
  BY <1>6, <1>7
<1> QED
  BY <1>2, <1>7, <1>8, Start

LEMMA StartBuilders ==
    ASSUME NEW f \in FnType, f.name \in {"build_basic_header", "build_message_header"}
    PROVE  FrameOK(Frame(f))
<1> DEFINE h == f.arg
           S == Checks \cup Appends
<1>1. h \in Requests
  BY DEF FnType, Args
<1>2. h.basic \in Nat /\ h.stream \in BOOLEAN /\ h.timestamp \in BOOLEAN /\ h.message \in BOOLEAN
  BY <1>1 DEF Requests
<1>3. Steps(f.name) = S
  BY DEF Steps
<1>4. \A n \in Nat : Append_(n) \in S
  BY DEF Append_, Appends
<1>5. Check(h.stream) \in S /\ Check(h.timestamp) \in S /\ Check(h.message) \in S
  BY <1>2 DEF Check, Checks
<1>6. \A s \in S : s.op \in {"check", "append"}
  BY DEF Checks, Appends
<1>7. f.name = "build_basic_header" => Code(f) = BasicHeader(h)
  BY DEF Code
<1>8. f.name = "build_message_header" => Code(f) = MessageHeader(h)
  BY DEF Code
<1> HIDE DEF h, S
<1>9. BasicHeader(h) \in Seq(S)
  BY <1>2, <1>4, <1>5 DEF BasicHeader
<1>10. MessageHeader(h) \in Seq(S)
  <2>1. (IF h.type = 0 THEN <<Check(h.timestamp), Append_(3)>> ELSE <<>>) \in Seq(S)
    BY <1>4, <1>5
  <2>2. (IF h.type <= 1 THEN <<Check(h.message), Append_(3), Append_(1)>> ELSE <<>>) \in Seq(S)
    BY <1>4, <1>5
  <2>3. (IF h.type <= 2 THEN <<Append_(4)>> ELSE <<>>) \in Seq(S)
    BY <1>4
  <2> QED BY <2>1, <2>2, <2>3 DEF MessageHeader
<1>11. Code(f) \in Seq(S)
  BY <1>7, <1>8, <1>9, <1>10
<1>12. \A i \in 1 .. Len(Code(f)) : Code(f)[i].op \in {"check", "append"}
  BY <1>6, <1>11
<1> QED
  BY <1>3, <1>11, <1>12, Start

LEMMA StartHeader == ASSUME NEW f \in FnType, f.name = "build_rtmp_header" PROVE FrameOK(Frame(f))
<1> DEFINE h == f.arg
<1>1. h \in Requests
  BY DEF FnType, Args
<1>2. Code(f) = Header(h)
  BY DEF Code
<1>3. Fn("build_basic_header", h) \in {g \in FnType : g.name \in {"build_basic_header"}}
  BY <1>1, FnIn DEF Names, Args
<1>4. Fn("build_message_header", h) \in {g \in FnType : g.name \in {"build_message_header"}}
  BY <1>1, FnIn DEF Names, Args
<1>5. Header(h) \in Seq(Steps(f.name))
  BY <1>3, <1>4 DEF Header, Take, AppendOf, Calling, Steps
<1>6. Len(Header(h)) = 2 /\ Header(h)[1].op = "take" /\ Header(h)[2].op = "appendOf"
  BY DEF Header, Take, AppendOf
<1>7. \A i \in 1 .. 2 : i = 1 \/ i = 2
  OBVIOUS
<1> QED
  BY <1>2, <1>5, <1>6, <1>7, Start

LEMMA StartReply == ASSUME NEW f \in FnType, f.name = "reply" PROVE FrameOK(Frame(f))
<1>1. f.arg \in Nat
  BY DEF FnType, Args
<1>2. Code(f) = Reply(f.arg)
  BY DEF Code
<1>3. Fn("build_rtmp_header", ReplyHeader) \in {g \in FnType : g.name \in {"build_rtmp_header"}}
  <2>1. ReplyHeader \in Requests
    BY DEF ReplyHeader, Requests
  <2> QED BY <2>1, FnIn DEF Names, Args
<1>4. Reply(f.arg) \in Seq(Steps(f.name))
  BY <1>1, <1>3 DEF Reply, Take, Append_, Use, Free, Calling, Appends, Steps
<1>5. /\ Len(Reply(f.arg)) = 4 /\ Reply(f.arg)[4] = Free
      /\ Reply(f.arg)[2].op = "append" /\ Reply(f.arg)[3].op = "use" /\ Reply(f.arg)[4].op = "free"
      /\ Reply(f.arg)[1].op = "take"
  BY DEF Reply, Append_, Use, Free, Take
<1>6. \A i \in 1 .. 4 : i = 1 \/ i = 2 \/ i = 3 \/ i = 4
  OBVIOUS
<1>7. \A i \in 1 .. 4 : /\ Reply(f.arg)[i].op \in {"take", "read", "local"} => i = 1
                       /\ Reply(f.arg)[i].op = "free" => i = 4
  BY <1>5, <1>6
<1> QED
  BY <1>2, <1>4, <1>5, <1>7, Start

LEMMA StartResult == ASSUME NEW f \in FnType, f.name = "result" PROVE FrameOK(Frame(f))
<1>1. Code(f) = ResultCommand
  BY DEF Code
<1>2. ResultPacket \in Packets
  BY DEF ResultPacket, Packets
<1>3. Fn("BlockEncoder", ResultPacket) \in {g \in FnType : g.name \in {"BlockEncoder"}}
  BY <1>2, FnIn DEF Names, Args
<1>4. ResultCommand \in Seq(Steps(f.name)) /\ Len(ResultCommand) = 2
      /\ ResultCommand[1].op = "take" /\ ResultCommand[2].op = "use"
  BY <1>3 DEF ResultCommand, Take, Use, Calling, Steps
<1>5. \A i \in 1 .. 2 : i = 1 \/ i = 2
  OBVIOUS
<1> QED
  BY <1>1, <1>4, <1>5, Start

\* What concatenation is.
LEMMA ConcatIs ==
    ASSUME NEW T, NEW x \in Seq(T), NEW y \in Seq(T)
    PROVE  /\ x \o y \in Seq(T) /\ Len(x \o y) = Len(x) + Len(y)
           /\ \A i \in 1 .. Len(x) + Len(y) : (x \o y)[i] = IF i <= Len(x) THEN x[i] ELSE y[i - Len(x)]
           /\ x \o y = [i \in 1 .. Len(x) + Len(y) |-> (x \o y)[i]]
<1>1. x \o y \in Seq(T) /\ Len(x \o y) = Len(x) + Len(y)
  BY ConcatProperties
<1>2. \A i \in 1 .. Len(x) + Len(y) : (x \o y)[i] = IF i <= Len(x) THEN x[i] ELSE y[i - Len(x)]
  BY ConcatProperties
<1> DEFINE z == x \o y
<1>3. z \in Seq(T) /\ Len(z) = Len(x) + Len(y)
  BY <1>1
<1> HIDE DEF z
<1>4. z = [i \in 1 .. Len(z) |-> z[i]]
  BY ONLY <1>3, z \in Seq(T)
<1> QED BY <1>1, <1>2, <1>3, <1>4 DEF z

\* A sequence with one element before it.
LEMMA PutBefore ==
    ASSUME NEW S, NEW u \in Seq(S), Len(u) = 1, NEW v \in Seq(S)
    PROVE  /\ u \o v \in Seq(S) /\ Len(u \o v) = Len(v) + 1 /\ (u \o v)[1] = u[1]
           /\ \A i \in 1 .. Len(v) : (u \o v)[i + 1] = v[i]
<1> DEFINE w == u \o v
           n == Len(v)
<1>1. n \in Nat /\ Len(u) = 1
  OBVIOUS
<1>2. /\ w \in Seq(S) /\ Len(w) = Len(u) + n
      /\ \A i \in 1 .. Len(u) + n : w[i] = IF i <= Len(u) THEN u[i] ELSE v[i - Len(u)]
  BY ConcatProperties
<1> HIDE DEF w, n
<1>3. ASSUME NEW i \in 1 .. n PROVE w[i + 1] = v[i]
  <2>1. i + 1 \in 1 .. 1 + n /\ ~(i + 1 <= 1) /\ (i + 1) - 1 = i
    BY <1>1
  <2> QED BY <1>1, <1>2, <2>1
<1>4. 1 \in 1 .. 1 + n /\ 1 + n = n + 1 /\ 1 <= 1
  BY <1>1
<1>5. w[1] = u[1]
  BY <1>1, <1>2, <1>4
<1>6. Len(w) = n + 1
  BY <1>1, <1>2
<1> QED BY <1>2, <1>3, <1>5, <1>6 DEF w, n

LEMMA TwoOf == ASSUME NEW a, NEW b PROVE <<a>> \o <<b>> = <<a, b>>
<1>1. << a >> \in Seq({a, b}) /\ <<b>> \in Seq({a, b}) /\ Len(<< a >>) = 1 /\ Len(<<b>>) = 1
  OBVIOUS
<1> DEFINE w == << a >> \o <<b>>
<1>2. /\ w = [i \in 1 .. 1 + 1 |-> w[i]]
      /\ \A i \in 1 .. 1 + 1 : w[i] = IF i <= 1 THEN << a >>[i] ELSE <<b>>[i - 1]
  BY <1>1, ConcatIs
<1> HIDE DEF w
<1>3. w[1] = a /\ w[2] = b
  BY <1>2
<1>4. w = [i \in 1 .. 2 |-> w[i]]
  BY <1>2
<1>5. <<a, b>> = [i \in 1 .. 2 |-> <<a, b>>[i]]
  OBVIOUS
<1>6. \A i \in 1 .. 2 : w[i] = <<a, b>>[i]
  BY <1>3
<1> QED BY <1>4, <1>5, <1>6 DEF w

LEMMA NoneOf == ASSUME NEW b PROVE <<>> \o <<b>> = <<b>>
<1>1. <<>> \in Seq({b}) /\ <<b>> \in Seq({b}) /\ Len(<<>>) = 0 /\ Len(<<b>>) = 1
  OBVIOUS
<1> DEFINE w == <<>> \o <<b>>
<1>2. /\ w = [i \in 1 .. 0 + 1 |-> w[i]]
      /\ \A i \in 1 .. 0 + 1 : w[i] = IF i <= 0 THEN <<>>[i] ELSE <<b>>[i - 0]
  BY <1>1, ConcatIs
<1> HIDE DEF w
<1>3. \A i \in 1 .. 1 : w[i] = b
  BY <1>2
<1>4. <<b>> = [i \in 1 .. 1 |-> b]
  OBVIOUS
<1> QED BY <1>2, <1>3, <1>4 DEF w

LEMMA StartReceive == ASSUME NEW f \in FnType, f.name = "receive" PROVE FrameOK(Frame(f))
<1> DEFINE r == f.arg
           S == [op : {"read"}, n : Int] \cup Calling("run", {"reply"}) \cup {Use, Free}
           T == Calling("run", {"reply"}) \cup {Use}
           runs == [k \in 1 .. 2 * r.chunks |-> IF k % 2 = 1 THEN Use ELSE Run(Fn("reply", 4))]
           first == <<Read(r.size)>>
           last == IF r.size > 0 THEN <<Use, Free>> ELSE <<Free>>
           lastUse == IF r.size > 0 THEN <<Use>> ELSE <<>>
           c == Code(f)
<1>1. r.size \in Int /\ r.chunks \in Nat
  BY DEF FnType, Args, Reads
<1>2. c = first \o runs \o last /\ Steps(f.name) = S
  BY DEF Code, Steps, ReceiveAndProcess
<1>3. Fn("reply", 4) \in {g \in FnType : g.name \in {"reply"}}
  BY FnIn DEF Names, Args
<1>4. Run(Fn("reply", 4)) \in T /\ Use \in T /\ T \subseteq S /\ Free \in S
  BY <1>3 DEF Run, Calling
<1>5. first \in Seq(S) /\ first[1].op = "read" /\ Len(first) = 1
  BY <1>1 DEF Read
<1>6. \A s \in T : s.op \in {"run", "use"}
  BY DEF Calling, Use
<1>7. last = lastUse \o <<Free>>
  <2>1. <<Use>> \o <<Free>> = <<Use, Free>> /\ <<>> \o <<Free>> = <<Free>>
    BY TwoOf, NoneOf
  <2> QED BY <2>1
<1>8. lastUse \in Seq(T)
  <2>1. <<Use>> \in Seq(T) /\ <<>> \in Seq(T)
    BY <1>4
  <2> QED BY <2>1
<1> HIDE DEF r, S, T, first, last, lastUse, c
<1>9. runs \in Seq(T)
  BY <1>1, <1>4
<1> HIDE DEF runs
<1> DEFINE mid == runs \o lastUse
           l == Len(mid)
<1>10. mid \in Seq(T)
  BY <1>8, <1>9
<1>11. l \in Nat /\ \A i \in 1 .. l : mid[i] \in T
  BY <1>10
<1> HIDE DEF T
<1>12. c = (first \o mid) \o <<Free>>
  <2>1. first \in Seq(S \cup T) /\ runs \in Seq(S \cup T) /\ lastUse \in Seq(S \cup T)
    BY <1>5, <1>8, <1>9
  <2> QED BY <1>2, <1>4, <1>7, <2>1
<1> HIDE DEF mid
<1>13. mid \in Seq(S)
  BY <1>4, <1>10
<1>14. c \in Seq(S) /\ Len(c) = l + 2 /\ c[1] = first[1] /\ c[l + 2] = Free
       /\ \A i \in 1 .. l : c[i + 1] = mid[i]
  <2> DEFINE q == first \o mid
  <2>1. q \in Seq(S) /\ Len(q) = l + 1 /\ q[1] = first[1] /\ \A i \in 1 .. l : q[i + 1] = mid[i]
    <3> QED BY <1>5, <1>13, PutBefore DEF l
  <2>2. l \in Nat
    BY <1>11
  <2> HIDE DEF q, l
  <2>3. c = q \o <<Free>>
    BY <1>12 DEF q
  <2>4. c \in Seq(S) /\ Len(c) = l + 2 /\ c[l + 2] = Free /\ \A i \in 1 .. l + 1 : c[i] = q[i]
    BY <1>4, <2>1, <2>2, <2>3
  <2>5. 1 \in 1 .. l + 1 /\ \A i \in 1 .. l : i + 1 \in 1 .. l + 1
    BY <2>2
  <2> QED BY <2>1, <2>4, <2>5
<1> HIDE DEF l
<1>15. ASSUME NEW i \in 1 .. l + 2
       PROVE  /\ c[i].op \in {"take", "read", "local"} => i = 1
              /\ c[i].op = "free" => i = l + 2
  <2>1. CASE i = 1
    BY <1>5, <1>14, <2>1
  <2>2. CASE i = l + 2
    BY <1>14, <2>2 DEF Free
  <2>3. CASE i # 1 /\ i # l + 2
    <3>1. i - 1 \in 1 .. l /\ (i - 1) + 1 = i
      BY <1>11, <2>3
    <3>2. c[i] \in T
      BY <1>11, <1>14, <3>1
    <3> QED BY <1>6, <3>2
  <2> QED BY <2>1, <2>2, <2>3
<1> QED
  BY <1>2, <1>14, <1>15, Start DEF c

\* Every function of the model begins with a Frame that is in order.
LEMMA StartOK == ASSUME NEW f \in FnType PROVE FrameOK(Frame(f))
<1>1. f.name \in Names
  BY DEF FnType
<1> QED
  BY <1>1, StartString, StartDouble, StartBoolean, StartObject, StartBlockEncoder,
     StartBuilders, StartHeader, StartReply, StartResult, StartReceive DEF Names

-----------------------------------------------------------------------------
(* The calls under way.                                                    *)

\* Each call but the innermost is at the step that made the next one.
Chained(fs) ==
    \A k \in 1 .. Len(fs) - 1 :
        /\ fs[k].code # <<>> /\ Head(fs[k].code).op \in {"appendOf", "take", "run"}
        /\ fs[k + 1].name = Head(fs[k].code).f.name

StackOK(fs) ==
    /\ fs \in Seq(FrameType)
    /\ \A k \in 1 .. Len(fs) : FrameOK(fs[k])
    /\ Chained(fs)
    /\ fs # <<>> => fs[1].name \notin {"build_basic_header", "build_message_header"}

\* The calls below the n-th, and one more.
Upto(fs, n, fr) == Append(SubSeq(fs, 1, n - 1), fr)

\* The calls of Upto.
LEMMA UptoIs ==
    ASSUME NEW S, NEW fs \in Seq(S), NEW n \in 1 .. Len(fs) + 1, NEW fr \in S
    PROVE  /\ Upto(fs, n, fr) \in Seq(S)
           /\ Len(Upto(fs, n, fr)) = n
           /\ \A i \in 1 .. n - 1 : Upto(fs, n, fr)[i] = fs[i]
           /\ Upto(fs, n, fr)[n] = fr
<1>1. n - 1 \in 0 .. Len(fs)
  OBVIOUS
<1>2. /\ SubSeq(fs, 1, n - 1) \in Seq(S) /\ Len(SubSeq(fs, 1, n - 1)) = n - 1
      /\ \A i \in 1 .. n - 1 : SubSeq(fs, 1, n - 1)[i] = fs[i]
  BY <1>1
<1> HIDE DEF Upto
<1> QED BY <1>2 DEF Upto

\* The n-th call goes on, or is the one an exception or a result arrives at.
LEMMA StackUpto ==
    ASSUME NEW fs, StackOK(fs), NEW n \in 1 .. Len(fs), NEW fr, FrameOK(fr), fr.name = fs[n].name
    PROVE  StackOK(Upto(fs, n, fr))
<1>1. fs \in Seq(FrameType) /\ fr \in FrameType
  BY DEF StackOK, FrameOK
<1> DEFINE gs == Upto(fs, n, fr)
<1>2. /\ gs \in Seq(FrameType) /\ Len(gs) = n /\ gs[n] = fr
      /\ \A i \in 1 .. n - 1 : gs[i] = fs[i]
  <2>1. n \in 1 .. Len(fs) + 1
    BY <1>1
  <2> QED BY <1>1, <2>1, UptoIs
<1> HIDE DEF gs
<1>3. \A k \in 1 .. n : k = n \/ k \in 1 .. n - 1
  OBVIOUS
<1>4. Len(fs) \in Nat /\ n \in Nat
  BY <1>1
<1>5. \A k \in 1 .. n : FrameOK(gs[k]) /\ gs[k].name = fs[k].name
  BY <1>2, <1>3, <1>4 DEF StackOK
<1>6. \A k \in 1 .. n - 1 : k + 1 \in 1 .. n /\ k \in 1 .. Len(fs) - 1
  BY <1>4
<1>7. Chained(gs)
  BY <1>2, <1>5, <1>6 DEF StackOK, Chained
<1>8. fs # <<>> /\ gs[1].name = fs[1].name
  BY <1>1, <1>4, <1>5
<1> QED
  BY <1>2, <1>5, <1>7, <1>8 DEF StackOK, gs

\* A call is made by the innermost.
LEMMA StackEnter ==
    ASSUME NEW fs, StackOK(fs), fs # <<>>, NEW f \in FnType,
           fs[Len(fs)].code # <<>>, Head(fs[Len(fs)].code).op \in {"appendOf", "take", "run"},
           f = Head(fs[Len(fs)].code).f
    PROVE  StackOK(Append(fs, Frame(f)))
<1> DEFINE gs == Append(fs, Frame(f))
           n == Len(fs)
<1>1. fs \in Seq(FrameType) /\ FrameOK(Frame(f)) /\ Frame(f) \in FrameType /\ Frame(f).name = f.name
  BY StartOK DEF StackOK, FrameOK, Frame
<1>2. /\ gs \in Seq(FrameType) /\ Len(gs) = n + 1 /\ gs[n + 1] = Frame(f)
      /\ \A i \in 1 .. n : gs[i] = fs[i]
  BY <1>1
<1>3. n \in Nat /\ n >= 1
  BY <1>1
<1>4. fs[n].code # <<>> /\ Head(fs[n].code).op \in {"appendOf", "take", "run"} /\ f = Head(fs[n].code).f
  OBVIOUS
<1>5. Len(fs) = n
  OBVIOUS
<1> HIDE DEF gs, n
<1>6. \A k \in 1 .. n + 1 : FrameOK(gs[k])
  BY <1>1, <1>2, <1>3, <1>5 DEF StackOK
<1>7. ASSUME NEW k \in 1 .. n
      PROVE  /\ gs[k].code # <<>> /\ Head(gs[k].code).op \in {"appendOf", "take", "run"}
             /\ gs[k + 1].name = Head(gs[k].code).f.name
  <2>1. CASE k = n
    BY <1>1, <1>2, <1>3, <1>4, <2>1
  <2>2. CASE k # n
    <3>1. k \in 1 .. n - 1 /\ k \in 1 .. n /\ k + 1 \in 1 .. n
      BY <1>3, <2>2
    <3> QED BY <1>2, <1>5, <3>1 DEF StackOK, Chained
  <2> QED BY <2>1, <2>2
<1>8. Chained(gs)
  BY <1>2, <1>3, <1>7 DEF Chained
<1>9. gs[1] = fs[1]
  BY <1>2, <1>3
<1> QED
  BY <1>2, <1>6, <1>8, <1>9 DEF StackOK, gs

-----------------------------------------------------------------------------
(* A call does a thing.                                                    *)

\* The fields of a call.
LEMMA FrameParts ==
    ASSUME NEW fr, FrameOK(fr)
    PROVE  /\ fr \in FrameType /\ fr.name \in Names /\ fr.buffer \in BufferType
           /\ fr.code \in Seq(Steps(fr.name))
           /\ fr.code # <<>> => /\ Head(fr.code) = fr.code[1] /\ Head(fr.code) \in Steps(fr.name)
                                /\ Tail(fr.code) \in Seq(Steps(fr.name))
  BY DEF FrameOK, FrameType

\* A call that is in order is so after its next step.
LEMMA DoneOK ==
    ASSUME NEW fr, FrameOK(fr), fr.code # <<>>, NEW b \in BufferType,
           b.ini = Local => fr.name = "boolean" /\ Head(fr.code).op \in {"local"},
           fr.name = "boolean" => b.ini = Local
    PROVE  /\ FrameOK(Done(fr, b)) /\ Done(fr, b).name = fr.name
           /\ Done(fr, b).buffer = b /\ Done(fr, b).code = Tail(fr.code)
<1>1. /\ fr \in FrameType /\ fr.name \in Names /\ fr.code \in Seq(Steps(fr.name))
      /\ Head(fr.code) = fr.code[1] /\ Tail(fr.code) \in Seq(Steps(fr.name))
  BY FrameParts
<1> DEFINE d == Done(fr, b)
           t == Tail(fr.code)
<1>2. d.name = fr.name /\ d.buffer = b /\ d.code = t
  BY <1>1 DEF Done, FrameType
<1>3. d \in FrameType
  <2>1. t \in Seq(UNION {Steps(name) : name \in Names})
    BY <1>1
  <2> DEFINE C == Seq(UNION {Steps(name) : name \in Names})
  <2>2. fr \in [name : Names, code : C, buffer : BufferType]
    BY <1>1 DEF FrameType
  <2> HIDE DEF C
  <2>3. d \in [name : Names, code : C, buffer : BufferType]
    BY <2>1, <2>2 DEF Done, C
  <2> QED BY <1>1, <1>2, <2>3 DEF FrameType, C
<1>4. /\ Len(t) \in Nat /\ Len(fr.code) = Len(t) + 1
      /\ \A i \in 1 .. Len(t) : t[i] = fr.code[i + 1] /\ i + 1 \in 1 .. Len(fr.code) /\ i + 1 # 1
  BY <1>1
<1>5. \A i \in 1 .. Len(t) : t[i].op \notin {"take", "read", "local"}
  BY <1>4 DEF FrameOK, Ordered
<1>6. /\ fr.name \in {"reply", "receive"} /\ t # <<>> => t[Len(t)] = Free
      /\ \A i \in 1 .. Len(t) : t[i].op = "free" => i = Len(t)
  <2>1. /\ fr.name \in {"reply", "receive"} => fr.code[Len(fr.code)] = Free
        /\ \A i \in 1 .. Len(fr.code) : fr.code[i].op = "free" => i = Len(fr.code)
    BY DEF FrameOK, Ordered
  <2>2. t # <<>> => Len(t) \in 1 .. Len(t)
    BY <1>1
  <2> HIDE DEF t
  <2> QED BY <1>4, <2>1, <2>2
<1>9. fr.name = "result" => t \in {ResultCommand, <<Use>>, <<>>}
  <2>1. fr.name = "result" => fr.code \in {ResultCommand, <<Use>>}
    BY DEF FrameOK, Ordered
  <2>2. Tail(ResultCommand) = <<Use>> /\ Tail(<<Use>>) = <<>>
    BY DEF ResultCommand
  <2> QED BY <2>1, <2>2
<1>7. ASSUME fr.name = "boolean"
      PROVE  t = <<Append_(1)>> /\ b.ini = Local
  <2>1. \/ fr.code = <<OnStack, Append_(1)>> \/ fr.code = <<Append_(1)>>
    BY <1>7 DEF FrameOK, Ordered, encodeBoolean
  <2>2. Head(fr.code).op = "local"
    BY <1>7
  <2>3. fr.code # <<Append_(1)>>
    BY <2>2 DEF Append_
  <2>4. Tail(<<OnStack, Append_(1)>>) = <<Append_(1)>>
    OBVIOUS
  <2> QED BY <1>7, <2>1, <2>3, <2>4
<1>8. b.ini = Local => fr.name = "boolean"
  OBVIOUS
<1> HIDE DEF d, t
<1> QED
  BY <1>2, <1>3, <1>4, <1>5, <1>6, <1>7, <1>8, <1>9 DEF FrameOK, Ordered, d, t

\* The steps by what they do.
LEMMA Ops ==
    /\ \A s \in Appends : s.op = "append" /\ s.n \in Nat
    /\ \A s \in Checks : s.op = "check" /\ s.ok \in BOOLEAN
    /\ OnStack.op = "local" /\ Free.op = "free" /\ Use.op = "use"
    /\ \A op, names : \A s \in Calling(op, names) : s.op = op /\ s.f \in FnType /\ s.f.name \in names
  BY DEF Appends, Checks, OnStack, Free, Use, Calling

\* Who has which things to do.
LEMMA StepsOf ==
    ASSUME NEW fr, FrameOK(fr), fr.code # <<>>, NEW op, op = Head(fr.code).op
    PROVE  /\ op = "append" => Head(fr.code).n \in Nat /\ fr.name # "receive"
           /\ op = "append" /\ fr.name = "boolean" <=> fr.buffer.ini = Local
           /\ op = "local" => fr.name = "boolean"
           /\ op \in {"appendOf", "take", "run"} => Head(fr.code).f \in FnType /\ fr.name # "boolean"
           /\ op \in {"take", "read", "local"} => fr.buffer = NoBuffer
           /\ op = "run" => Head(fr.code).f.name = "reply"
           /\ op \in {"appendOf", "take"} => Head(fr.code).f.name \notin {"reply", "result", "receive"}
           /\ op = "read" => Head(fr.code).n \in Int /\ fr.name = "receive"
           /\ op = "check" => /\ Head(fr.code).ok \in BOOLEAN
                              /\ fr.name \in {"BlockEncoder", "build_basic_header", "build_message_header"}
           /\ op \in {"appendOf", "take", "run"}
              /\ Head(fr.code).f.name \in {"build_basic_header", "build_message_header"}
                => fr.name = "build_rtmp_header"
           /\ op = "free" => Head(fr.code) = Free /\ fr.name \in {"reply", "receive"}
           /\ op = "use" => fr.name \in {"reply", "result", "receive"}
<1> DEFINE s == Head(fr.code)
<1>1. /\ fr.name \in Names /\ fr.code \in Seq(Steps(fr.name)) /\ s = fr.code[1] /\ s \in Steps(fr.name)
  BY FrameParts
<1>2. 1 \in 1 .. Len(fr.code)
  BY <1>1
<1>3. op \in {"take", "read", "local"} => fr.buffer = NoBuffer
  BY <1>1, <1>2 DEF FrameOK, Ordered
<1>5. fr.name = "boolean" => op \in {"append", "local"} /\ (op = "append" <=> fr.buffer.ini = Local)
  <2>1. SUFFICES ASSUME fr.name = "boolean"
                 PROVE  op \in {"append", "local"} /\ (op = "append" <=> fr.buffer.ini = Local)
    OBVIOUS
  <2>2. CASE fr.code = encodeBoolean /\ fr.buffer = NoBuffer
    <3>1. op = "local"
      BY <2>2 DEF encodeBoolean, OnStack
    <3>2. NoBuffer.ini # Local
      BY BuffersAssumption DEF NoBuffer, BufferAt
    <3> QED BY <2>2, <3>1, <3>2
  <2>3. CASE fr.code = <<Append_(1)>> /\ fr.buffer.ini = Local
    BY <2>3 DEF Append_
  <2> QED BY <2>1, <2>2, <2>3 DEF FrameOK, Ordered
<1>6. fr.buffer.ini = Local => fr.name = "boolean"
  BY DEF FrameOK, Ordered
<1> DEFINE builders == {"build_basic_header", "build_message_header"}
<1> HIDE DEF s
<1>7. CASE fr.name \in {"string", "double", "boolean"} \cup builders
  <2>1. s \in Appends \cup Checks \cup {OnStack}
    BY <1>1, <1>7 DEF Steps
  <2>2. fr.name \notin builders => s \in Appends \cup {OnStack}
    BY <1>1, <1>7 DEF Steps
  <2>3. fr.name \in builders => s \in Appends \cup Checks
    BY <1>1, <1>7 DEF Steps
  <2>4. fr.name \in {"string", "double"} => s \in Appends
    BY <1>1, <1>7 DEF Steps
  <2> QED BY <1>3, <1>5, <1>6, <1>7, <2>1, <2>2, <2>3, <2>4, Ops DEF s
<1>8. CASE fr.name \in {"object", "BlockEncoder"}
  <2>1. /\ fr.name = "object" => s \in Appends \cup Calling("appendOf", {"string", "double", "boolean"})
        /\ fr.name = "BlockEncoder" => s \in Checks \cup Calling("appendOf", {"string", "double", "object"})
    BY <1>1, <1>8 DEF Steps
  <2> QED BY <1>3, <1>6, <1>8, <2>1, Ops DEF s
<1>9. CASE fr.name \in {"build_rtmp_header", "reply", "result"}
  <2>1. /\ fr.name = "build_rtmp_header" => s \in Calling("take", {"build_basic_header"})
                                               \cup Calling("appendOf", {"build_message_header"})
        /\ fr.name = "reply" => s \in Calling("take", {"build_rtmp_header"}) \cup Appends \cup {Use, Free}
        /\ fr.name = "result" => s \in Calling("take", {"BlockEncoder"}) \cup {Use}
    BY <1>1, <1>9 DEF Steps
  <2> QED BY <1>3, <1>6, <1>9, <2>1, Ops DEF s
<1>10. CASE fr.name = "receive"
  <2>1. s \in [op : {"read"}, n : Int] \cup Calling("run", {"reply"}) \cup {Use, Free}
    BY <1>1, <1>10 DEF Steps
  <2>2. \A x \in [op : {"read"}, n : Int] : x.op = "read" /\ x.n \in Int
    OBVIOUS
  <2> QED BY <1>3, <1>6, <1>10, <2>1, <2>2, Ops DEF s
<1> QED
  BY <1>1, <1>7, <1>8, <1>9, <1>10 DEF Names

-----------------------------------------------------------------------------
(* The memory of the calls under way.                                      *)

\* The Buffer a call needs.
Has(fr) == IF Needs(fr) THEN fr.buffer ELSE NoBuffer

Own(h, fs) ==
    /\ \A k \in 1 .. Len(fs) : Has(fs[k]).ini \in Cells =>
         Has(fs[k]).ini \in DOMAIN h /\ h[Has(fs[k]).ini] = Has(fs[k]).size
    /\ \A j, k \in 1 .. Len(fs) :
         j # k /\ Has(fs[j]).ini \in Cells => Has(fs[j]).ini # Has(fs[k]).ini

CellsOf(fs) == {Has(fs[k]).ini : k \in 1 .. Len(fs)} \cap Cells

\* The n-th call gets another Buffer: the memory of those below is left alone,
\* and the new memory is nobody's.
LEMMA OwnUpto ==
    ASSUME NEW fs, StackOK(fs), NEW n \in 1 .. Len(fs), NEW fr, FrameOK(fr), NEW h, NEW g,
           Own(h, fs),
           \A i \in 1 .. n - 1 : Has(fs[i]).ini \in Cells =>
             /\ Has(fs[i]).ini \in DOMAIN g
             /\ g[Has(fs[i]).ini] = h[Has(fs[i]).ini]
             /\ Has(fs[i]).ini # Has(fr).ini,
           Has(fr).ini \in Cells =>
             Has(fr).ini \in DOMAIN g /\ g[Has(fr).ini] = Has(fr).size
    PROVE  /\ Own(g, Upto(fs, n, fr))
           /\ CellsOf(Upto(fs, n, fr)) =
                ({Has(fs[k]).ini : k \in 1 .. n - 1} \cup {Has(fr).ini}) \cap Cells
<1> DEFINE gs == Upto(fs, n, fr)
<1>1. fs \in Seq(FrameType) /\ fr \in FrameType
  BY DEF StackOK, FrameOK
<1>2. /\ gs \in Seq(FrameType) /\ Len(gs) = n /\ gs[n] = fr
      /\ \A i \in 1 .. n - 1 : gs[i] = fs[i]
  <2>1. n \in 1 .. Len(fs) + 1
    BY <1>1
  <2> QED BY <1>1, <2>1, UptoIs
<1>3. n \in Nat /\ Len(fs) \in Nat
  BY <1>1
<1>4. /\ \A k \in 1 .. n : k = n \/ k \in 1 .. n - 1
      /\ \A k \in 1 .. n - 1 : k \in 1 .. Len(fs) /\ k \in 1 .. n
      /\ n \in 1 .. n
  BY <1>3
<1> HIDE DEF gs
<1>5. \A k \in 1 .. n : Has(gs[k]).ini \in Cells =>
         Has(gs[k]).ini \in DOMAIN g /\ g[Has(gs[k]).ini] = Has(gs[k]).size
  BY <1>2, <1>4 DEF Own
<1>6. ASSUME NEW j \in 1 .. n, NEW k \in 1 .. n, j # k, Has(gs[j]).ini \in Cells
      PROVE  Has(gs[j]).ini # Has(gs[k]).ini
  <2>1. CASE j = n
    BY <1>2, <1>4, <1>6, <2>1
  <2>2. CASE k = n
    BY <1>2, <1>4, <1>6, <2>2
  <2>3. CASE j # n /\ k # n
    <3>1. gs[j] = fs[j] /\ gs[k] = fs[k] /\ j \in 1 .. Len(fs) /\ k \in 1 .. Len(fs)
      BY <1>2, <1>4, <2>3
    <3> QED BY <1>6, <3>1 DEF Own
  <2> QED BY <2>1, <2>2, <2>3
<1>7. {Has(gs[k]).ini : k \in 1 .. n} =
        {Has(fs[k]).ini : k \in 1 .. n - 1} \cup {Has(fr).ini}
  BY <1>2, <1>4
<1> QED
  BY <1>2, <1>5, <1>6, <1>7 DEF Own, CellsOf, gs

\* What is in use, seen from the n-th call.
LEMMA CellsSplit ==
    ASSUME NEW fs, StackOK(fs), NEW n \in 1 .. Len(fs)
    PROVE  CellsOf(fs) = ({Has(fs[k]).ini : k \in 1 .. n - 1}
                            \cup {Has(fs[k]).ini : k \in n .. Len(fs)}) \cap Cells
<1>1. Len(fs) \in Nat
  BY DEF StackOK
<1>2. \A k \in 1 .. Len(fs) : k \in 1 .. n - 1 \/ k \in n .. Len(fs)
  BY <1>1
<1>3. /\ \A k \in 1 .. n - 1 : k \in 1 .. Len(fs)
      /\ \A k \in n .. Len(fs) : k \in 1 .. Len(fs)
  BY <1>1
<1> QED
  BY <1>2, <1>3 DEF CellsOf

-----------------------------------------------------------------------------
(* The invariant.                                                          *)

HeapOK == \A c \in DOMAIN heap : c \in Cells /\ heap[c] \in Nat

Inv ==
    /\ HeapOK
    /\ status \in {"running", "done", "thrown", "crashed"}
    /\ refused \in BOOLEAN
    /\ StackOK(frames)
    /\ Own(heap, frames)
    /\ status # "done" => result = NoBuffer
    /\ status = "done" => frames = <<>>
    /\ result \in BufferType /\ result.ini # Local
    /\ result.ini \in Cells => result.ini \in DOMAIN heap /\ heap[result.ini] = result.size
    /\ ~refused => DOMAIN heap = CellsOf(frames) \cup ({result.ini} \cap Cells)

\* Buffer() points nowhere.
LEMMA NoBufferOK == NoBuffer \in BufferType /\ NoBuffer.ini \notin Cells /\ NoBuffer.ini = NoCell
                      /\ NoBuffer.ini # Local /\ NoBuffer.size = 0
  BY BuffersAssumption DEF NoBuffer, BufferAt, BufferType

\* What a call needs is its Buffer or none.
LEMMA HasType ==
    ASSUME NEW fr, FrameOK(fr)
    PROVE  Has(fr) \in BufferType /\ (Has(fr) = fr.buffer \/ Has(fr) = NoBuffer)
  BY FrameParts, NoBufferOK DEF Has

\* A call that has something left to do needs its Buffer for it.
LEMMA HasTop ==
    ASSUME NEW fr, FrameOK(fr), fr.code # <<>>
    PROVE  Has(fr) = fr.buffer
<1>1. fr.code \in Seq(Steps(fr.name)) /\ fr.name \in Names
  BY FrameParts
<1>2. Len(fr.code) \in DOMAIN fr.code
  BY <1>1
<1>3. ~Returns(fr.name) => fr.code[Len(fr.code)] \in {Use, Free}
  <2>1. CASE fr.name \in {"reply", "receive"}
    BY <2>1 DEF FrameOK, Ordered
  <2>2. CASE fr.name = "result"
    BY <2>2 DEF FrameOK, Ordered, ResultCommand
  <2> QED BY <2>1, <2>2 DEF Returns
<1>4. Needs(fr)
  BY <1>2, <1>3, Ops DEF Needs
<1> QED BY <1>4 DEF Has

\* At its end only one that returns its Buffer does.
LEMMA HasLast ==
    ASSUME NEW fr, fr.code = <<>>
    PROVE  Has(fr) = IF Returns(fr.name) THEN fr.buffer ELSE NoBuffer
<1>1. DOMAIN fr.code = {}
  OBVIOUS
<1> QED BY <1>1 DEF Has, Needs

\* So it does after a step that neither uses nor frees it.
LEMMA HasDone ==
    ASSUME NEW fr, FrameOK(fr), fr.code # <<>>, NEW d, FrameOK(d), d.name = fr.name,
           d.code = Tail(fr.code), Head(fr.code).op \notin {"use", "free"}
    PROVE  Has(d) = d.buffer
<1>1. CASE d.code # <<>>
  BY <1>1, HasTop
<1>2. CASE d.code = <<>>
  <2>1. fr.code \in Seq(Steps(fr.name)) /\ Head(fr.code) = fr.code[1] /\ fr.name \in Names
    BY FrameParts
  <2>2. Len(fr.code) = 1
    <3>1. Len(Tail(fr.code)) = Len(fr.code) - 1 /\ Len(fr.code) \in Nat
      BY <2>1
    <3>2. Len(Tail(fr.code)) = 0
      <4>1. Len(<<>>) = 0
        OBVIOUS
      <4> QED BY <1>2, <4>1
    <3> QED BY <3>1, <3>2
  <2>3. fr.code[1] \notin {Use, Free}
    BY <2>1, Ops
  <2>4. Returns(fr.name)
    <3>1. fr.name \notin {"reply", "receive"}
      BY <2>2, <2>3 DEF FrameOK, Ordered
    <3>2. fr.name # "result"
      <4>1. Len(ResultCommand) = 2 /\ <<Use>>[1] = Use
        BY DEF ResultCommand
      <4>2. fr.name = "result" => fr.code \in {ResultCommand, <<Use>>}
        BY DEF FrameOK, Ordered
      <4> QED BY <2>2, <2>3, <4>1, <4>2
    <3> QED BY <3>1, <3>2 DEF Returns
  <2> QED BY <1>2, <2>4, HasLast
<1> QED BY <1>1, <1>2

\* The outermost calls are calls of functions, and of none that only a header makes.
LEMMA CallsOK == \A f \in Calls : f \in FnType /\ f.name \notin {"build_basic_header", "build_message_header"}
<1> SUFFICES ASSUME NEW f \in Calls
             PROVE  f \in FnType /\ f.name \notin {"build_basic_header", "build_message_header"}
  OBVIOUS
<1>1. f = Fn(f.name, f.arg)
  BY BuffersAssumption
<1>2. /\ f.name \in {"BlockEncoder", "build_rtmp_header", "reply", "result", "receive"}
      /\ f.name = "BlockEncoder" => f.arg \in Packets
      /\ f.name = "build_rtmp_header" => f.arg \in Requests
      /\ f.name = "reply" => f.arg \in Nat
      /\ f.name = "result" => f.arg = 0
      /\ f.name = "receive" => f.arg \in Reads
  BY BuffersAssumption
<1>3. f.name \in Names /\ f.arg \in Args(f.name)
  BY <1>2 DEF Names, Args
<1> QED
  BY <1>1, <1>2, <1>3, FnIn

\* It holds at the beginning.
LEMMA InvInit == Init => Inv
<1> SUFFICES ASSUME Init PROVE Inv
  OBVIOUS
<1>1. call \in FnType /\ FrameOK(Frame(call)) /\ Frame(call) \in FrameType /\ Frame(call).name = call.name
  BY CallsOK, StartOK DEF Init, FrameOK, Frame
<1>2. frames = <<Frame(call)>> /\ Len(frames) = 1 /\ frames[1] = Frame(call) /\ Has(frames[1]) = NoBuffer
  BY DEF Init, Frame, Has
<1>3. StackOK(frames)
  <2>1. frames \in Seq(FrameType)
    BY <1>1, <1>2
  <2>2. call.name \notin {"build_basic_header", "build_message_header"}
    BY CallsOK DEF Init
  <2> QED BY <1>1, <1>2, <2>1, <2>2 DEF StackOK, Chained
<1>4. Own(heap, frames) /\ CellsOf(frames) = {}
  BY <1>2, NoBufferOK DEF Own, CellsOf
<1>5. DOMAIN heap = {} /\ HeapOK
  BY DEF Init, HeapOK
<1> QED
  BY <1>3, <1>4, <1>5, NoBufferOK DEF Init, Inv

-----------------------------------------------------------------------------
(* Steps.                                                                  *)

\* The innermost call.
LEMMA TopIs ==
    ASSUME Inv, frames # <<>>
    PROVE  /\ Len(frames) \in 1 .. Len(frames) /\ Top = frames[Len(frames)] /\ FrameOK(Top)
           /\ \A fr : Append(Callers, fr) = Upto(frames, Len(frames), fr)
<1>1. frames \in Seq(FrameType)
  BY DEF Inv, StackOK
<1>2. Len(frames) \in 1 .. Len(frames)
  BY <1>1
<1> QED
  BY <1>2 DEF Inv, StackOK, Top, Callers, Upto

\* A step that leaves the calls below the n-th.
LEMMA InvUpto ==
    ASSUME Inv, status = "running", NEW n \in 1 .. Len(frames), NEW fr, FrameOK(fr),
           fr.name = frames[n].name, frames' = Upto(frames, n, fr), UNCHANGED <<status, result>>,
           HeapOK', refused' \in BOOLEAN,
           \A i \in 1 .. n - 1 : Has(frames[i]).ini \in Cells =>
             /\ Has(frames[i]).ini \in DOMAIN heap'
             /\ heap'[Has(frames[i]).ini] = heap[Has(frames[i]).ini]
             /\ Has(frames[i]).ini # Has(fr).ini,
           Has(fr).ini \in Cells =>
             Has(fr).ini \in DOMAIN heap' /\ heap'[Has(fr).ini] = Has(fr).size,
           ~refused' => DOMAIN heap' =
             ({Has(frames[k]).ini : k \in 1 .. n - 1} \cup {Has(fr).ini}) \cap Cells
    PROVE  Inv'
<1>1. StackOK(frames')
  BY StackUpto DEF Inv
<1>2. /\ Own(heap', frames')
      /\ CellsOf(frames') = ({Has(frames[k]).ini : k \in 1 .. n - 1} \cup {Has(fr).ini}) \cap Cells
  <2>1. Own(heap, frames) /\ StackOK(frames)
    BY DEF Inv
  <2> DEFINE g == heap'
             gs == Upto(frames, n, fr)
  <2>2. /\ \A i \in 1 .. n - 1 : Has(frames[i]).ini \in Cells =>
             /\ Has(frames[i]).ini \in DOMAIN g
             /\ g[Has(frames[i]).ini] = heap[Has(frames[i]).ini]
             /\ Has(frames[i]).ini # Has(fr).ini
        /\ Has(fr).ini \in Cells => Has(fr).ini \in DOMAIN g /\ g[Has(fr).ini] = Has(fr).size
    OBVIOUS
  <2>3. frames' = gs
    OBVIOUS
  <2> HIDE DEF g
  <2>4. /\ Own(g, gs)
        /\ CellsOf(gs) = ({Has(frames[k]).ini : k \in 1 .. n - 1} \cup {Has(fr).ini}) \cap Cells
    BY <2>1, <2>2, OwnUpto
  <2> HIDE DEF gs
  <2>5. Own(g, frames') /\ CellsOf(frames') = CellsOf(gs)
    BY <2>3, <2>4
  <2> QED BY <2>4, <2>5 DEF g
<1>3. result' = NoBuffer /\ status' = "running"
  BY DEF Inv
<1>4. {result'.ini} \cap Cells = {}
  BY <1>3, NoBufferOK
<1>5. ~refused' => DOMAIN heap' = CellsOf(frames') \cup ({result'.ini} \cap Cells)
  BY <1>2, <1>4
<1>6. /\ result' \in BufferType /\ result'.ini # Local
      /\ result'.ini \in Cells => result'.ini \in DOMAIN heap' /\ heap'[result'.ini] = result'.size
  BY <1>3, NoBufferOK
<1> QED
  BY <1>1, <1>2, <1>3, <1>5, <1>6 DEF Inv

Above(n) == {Has(frames[k]).ini : k \in n + 1 .. Len(frames)}

Regrown(n, cell, m) ==
    /\ DOMAIN heap' = ((DOMAIN heap \ {Has(frames[n]).ini}) \cup {cell}) \ Above(n)
    /\ \A c \in DOMAIN heap' : heap'[c] = IF c = cell THEN Has(frames[n]).size + m ELSE heap[c]

\* The n-th call has its memory grown, and those above it are gone.
LEMMA InvGrow ==
    ASSUME Inv, status = "running", NEW n \in 1 .. Len(frames), NEW fr, FrameOK(fr),
           fr.name = frames[n].name, frames' = Upto(frames, n, fr),
           UNCHANGED <<status, result, refused>>,
           Has(frames[n]).ini # Local, NEW cell \in Reallocs(Has(frames[n])), NEW m \in Nat,
           Has(fr) = Grown(Has(frames[n]), cell, m),
           Regrown(n, cell, m)
    PROVE  Inv'
<1> DEFINE b == Has(frames[n])
           gone == Above(n)
           below == {Has(frames[k]).ini : k \in 1 .. n - 1}
<1>0. /\ DOMAIN heap' = ((DOMAIN heap \ {b.ini}) \cup {cell}) \ gone
      /\ \A c \in DOMAIN heap' : heap'[c] = IF c = cell THEN b.size + m ELSE heap[c]
  BY DEF Regrown
<1>1. /\ frames \in Seq(FrameType) /\ Len(frames) \in Nat /\ n \in Nat
      /\ b \in BufferType /\ b.ini \in Cells \cup {NoCell} /\ b.size \in Nat
  BY HasType DEF Inv, StackOK, BufferType
<1>2. Has(fr).ini = cell /\ Has(fr).size = b.size + m
  BY DEF Grown, BufferAt
<1>3. cell \in Cells /\ (cell \in DOMAIN heap => cell = b.ini)
  BY <1>1 DEF Reallocs
<1>4. /\ \A i \in 1 .. n - 1 : i \in 1 .. Len(frames) /\ i # n
      /\ \A i \in n + 1 .. Len(frames) : i \in 1 .. Len(frames) /\ i # n
      /\ \A i \in 1 .. n - 1 : \A k \in n + 1 .. Len(frames) : i # k
  BY <1>1
<1>5. Own(heap, frames)
  BY DEF Inv
<1>6. ASSUME NEW i \in 1 .. Len(frames), i # n, Has(frames[i]).ini \in Cells
      PROVE  Has(frames[i]).ini \in DOMAIN heap /\ Has(frames[i]).ini # b.ini
             /\ Has(frames[i]).ini # cell
  BY <1>3, <1>5, <1>6 DEF Own
<1>7. cell \notin gone
  BY <1>3, <1>4, <1>6 DEF Above
<1>8. ASSUME NEW i \in 1 .. n - 1, Has(frames[i]).ini \in Cells
      PROVE  /\ Has(frames[i]).ini \in DOMAIN heap'
             /\ heap'[Has(frames[i]).ini] = heap[Has(frames[i]).ini]
             /\ Has(frames[i]).ini # cell
  <2>1. Has(frames[i]).ini \notin gone
    BY <1>4, <1>5, <1>8 DEF Own, Above
  <2> QED BY <1>0, <1>4, <1>6, <1>8, <2>1
<1>9. cell \in DOMAIN heap' /\ heap'[cell] = b.size + m
  BY <1>0, <1>7
<1>10. HeapOK'
  BY <1>0, <1>1, <1>3 DEF Inv, HeapOK
<1>11. ASSUME ~refused
       PROVE  DOMAIN heap' = (below \cup {cell}) \cap Cells
  <2>1. DOMAIN heap = CellsOf(frames)
    BY <1>11, NoBufferOK DEF Inv
  <2>2. \A k \in n .. Len(frames) : k = n \/ k \in n + 1 .. Len(frames)
    BY <1>1
  <2>3. \A k \in n + 1 .. Len(frames) : k \in n .. Len(frames)
    BY <1>1
  <2>4. n \in n .. Len(frames)
    BY <1>1
  <2>5. {Has(frames[k]).ini : k \in n .. Len(frames)} = {b.ini} \cup gone
    BY <2>2, <2>3, <2>4 DEF Above
  <2>6. DOMAIN heap = (below \cup {b.ini} \cup gone) \cap Cells
    BY <2>1, <2>5, CellsSplit DEF Inv
  <2>7. \A c \in below : c \in Cells => c # b.ini /\ c \notin gone
    BY <1>4, <1>5, <1>6 DEF Own, Above
  <2> HIDE DEF below
  <2> QED BY <1>0, <1>3, <1>7, <2>6, <2>7
<1> QED
  BY <1>2, <1>8, <1>9, <1>10, <1>11, InvUpto DEF Inv

\* The Buffers of the n-th call and those above it become the one of the n-th.
LEMMA InvSame ==
    ASSUME Inv, status = "running", NEW n \in 1 .. Len(frames), NEW fr, FrameOK(fr),
           fr.name = frames[n].name, frames' = Upto(frames, n, fr),
           UNCHANGED <<heap, status, result, refused>>,
           Has(fr).ini \in Cells => \E k \in n .. Len(frames) : Has(frames[k]) = Has(fr),
           \A k \in n .. Len(frames) : Has(frames[k]).ini \in Cells => Has(frames[k]).ini = Has(fr).ini
    PROVE  Inv'
<1> DEFINE below == {Has(frames[k]).ini : k \in 1 .. n - 1}
           above == {Has(frames[k]).ini : k \in n .. Len(frames)}
<1>1. Len(frames) \in Nat /\ n \in Nat
  BY DEF Inv, StackOK
<1>2. /\ \A i \in 1 .. n - 1 : i \in 1 .. Len(frames)
      /\ \A k \in n .. Len(frames) : k \in 1 .. Len(frames)
      /\ \A i \in 1 .. n - 1 : \A k \in n .. Len(frames) : i # k
  BY <1>1
<1>3. Own(heap, frames)
  BY DEF Inv
<1>4. Has(fr).ini \in Cells =>
        Has(fr).ini \in DOMAIN heap /\ heap[Has(fr).ini] = Has(fr).size
  BY <1>2, <1>3 DEF Own
<1>5. ASSUME NEW i \in 1 .. n - 1, Has(frames[i]).ini \in Cells
      PROVE  Has(frames[i]).ini \in DOMAIN heap /\ Has(frames[i]).ini # Has(fr).ini
  <2>1. Has(frames[i]).ini \in DOMAIN heap
    BY <1>2, <1>3, <1>5 DEF Own
  <2>2. CASE Has(fr).ini \in Cells
    <3>1. PICK k \in n .. Len(frames) : Has(frames[k]) = Has(fr)
      BY <2>2
    <3> QED BY <1>2, <1>3, <1>5, <2>1, <3>1 DEF Own
  <2>3. CASE Has(fr).ini \notin Cells
    BY <1>5, <2>1, <2>3
  <2> QED BY <2>2, <2>3
<1>6. above \cap Cells = {Has(fr).ini} \cap Cells
  OBVIOUS
<1>7. ASSUME ~refused
      PROVE  DOMAIN heap = (below \cup {Has(fr).ini}) \cap Cells
  <2>1. DOMAIN heap = CellsOf(frames)
    BY <1>7, NoBufferOK DEF Inv
  <2>2. DOMAIN heap = (below \cup above) \cap Cells
    BY <2>1, CellsSplit DEF Inv
  <2> HIDE DEF below, above
  <2> QED BY <1>6, <2>2
<1>8. HeapOK' /\ refused' \in BOOLEAN
  BY DEF Inv, HeapOK
<1> QED
  BY <1>4, <1>5, <1>7, <1>8, InvUpto

\* The innermost call frees what it has.
LEMMA InvFree ==
    ASSUME Inv, status = "running", frames # <<>>, NEW fr, FrameOK(fr), fr.name = Top.name,
           frames' = Upto(frames, Len(frames), fr), Has(fr) = NoBuffer,
           heap' = Without(Has(Top).ini),
           UNCHANGED <<status, result>>, refused' \in BOOLEAN, ~refused' => ~refused
    PROVE  Inv'
<1> DEFINE n == Len(frames)
           below == {Has(frames[k]).ini : k \in 1 .. n - 1}
           b == Has(Top)
<1>1. n \in 1 .. n /\ n \in Nat /\ b = Has(frames[n]) /\ Top = frames[n]
  BY TopIs DEF Inv, StackOK
<1>2. DOMAIN heap' = DOMAIN heap \ {b.ini} /\ \A c \in DOMAIN heap' : heap'[c] = heap[c]
  BY DEF Without
<1>3. HeapOK'
  BY <1>2 DEF Inv, HeapOK
<1>4. Own(heap, frames)
  BY DEF Inv
<1>5. \A i \in 1 .. n - 1 : i \in 1 .. n /\ i # n
  BY <1>1
<1>6. ASSUME NEW i \in 1 .. n - 1, Has(frames[i]).ini \in Cells
      PROVE  /\ Has(frames[i]).ini \in DOMAIN heap'
             /\ heap'[Has(frames[i]).ini] = heap[Has(frames[i]).ini]
             /\ Has(frames[i]).ini # Has(fr).ini
             /\ Has(frames[i]).ini # b.ini
  <2>1. Has(frames[i]).ini # b.ini /\ Has(frames[i]).ini \in DOMAIN heap
    BY <1>1, <1>4, <1>5, <1>6 DEF Own
  <2> QED BY <1>2, <1>6, <2>1, NoBufferOK
<1>7. ASSUME ~refused'
      PROVE  DOMAIN heap' = (below \cup {Has(fr).ini}) \cap Cells
  <2>1. DOMAIN heap = CellsOf(frames)
    BY <1>7, NoBufferOK DEF Inv
  <2>2. n .. n = {n}
    BY <1>1
  <2>3. {Has(frames[k]).ini : k \in n .. n} = {b.ini}
    BY <1>1, <2>2
  <2>4. DOMAIN heap = (below \cup {b.ini}) \cap Cells
    BY <1>1, <2>1, <2>3, CellsSplit DEF Inv
  <2>5. \A c \in below : c \in Cells => c # b.ini
    BY <1>6
  <2> HIDE DEF below, b
  <2> QED BY <1>2, <2>4, <2>5, NoBufferOK
<1>8. Has(fr).ini \notin Cells
  BY NoBufferOK
<1> HIDE DEF b
<1> QED
  BY <1>1, <1>3, <1>6, <1>7, <1>8, InvUpto

\* It survives each action.
LEMMA StepAppendBytes == Inv /\ AppendBytes => Inv'
<1> SUFFICES ASSUME Inv, AppendBytes PROVE Inv'
  OBVIOUS
<1> DEFINE n == Len(frames)
           b == Top.buffer
           m == Head(Top.code).n
<1>1. PICK cell \in Reallocs(b) :
        /\ heap' = Moved(b, cell, m)
        /\ frames' = Append(Callers, Done(Top, Grown(b, cell, m)))
  BY DEF AppendBytes
<1>2. frames # <<>> /\ status = "running" /\ Top.code # <<>> /\ Head(Top.code).op = "append" /\ b.ini # Local
  BY DEF AppendBytes, At
<1>3. n \in 1 .. n /\ n \in Nat /\ Top = frames[n] /\ FrameOK(Top) /\ frames' = Upto(frames, n, Done(Top, Grown(b, cell, m)))
  BY <1>1, <1>2, TopIs DEF Inv, StackOK
<1>4. m \in Nat /\ Top.name # "boolean"
  BY <1>2, <1>3, StepsOf
<1>5. Grown(b, cell, m) \in BufferType /\ Grown(b, cell, m).ini # Local
  <2>1. b \in BufferType
    BY <1>3, FrameParts
  <2>2. cell \in Cells
    BY <1>2, <2>1 DEF Reallocs, BufferType
  <2> QED BY <1>4, <2>1, <2>2, BuffersAssumption DEF Grown, BufferAt, BufferType
<1> DEFINE fr == Done(Top, Grown(b, cell, m))
<1>6. FrameOK(fr) /\ fr.name = Top.name /\ Has(fr) = Grown(b, cell, m)
  <2>1. FrameOK(fr) /\ fr.name = Top.name /\ fr.buffer = Grown(b, cell, m) /\ fr.code = Tail(Top.code)
    BY <1>2, <1>3, <1>4, <1>5, DoneOK
  <2> HIDE DEF fr, b, m
  <2> QED BY <1>2, <1>3, <2>1, HasDone
<1>12. Has(Top) = b
  BY <1>2, <1>3, HasTop
<1>7. Above(n) = {}
  BY <1>3 DEF Above
<1>8. /\ DOMAIN heap' = (DOMAIN heap \ {b.ini}) \cup {cell}
      /\ \A c \in DOMAIN heap' : heap'[c] = IF c = cell THEN b.size + m ELSE heap[c]
  BY <1>1 DEF Moved, Without
<1>9. UNCHANGED <<status, result, refused>>
  BY DEF AppendBytes
<1>10. Regrown(n, cell, m)
  BY <1>3, <1>7, <1>8, <1>12 DEF Regrown
<1>11. /\ fr.name = frames[n].name /\ frames' = Upto(frames, n, fr)
       /\ Has(frames[n]).ini # Local /\ cell \in Reallocs(Has(frames[n]))
       /\ Has(fr) = Grown(Has(frames[n]), cell, m)
  BY <1>2, <1>3, <1>6, <1>12
<1> HIDE DEF fr, m
<1> QED
  BY <1>2, <1>3, <1>4, <1>6, <1>9, <1>10, <1>11, InvGrow

LEMMA StepMakeLocal == Inv /\ MakeLocal => Inv'
<1> SUFFICES ASSUME Inv, MakeLocal PROVE Inv'
  OBVIOUS
<1> DEFINE n == Len(frames)
           fr == Done(Top, BufferAt(Local, 1))
<1>1. frames # <<>> /\ status = "running" /\ Top.code # <<>> /\ Head(Top.code).op = "local"
  BY DEF MakeLocal, At
<1>2. n \in 1 .. n /\ n \in Nat /\ Top = frames[n] /\ FrameOK(Top) /\ frames' = Upto(frames, n, fr)
  BY <1>1, TopIs DEF Inv, StackOK, MakeLocal
<1>3. Top.name = "boolean" /\ Top.buffer = NoBuffer
  BY <1>1, <1>2, StepsOf
<1>4. BufferAt(Local, 1) \in BufferType /\ BufferAt(Local, 1).ini = Local
  BY DEF BufferAt, BufferType
<1>5. FrameOK(fr) /\ fr.name = Top.name /\ fr.buffer = BufferAt(Local, 1)
  BY <1>1, <1>2, <1>3, <1>4, DoneOK
<1>6. \A k \in n .. n : k = n
  BY <1>2
<1>7. Has(fr).ini \notin Cells /\ \A k \in n .. n : Has(frames[k]).ini \notin Cells
  <2> HIDE DEF fr
  <2>1. Has(fr) \in {fr.buffer, NoBuffer} /\ Has(Top) = NoBuffer
    BY <1>2, <1>3, <1>5, HasType
  <2> QED BY <1>2, <1>4, <1>5, <1>6, <2>1, NoBufferOK, BuffersAssumption
<1>8. UNCHANGED <<heap, status, result, refused>>
  BY DEF MakeLocal
<1> HIDE DEF fr
<1> QED
  BY <1>1, <1>2, <1>5, <1>7, <1>8, InvSame

LEMMA StepEnter == Inv /\ Enter => Inv'
<1> SUFFICES ASSUME Inv, Enter PROVE Inv'
  OBVIOUS
<1> DEFINE n == Len(frames)
           f == Head(Top.code).f
<1>1. frames # <<>> /\ status = "running" /\ Top.code # <<>> /\ Head(Top.code).op \in {"appendOf", "take", "run"}
  BY DEF Enter, At
<1>2. n \in 1 .. n /\ n \in Nat /\ Top = frames[n] /\ FrameOK(Top)
  BY <1>1, TopIs DEF Inv, StackOK
<1>3. f \in FnType
  BY <1>1, <1>2, StepsOf
<1>4. frames' = Append(frames, Frame(f)) /\ UNCHANGED <<heap, status, result, refused>>
  BY DEF Enter
<1>5. StackOK(frames')
  BY <1>1, <1>2, <1>3, <1>4, StackEnter DEF Inv
<1>6. /\ frames \in Seq(FrameType) /\ Frame(f) \in FrameType /\ Has(Frame(f)) = NoBuffer
  BY <1>3, StartOK DEF Inv, StackOK, FrameOK, Frame, Has
<1>7. /\ Len(frames') = n + 1 /\ Has(frames'[n + 1]) = NoBuffer
      /\ \A i \in 1 .. n : frames'[i] = frames[i]
  BY <1>4, <1>6
<1>8. \A k \in 1 .. n + 1 : k = n + 1 \/ k \in 1 .. n
  BY <1>2
<1>9. \A k \in 1 .. n : k \in 1 .. n + 1
  BY <1>2
<1>10. Own(heap', frames')
  BY <1>4, <1>7, <1>8, NoBufferOK DEF Inv, Own
<1>11. CellsOf(frames') = CellsOf(frames)
  BY <1>7, <1>8, <1>9, NoBufferOK DEF CellsOf
<1> QED
  BY <1>1, <1>4, <1>5, <1>10, <1>11 DEF Inv, HeapOK

LEMMA StepFreeBuffer == Inv /\ FreeBuffer => Inv'
<1> SUFFICES ASSUME Inv, FreeBuffer PROVE Inv'
  OBVIOUS
<1> DEFINE fr == Done(Top, Top.buffer)
<1>1. frames # <<>> /\ status = "running" /\ Top.code # <<>> /\ Head(Top.code).op = "free"
  BY DEF FreeBuffer, At
<1>2. FrameOK(Top) /\ frames' = Upto(frames, Len(frames), fr)
  BY <1>1, TopIs DEF FreeBuffer
<1>3. Top.name \in {"reply", "receive"} /\ Top.buffer \in BufferType /\ Top.buffer.ini # Local
  BY <1>1, <1>2, StepsOf, FrameParts DEF FrameOK, Ordered
<1>4. FrameOK(fr) /\ fr.name = Top.name /\ fr.code = Tail(Top.code)
  BY <1>1, <1>2, <1>3, DoneOK
<1>5. heap' = Without(Has(Top).ini) /\ UNCHANGED <<status, result, refused>> /\ refused \in BOOLEAN
  BY <1>1, <1>2, HasTop DEF FreeBuffer, Inv
<1> HIDE DEF fr
<1>6. Has(fr) = NoBuffer
  <2>1. Top.code \in Seq(Steps(Top.name)) /\ Head(Top.code) = Top.code[1]
    BY <1>1, <1>2, FrameParts
  <2>2. 1 = Len(Top.code)
    <3>1. 1 \in 1 .. Len(Top.code)
      BY <1>1, <2>1
    <3> QED BY <1>1, <1>2, <2>1, <3>1 DEF FrameOK, Ordered
  <2>3. fr.code = <<>>
    <3>1. ASSUME NEW S, NEW q \in Seq(S), q # <<>>, Len(q) = 1 PROVE Tail(q) = <<>>
      <4>1. Tail(q) \in Seq(S) /\ Len(Tail(q)) = 0
        BY <3>1
      <4>2. ASSUME NEW u \in Seq(S), Len(u) = 0 PROVE u = <<>>
        BY <4>2
      <4> QED BY <4>1, <4>2
    <3> QED BY <1>1, <1>4, <2>1, <2>2, <3>1
  <2> QED BY <1>3, <1>4, <2>3, HasLast DEF Returns
<1> QED
  BY <1>1, <1>2, <1>4, <1>5, <1>6, InvFree

\* The innermost call goes on with the Buffer it has.
LEMMA InvGoOn ==
    ASSUME Inv, status = "running", frames # <<>>, Top.code # <<>>,
           NEW b \in BufferType, b = Top.buffer,
           Top.name # "boolean", Head(Top.code).op # "free",
           Head(Top.code).op = "use" /\ Top.name = "result" => b = NoBuffer,
           frames' = Append(Callers, Done(Top, b)), UNCHANGED <<heap, status, result, refused>>
    PROVE  Inv'
<1> DEFINE n == Len(frames)
           fr == Done(Top, b)
<1>1. n \in 1 .. n /\ n \in Nat /\ Top = frames[n] /\ FrameOK(Top) /\ frames' = Upto(frames, n, fr)
  BY TopIs DEF Inv, StackOK
<1>2. Top.buffer.ini # Local
  BY <1>1 DEF FrameOK, Ordered
<1>3. FrameOK(fr) /\ fr.name = Top.name /\ fr.buffer = b /\ fr.code = Tail(Top.code)
  BY <1>1, <1>2, DoneOK
<1>4. \A k \in n .. n : k = n
  BY <1>1
<1>5. n \in n .. n
  BY <1>1
<1> HIDE DEF fr
<1>6. Has(Top) = b
  BY <1>1, HasTop
<1>7. Has(fr) = b
  <2>1. CASE Head(Top.code).op # "use"
    BY <1>1, <1>3, <2>1, HasDone
  <2>2. CASE Head(Top.code).op = "use" /\ Top.name = "result"
    BY <1>3, <2>2, HasType
  <2>3. CASE Head(Top.code).op = "use" /\ Top.name # "result"
    <3>1. Top.name \in {"reply", "receive"}
      BY <1>1, <2>3, StepsOf
    <3>2. Top.code \in Seq(Steps(Top.name)) /\ Head(Top.code) = Top.code[1]
      BY <1>1, FrameParts
    <3>3. Top.code[Len(Top.code)] = Free
      BY <1>1, <3>1 DEF FrameOK, Ordered
    <3>4. Len(Top.code) # 1
      BY <2>3, <3>2, <3>3, Ops
    <3>5. fr.code # <<>>
      <4>1. Len(Tail(Top.code)) = Len(Top.code) - 1 /\ Len(Top.code) \in Nat
        BY <3>2
      <4>2. Len(Tail(Top.code)) # 0 /\ Len(<<>>) = 0
        BY <3>4, <4>1
      <4> QED BY <1>3, <4>2
    <3> QED BY <1>3, <3>5, HasTop
  <2> QED BY <2>1, <2>2, <2>3
<1> QED
  BY <1>1, <1>3, <1>4, <1>5, <1>6, <1>7, InvSame

LEMMA StepCheckPasses == Inv /\ CheckPasses => Inv'
<1> SUFFICES ASSUME Inv, CheckPasses PROVE Inv'
  OBVIOUS
<1>1. frames # <<>> /\ status = "running" /\ Top.code # <<>> /\ Head(Top.code).op = "check"
  BY DEF CheckPasses, At
<1>2. FrameOK(Top)
  BY <1>1, TopIs
<1>3. Top.name # "boolean" /\ Top.buffer \in BufferType
  BY <1>1, <1>2, StepsOf, FrameParts
<1> QED
  BY <1>1, <1>3, InvGoOn DEF CheckPasses

\* The result command has no memory.
ResultNull(fs) == \A k \in 1 .. Len(fs) : fs[k].name = "result" => fs[k].buffer = NoBuffer

LEMMA StepUseBuffer == Inv /\ ResultNull(frames) /\ UseBuffer => Inv'
<1> SUFFICES ASSUME Inv, ResultNull(frames), UseBuffer PROVE Inv'
  OBVIOUS
<1>1. frames # <<>> /\ status = "running" /\ Top.code # <<>> /\ Head(Top.code).op = "use"
  BY DEF UseBuffer, At
<1>2. FrameOK(Top) /\ Len(frames) \in 1 .. Len(frames) /\ Top = frames[Len(frames)]
  BY <1>1, TopIs
<1>3. Top.name \in {"reply", "result", "receive"} /\ Top.buffer \in BufferType
  BY <1>1, <1>2, StepsOf, FrameParts
<1>4. Top.name = "result" => Top.buffer = NoBuffer
  BY <1>2 DEF ResultNull
<1> QED
  BY <1>1, <1>3, <1>4, InvGoOn DEF UseBuffer

LEMMA StepReceive == Inv /\ Receive => Inv'
<1> SUFFICES ASSUME Inv, Receive PROVE Inv'
  OBVIOUS
<1> DEFINE n == Len(frames)
           m == Head(Top.code).n
<1>1. frames # <<>> /\ status = "running" /\ Top.code # <<>> /\ Head(Top.code).op = "read"
  BY DEF Receive, At
<1>2. n \in 1 .. n /\ n \in Nat /\ Top = frames[n] /\ FrameOK(Top)
      /\ \A fr : Append(Callers, fr) = Upto(frames, n, fr)
  BY <1>1, TopIs DEF Inv, StackOK
<1>3. Top.name = "receive" /\ Top.buffer = NoBuffer /\ m \in Int /\ m >= 0
  BY <1>1, <1>2, StepsOf DEF Receive
<1>4. UNCHANGED <<status, result, refused>>
  BY DEF Receive
<1>5. CASE m = 0
  <2>1. heap' = heap /\ frames' = Append(Callers, Done(Top, NoBuffer))
    BY <1>5 DEF Receive
  <2> QED BY <1>1, <1>3, <1>4, <2>1, NoBufferOK, InvGoOn
<1>6. CASE m # 0
  <2>1. PICK cell \in Cells \ DOMAIN heap :
          heap' = Moved(NoBuffer, cell, m) /\ frames' = Append(Callers, Done(Top, BufferAt(cell, m)))
    BY <1>6 DEF Receive
  <2> DEFINE b == BufferAt(cell, m)
             fr == Done(Top, b)
  <2>2. m \in Nat
    BY <1>3
  <2>3. b \in BufferType /\ b.ini # Local /\ b.ini = cell /\ b = Grown(NoBuffer, cell, m)
    BY <2>1, <2>2, NoBufferOK, BuffersAssumption DEF BufferAt, BufferType, Grown
  <2>4. FrameOK(fr) /\ fr.name = Top.name /\ Has(fr) = b
    <3>1. FrameOK(fr) /\ fr.name = Top.name /\ fr.buffer = b /\ fr.code = Tail(Top.code)
      BY <1>1, <1>2, <1>3, <2>3, DoneOK
    <3> HIDE DEF fr, b
    <3> QED BY <1>1, <1>2, <3>1, HasDone
  <2>9. Has(frames[n]) = NoBuffer
    BY <1>1, <1>2, <1>3, HasTop
  <2>5. cell \in Reallocs(Has(frames[n]))
    BY <1>2, <2>1, <2>9 DEF Reallocs
  <2>6. Above(n) = {}
    BY <1>2 DEF Above
  <2>7. Regrown(n, cell, m)
    BY <1>2, <2>1, <2>6, <2>9, NoBufferOK DEF Regrown, Moved, Without
  <2>8. /\ fr.name = frames[n].name /\ frames' = Upto(frames, n, fr)
        /\ Has(frames[n]).ini # Local /\ Has(fr) = Grown(Has(frames[n]), cell, m)
    BY <1>2, <2>1, <2>3, <2>4, <2>9, NoBufferOK
  <2> HIDE DEF fr, m, b
  <2> QED BY <1>1, <1>2, <1>4, <2>2, <2>4, <2>5, <2>7, <2>8, InvGrow
<1> QED
  BY <1>5, <1>6

LEMMA StepCrash == Inv /\ (AppendToLocal \/ ReceiveFails) => Inv'
<1> SUFFICES ASSUME Inv, AppendToLocal \/ ReceiveFails PROVE Inv'
  OBVIOUS
<1>1. status = "running" /\ status' = "crashed" /\ UNCHANGED <<heap, frames, result, refused>>
  BY DEF AppendToLocal, ReceiveFails, At, Crash
<1> QED
  BY <1>1 DEF Inv, HeapOK

LEMMA StepReturnLast == Inv /\ ReturnLast => Inv'
<1> SUFFICES ASSUME Inv, ReturnLast PROVE Inv'
  OBVIOUS
<1>1. /\ status = "running" /\ frames # <<>> /\ Top.code = <<>> /\ Len(frames) = 1
      /\ result' = Has(Top) /\ frames' = <<>> /\ status' = "done" /\ UNCHANGED <<heap, refused>>
  BY HasLast DEF ReturnLast, AtReturn
<1>2. Top = frames[1] /\ FrameOK(Top)
  BY <1>1, TopIs
<1>3. Has(Top) \in BufferType /\ Has(Top).ini # Local
  <2>1. Top.code # encodeBoolean /\ Top.code # <<Append_(1)>>
    BY <1>1 DEF encodeBoolean
  <2>2. Top.buffer.ini # Local
    BY <1>2, <2>1 DEF FrameOK, Ordered
  <2> QED BY <1>2, <2>2, HasType, NoBufferOK
<1>4. StackOK(<<>>) /\ Own(heap, <<>>) /\ CellsOf(<<>>) = {}
  BY DEF StackOK, Chained, Own, CellsOf
<1>5. CellsOf(frames) = {Has(Top).ini} \cap Cells
  BY <1>1, <1>2 DEF CellsOf
<1>6. ~refused => DOMAIN heap = CellsOf(frames)
  BY <1>1, NoBufferOK DEF Inv
<1>7. Has(Top).ini \in Cells => Has(Top).ini \in DOMAIN heap /\ heap[Has(Top).ini] = Has(Top).size
  BY <1>1, <1>2 DEF Inv, Own
<1>8. HeapOK' /\ refused' \in BOOLEAN
  BY <1>1 DEF Inv, HeapOK
<1> QED
  BY <1>1, <1>3, <1>4, <1>5, <1>6, <1>7, <1>8 DEF Inv

\* The call below the innermost.
LEMMA CallerIs ==
    ASSUME Inv, frames # <<>>, Len(frames) > 1, NEW n, n = Len(frames) - 1
    PROVE  /\ n \in 1 .. Len(frames) /\ n \in Nat /\ n + 1 = Len(frames)
           /\ n .. Len(frames) = {n, n + 1} /\ n + 1 .. Len(frames) = {n + 1}
           /\ FrameOK(frames[n]) /\ frames[n].code # <<>>
           /\ Head(frames[n].code).op \in {"appendOf", "take", "run"}
           /\ Top = frames[n + 1] /\ FrameOK(Top) /\ Top.name = Head(frames[n].code).f.name
           /\ \A fr : Append(SubSeq(frames, 1, Len(frames) - 2), fr) = Upto(frames, n, fr)
<1>1. frames \in Seq(FrameType) /\ Len(frames) \in Nat /\ StackOK(frames)
  BY DEF Inv, StackOK
<1>2. n \in 1 .. Len(frames) /\ n \in 1 .. Len(frames) - 1 /\ n + 1 = Len(frames) /\ n \in Nat /\ Len(frames) - 2 = n - 1
  BY <1>1
<1>3. n .. Len(frames) = {n, n + 1} /\ n + 1 .. Len(frames) = {n + 1}
  BY <1>2
<1>4. Top = frames[n + 1] /\ FrameOK(Top)
  BY <1>2, TopIs
<1>5. FrameOK(frames[n])
  BY <1>1, <1>2 DEF StackOK
<1>6. /\ frames[n].code # <<>> /\ Head(frames[n].code).op \in {"appendOf", "take", "run"}
      /\ frames[n + 1].name = Head(frames[n].code).f.name
  BY <1>1, <1>2 DEF StackOK, Chained
<1>7. \A fr : Append(SubSeq(frames, 1, Len(frames) - 2), fr) = Upto(frames, n, fr)
  BY <1>2 DEF Upto
<1> QED
  BY <1>2, <1>3, <1>4, <1>5, <1>6, <1>7

LEMMA StepReturn == Inv /\ Return => Inv'
<1> SUFFICES ASSUME Inv, Return PROVE Inv'
  OBVIOUS
<1> DEFINE n == Len(frames) - 1
           caller == frames[n]
           got == Top.buffer
           op == Head(caller.code).op
<1>1. status = "running" /\ frames # <<>> /\ Top.code = <<>> /\ Len(frames) > 1
      /\ UNCHANGED <<status, result, refused>>
  BY DEF Return, AtReturn
<1>2. /\ n \in 1 .. Len(frames) /\ n \in Nat /\ n + 1 = Len(frames)
      /\ n .. Len(frames) = {n, n + 1} /\ n + 1 .. Len(frames) = {n + 1}
      /\ FrameOK(caller) /\ caller.code # <<>> /\ op \in {"appendOf", "take", "run"}
      /\ Top = frames[n + 1] /\ FrameOK(Top) /\ Top.name = Head(caller.code).f.name
      /\ \A fr : Append(SubSeq(frames, 1, Len(frames) - 2), fr) = Upto(frames, n, fr)
  BY <1>1, CallerIs
<1>3. got \in BufferType /\ got.ini # Local
  <2>1. Top.code # encodeBoolean /\ Top.code # <<Append_(1)>>
    BY <1>1 DEF encodeBoolean
  <2> QED BY <1>2, <2>1, FrameParts DEF FrameOK, Ordered
<1>4. caller.buffer \in BufferType /\ caller.name # "boolean"
  BY <1>2, FrameParts, StepsOf
<1>5. caller.buffer.ini # Local
  BY <1>2, <1>4 DEF FrameOK, Ordered
<1>6. op = "take" => caller.buffer = NoBuffer
  BY <1>2, StepsOf
<1>7. IF op = "run" THEN Has(Top) = NoBuffer ELSE Has(Top) = got
  <2>1. op = "run" <=> Top.name \in {"reply", "result", "receive"}
    BY <1>2, StepsOf
  <2> QED BY <1>1, <2>1, HasLast DEF Returns
<1>12. Has(caller) = caller.buffer
  BY <1>2, HasTop
<1>8. ASSUME NEW b \in BufferType, b.ini # Local
      PROVE  FrameOK(Done(caller, b)) /\ Done(caller, b).name = caller.name /\ Has(Done(caller, b)) = b
  <2> DEFINE d == Done(caller, b)
  <2>1. FrameOK(d) /\ d.name = caller.name /\ d.buffer = b /\ d.code = Tail(caller.code)
    BY <1>2, <1>4, <1>8, DoneOK
  <2> HIDE DEF d
  <2>2. Has(d) = b
    BY <1>2, <2>1, HasDone
  <2> QED BY <2>1, <2>2 DEF d
<1>9. CASE op = "take"
  <2> DEFINE fr == Done(caller, got)
  <2>1. frames' = Upto(frames, n, fr) /\ heap' = heap
    BY <1>2, <1>9 DEF Return
  <2>2. FrameOK(fr) /\ fr.name = caller.name /\ Has(fr) = got
    BY <1>3, <1>8
  <2>3. \A k \in n .. Len(frames) : k = n \/ k = n + 1
    BY <1>2
  <2>4. n + 1 \in n .. Len(frames) /\ Has(frames[n + 1]) = Has(fr)
    BY <1>2, <1>7, <1>9, <2>2
  <2>5. \A k \in n .. Len(frames) : Has(frames[k]).ini \in Cells => Has(frames[k]).ini = Has(fr).ini
    BY <1>2, <1>6, <1>7, <1>9, <1>12, <2>2, <2>3, NoBufferOK
  <2> HIDE DEF fr
  <2> QED BY <1>1, <1>2, <2>1, <2>2, <2>4, <2>5, InvSame
<1>10. CASE op # "take" /\ (op = "run" \/ got.ini = NoCell)
  <2> DEFINE fr == Done(caller, caller.buffer)
  <2>1. frames' = Upto(frames, n, fr) /\ heap' = heap
    BY <1>2, <1>10 DEF Return
  <2>2. FrameOK(fr) /\ fr.name = caller.name /\ Has(fr) = caller.buffer
    BY <1>4, <1>5, <1>8
  <2>3. \A k \in n .. Len(frames) : k = n \/ k = n + 1
    BY <1>2
  <2>4. n \in n .. Len(frames) /\ Has(frames[n]) = Has(fr)
    BY <1>2, <1>12, <2>2
  <2>5. Has(frames[n + 1]).ini \notin Cells
    BY <1>2, <1>7, <1>10, NoBufferOK
  <2>6. \A k \in n .. Len(frames) : Has(frames[k]).ini \in Cells => Has(frames[k]).ini = Has(fr).ini
    BY <1>2, <1>12, <2>2, <2>3, <2>5
  <2> HIDE DEF fr
  <2> QED BY <1>1, <1>2, <2>1, <2>2, <2>4, <2>6, InvSame
<1>11. CASE op # "take" /\ op # "run" /\ got.ini # NoCell
  <2>1. PICK cell \in Reallocs(caller.buffer) :
          /\ frames' = Upto(frames, n, Done(caller, Grown(caller.buffer, cell, got.size)))
          /\ heap' = [c \in DOMAIN Moved(caller.buffer, cell, got.size) \ {got.ini} |->
                        Moved(caller.buffer, cell, got.size)[c]]
    BY <1>2, <1>11 DEF Return
  <2> DEFINE b == Grown(caller.buffer, cell, got.size)
             fr == Done(caller, b)
  <2>2. got.size \in Nat
    BY <1>3 DEF BufferType
  <2>3. b \in BufferType /\ b.ini # Local
    <3>1. cell \in Cells
      BY <1>4, <1>5 DEF Reallocs, BufferType
    <3> QED BY <1>4, <2>2, <3>1, BuffersAssumption DEF Grown, BufferAt, BufferType
  <2>4. FrameOK(fr) /\ fr.name = caller.name /\ Has(fr) = b
    BY <1>8, <2>3
  <2>5. Above(n) = {got.ini}
    BY <1>2, <1>7, <1>11 DEF Above
  <2>6. Regrown(n, cell, got.size)
    BY <1>12, <2>1, <2>5 DEF Regrown, Moved, Without
  <2>7. /\ fr.name = frames[n].name /\ frames' = Upto(frames, n, fr)
        /\ Has(frames[n]).ini # Local /\ Has(fr) = Grown(Has(frames[n]), cell, got.size)
        /\ cell \in Reallocs(Has(frames[n]))
    BY <1>5, <1>12, <2>1, <2>4
  <2> HIDE DEF fr, b, got
  <2> QED BY <1>1, <1>2, <2>2, <2>4, <2>6, <2>7, InvGrow
<1> QED
  BY <1>9, <1>10, <1>11

\* An exception ends the call that throws it, or the header it is part of.
LEMMA Catching ==
    ASSUME Inv, status = "running", frames # <<>>, Top.code # <<>>, Head(Top.code).op = "check",
           NEW k \in Catchers, \A j \in Catchers : j <= k
    PROVE  /\ k \in 1 .. Len(frames)
           /\ frames[k].name = "BlockEncoder" => k = Len(frames)
           /\ frames[k].name = "build_rtmp_header" => k + 1 = Len(frames)
           /\ frames[k].name \in {"BlockEncoder", "build_rtmp_header"}
           /\ frames[k].name = "BlockEncoder" <=> Catch(frames[k].name) = "free"
<1> DEFINE n == Len(frames)
<1>1. n \in 1 .. n /\ n \in Nat /\ Top = frames[n] /\ FrameOK(Top) /\ frames \in Seq(FrameType)
  BY TopIs DEF Inv, StackOK
<1>2. k \in 1 .. n /\ Catch(frames[k].name) # "none"
  BY <1>1 DEF Catchers
<1>3. FrameOK(frames[k])
  BY <1>2 DEF Inv, StackOK
<1>4. frames[k].name \in {"BlockEncoder", "build_rtmp_header"}
  BY <1>2 DEF Catch
<1>5. frames[k].name = "BlockEncoder" <=> Catch(frames[k].name) = "free"
  BY <1>4 DEF Catch
<1>6. Top.name \in {"BlockEncoder", "build_basic_header", "build_message_header"}
  BY <1>1, StepsOf
<1>7. CASE Top.name = "BlockEncoder"
  <2>1. n \in Catchers
    BY <1>1, <1>7 DEF Catchers, Catch
  <2>2. k = n
    BY <1>1, <1>2, <2>1
  <2>3. frames[k].name # "build_rtmp_header"
    BY <1>1, <1>7, <2>2
  <2> HIDE DEF n
  <2> QED BY <1>2, <1>4, <1>5, <2>2, <2>3 DEF n
<1>8. CASE Top.name \in {"build_basic_header", "build_message_header"}
  <2>1. n # 1
    BY <1>1, <1>8 DEF Inv, StackOK
  <2>2. n > 1
    <3>1. n \in Nat /\ n >= 1
      BY <1>1
    <3> HIDE DEF n
    <3> QED BY <2>1, <3>1
  <2> DEFINE m == n - 1
  <2>3. /\ m \in 1 .. n /\ m + 1 = n /\ FrameOK(frames[m]) /\ frames[m].code # <<>>
        /\ Head(frames[m].code).op \in {"appendOf", "take", "run"}
        /\ Top.name = Head(frames[m].code).f.name
    BY <2>2, CallerIs
  <2>4. frames[m].name = "build_rtmp_header"
    BY <1>8, <2>3, StepsOf
  <2>5. m \in Catchers
    BY <1>1, <2>3, <2>4 DEF Catchers, Catch
  <2>6. k # n
    BY <1>1, <1>4, <1>8
  <2>7. k = m
    BY <1>1, <1>2, <2>3, <2>5, <2>6
  <2> QED BY <1>2, <1>4, <1>5, <2>4, <2>7
<1> QED
  BY <1>6, <1>7, <1>8

\* The call an exception arrives at returns no Buffer.
LEMMA CaughtOK ==
    ASSUME NEW old, FrameOK(old), old.name \in {"BlockEncoder", "build_rtmp_header"}
    PROVE  LET fr == [old EXCEPT !.code = <<>>, !.buffer = NoBuffer]
           IN  FrameOK(fr) /\ fr.name = old.name /\ fr.code = <<>> /\ fr.buffer = NoBuffer
<1> DEFINE fr == [old EXCEPT !.code = <<>>, !.buffer = NoBuffer]
           C == Seq(UNION {Steps(name) : name \in Names})
<1>1. <<>> \in Seq(Steps(old.name)) /\ <<>> \in C
  OBVIOUS
<1>2. old \in [name : Names, code : C, buffer : BufferType]
  BY DEF FrameOK, FrameType
<1> HIDE DEF C
<1>3. /\ fr \in [name : Names, code : C, buffer : BufferType]
      /\ fr.name = old.name /\ fr.code = <<>> /\ fr.buffer = NoBuffer
  BY <1>1, <1>2, NoBufferOK
<1> HIDE DEF fr
<1>4. fr \in FrameType
  BY <1>1, <1>3 DEF FrameType, C
<1>5. Ordered(fr)
  BY <1>3, NoBufferOK DEF Ordered
<1>6. FrameOK(fr)
  BY <1>4, <1>5 DEF FrameOK
<1> QED BY <1>3, <1>6 DEF fr

LEMMA StepCheckThrows == Inv /\ CheckThrows => Inv'
<1> SUFFICES ASSUME Inv, CheckThrows PROVE Inv'
  OBVIOUS
<1>1. frames # <<>> /\ status = "running" /\ Top.code # <<>> /\ Head(Top.code).op = "check"
      /\ result' = result
  BY DEF CheckThrows, At
<1>2. CASE Catchers = {}
  <2>1. frames' = <<>> /\ status' = "thrown" /\ heap' = heap /\ refused' = TRUE
    BY <1>2 DEF CheckThrows
  <2>2. StackOK(<<>>) /\ Own(heap, <<>>)
    BY DEF StackOK, Chained, Own
  <2> QED BY <1>1, <2>1, <2>2 DEF Inv, HeapOK
<1>3. CASE Catchers # {}
  <2>1. PICK k \in Catchers :
          /\ \A j \in Catchers : j <= k
          /\ frames' = Append(SubSeq(frames, 1, k - 1),
                              [frames[k] EXCEPT !.code = <<>>, !.buffer = NoBuffer])
          /\ heap' = IF Catch(frames[k].name) = "free" THEN Without(frames[k].buffer.ini) ELSE heap
          /\ refused' = (refused \/ frames[k].name = "build_rtmp_header")
          /\ status' = status
    BY <1>3 DEF CheckThrows
  <2> DEFINE fr == [frames[k] EXCEPT !.code = <<>>, !.buffer = NoBuffer]
  <2>2. /\ k \in 1 .. Len(frames)
        /\ frames[k].name = "BlockEncoder" => k = Len(frames)
        /\ frames[k].name \in {"BlockEncoder", "build_rtmp_header"}
        /\ frames[k].name = "BlockEncoder" <=> Catch(frames[k].name) = "free"
    BY <1>1, <2>1, Catching
  <2>3. frames' = Upto(frames, k, fr)
    BY <2>1 DEF Upto
  <2>4. FrameOK(frames[k])
    BY <2>2 DEF Inv, StackOK
  <2>5. frames[k].name \in Names
    BY <2>4, FrameParts
  <2>6. FrameOK(fr) /\ fr.name = frames[k].name /\ fr.buffer = NoBuffer
    BY <2>2, <2>4, CaughtOK
  <2>10. Has(fr) = NoBuffer
    <3> HIDE DEF fr
    <3> QED BY <2>6, HasType
  <2>7. refused' \in BOOLEAN
    BY <2>1 DEF Inv
  <2> HIDE DEF fr
  <2>8. CASE frames[k].name = "BlockEncoder"
    <3>1. k = Len(frames) /\ Top = frames[k] /\ heap' = Without(Has(Top).ini) /\ (~refused' => ~refused)
      BY <1>1, <2>1, <2>2, <2>4, <2>8, TopIs, HasTop
    <3> QED BY <1>1, <2>1, <2>3, <2>6, <2>7, <2>10, <3>1, InvFree
  <2>9. CASE frames[k].name = "build_rtmp_header"
    <3>1. heap' = heap /\ refused'
      BY <2>1, <2>2, <2>9
    <3>2. HeapOK'
      BY <3>1 DEF Inv, HeapOK
    <3>3. \A i \in 1 .. k - 1 : i \in 1 .. Len(frames)
      BY <2>2 DEF Inv, StackOK
    <3>4. \A i \in 1 .. k - 1 : Has(frames[i]).ini \in Cells =>
             Has(frames[i]).ini \in DOMAIN heap /\ Has(frames[i]).ini # Has(fr).ini
      BY <2>10, <3>3, NoBufferOK DEF Inv, Own
    <3>5. Has(fr).ini \notin Cells
      BY <2>10, NoBufferOK
    <3> QED BY <1>1, <2>1, <2>2, <2>3, <2>6, <2>7, <3>1, <3>2, <3>4, <3>5, InvUpto
  <2> QED BY <2>2, <2>8, <2>9
<1> QED
  BY <1>2, <1>3

-----------------------------------------------------------------------------
(* The result command, whose packet has no command: the encoder returns     *)
(* null, so that nothing has to be freed.                                    *)

EncoderOfResult(fr) ==
    /\ fr.buffer = NoBuffer
    /\ fr.code \in {<<>>, BlockEncoder(ResultPacket)}
    /\ fr.name = "BlockEncoder"

ResultOK(fs) ==
    \A k \in 1 .. Len(fs) : fs[k].name = "result" =>
        /\ fs[k].buffer = NoBuffer
        /\ k + 1 \in 1 .. Len(fs) => EncoderOfResult(fs[k + 1])

\* The encoder finds no command.
LEMMA EncoderFails ==
    ASSUME NEW fr, EncoderOfResult(fr), fr.code # <<>>
    PROVE  Head(fr.code).op = "check" /\ ~Head(fr.code).ok
<1> DEFINE rest == <<AppendOf(Fn("string", None)), Check(TRUE), AppendOf(Fn("double", 0))>>
<1>1. ResultPacket.command = None /\ ResultPacket.objects = <<>> /\ ResultPacket.transaction_id = TRUE
  BY DEF ResultPacket
<1>2. fr.code = BlockEncoder(ResultPacket)
  BY DEF EncoderOfResult
<1>3. ASSUME NEW a, NEW b, NEW c, NEW d, NEW f(_)
      PROVE  Head(<<a, b, c, d>> \o [k \in 1 .. 0 |-> f(k)]) = a
  OBVIOUS
<1>4. Len(ResultPacket.objects) = 0
  BY <1>1
<1>6. Check(ResultPacket.command # None).op = "check" /\ Check(ResultPacket.command # None).ok = FALSE
  BY <1>1 DEF Check
<1>5. Head(fr.code) = Check(ResultPacket.command # None)
  BY <1>2, <1>3, <1>4 DEF BlockEncoder
<1> QED BY <1>5, <1>6

\* The n-th call goes on.
LEMMA ResultUpto ==
    ASSUME NEW fs, StackOK(fs), ResultOK(fs), NEW n \in 1 .. Len(fs), NEW fr, FrameOK(fr),
           fr.name = "result" => fr.buffer = NoBuffer,
           n # 1 /\ fs[n - 1].name = "result" => EncoderOfResult(fr)
    PROVE  ResultOK(Upto(fs, n, fr))
<1>1. fs \in Seq(FrameType) /\ fr \in FrameType
  BY DEF StackOK, FrameOK
<1> DEFINE gs == Upto(fs, n, fr)
<1>2. /\ gs \in Seq(FrameType) /\ Len(gs) = n /\ gs[n] = fr
      /\ \A i \in 1 .. n - 1 : gs[i] = fs[i]
  <2>1. n \in 1 .. Len(fs) + 1
    BY <1>1
  <2> QED BY <1>1, <2>1, UptoIs
<1> HIDE DEF gs
<1>3. n \in Nat /\ Len(fs) \in Nat /\ n <= Len(fs)
  BY <1>1
<1>4. ASSUME NEW k \in 1 .. n, gs[k].name = "result"
      PROVE  gs[k].buffer = NoBuffer /\ (k + 1 \in 1 .. n => EncoderOfResult(gs[k + 1]))
  <2>1. CASE k = n
    <3>1. k + 1 \notin 1 .. n
      BY <1>3, <2>1
    <3> QED BY <1>2, <1>4, <2>1, <3>1
  <2>2. CASE k + 1 = n
    <3>1. k \in 1 .. n - 1 /\ k \in 1 .. Len(fs) /\ n - 1 = k /\ n # 1
      BY <1>3, <2>2
    <3> QED BY <1>2, <1>4, <2>2, <3>1 DEF ResultOK
  <2>3. CASE k # n /\ k + 1 # n
    <3>1. k \in 1 .. n - 1 /\ k + 1 \in 1 .. n - 1 /\ k \in 1 .. Len(fs) /\ k + 1 \in 1 .. Len(fs)
      BY <1>3, <2>3
    <3> QED BY <1>2, <1>4, <3>1 DEF ResultOK
  <2> QED BY <2>1, <2>2, <2>3
<1> QED BY <1>2, <1>4 DEF ResultOK, gs

\* The innermost call does a step of its own, other than looking for a value.
LEMMA ResultOwn ==
    ASSUME Inv, ResultOK(frames), frames # <<>>, Top.code # <<>>, NEW b \in BufferType,
           Head(Top.code).op # "check" \/ Head(Top.code).ok, Top.name = "result" => b = NoBuffer,
           b.ini = Local => Top.name = "boolean" /\ Head(Top.code).op \in {"local"},
           Top.name = "boolean" => b.ini = Local,
           frames' = Append(Callers, Done(Top, b))
    PROVE  ResultOK(frames')
<1> DEFINE n == Len(frames)
           fr == Done(Top, b)
<1>1. n \in 1 .. n /\ Top = frames[n] /\ FrameOK(Top) /\ frames' = Upto(frames, n, fr)
  BY TopIs
<1>2. FrameOK(fr) /\ fr.name = Top.name /\ fr.buffer = b
  BY <1>1, DoneOK
<1>3. n # 1 /\ frames[n - 1].name = "result" => FALSE
  <2>1. n \in Nat
    BY <1>1 DEF Inv, StackOK
  <2>4. 1 <= n
    BY <1>1, <2>1
  <2>2. n # 1 => n - 1 \in 1 .. n /\ (n - 1) + 1 = n
    <3> HIDE DEF n
    <3> QED BY <2>1, <2>4
  <2>3. n # 1 /\ frames[n - 1].name = "result" => EncoderOfResult(Top)
    BY <1>1, <2>2 DEF ResultOK
  <2> QED BY <2>3, EncoderFails
<1> HIDE DEF fr, n
<1>4. ResultOK(Upto(frames, n, fr))
  BY <1>1, <1>2, <1>3, ResultUpto DEF Inv, n
<1> QED BY <1>1, <1>4

LEMMA ResultSimple ==
    Inv /\ ResultOK(frames) /\ (AppendBytes \/ MakeLocal \/ FreeBuffer \/ UseBuffer \/ Receive \/ CheckPasses)
      => ResultOK(frames')
<1> SUFFICES ASSUME Inv, ResultOK(frames),
                    AppendBytes \/ MakeLocal \/ FreeBuffer \/ UseBuffer \/ Receive \/ CheckPasses
             PROVE  ResultOK(frames')
  OBVIOUS
<1> DEFINE n == Len(frames)
           op == Head(Top.code).op
<1>1. /\ frames # <<>> /\ Top.code # <<>> /\ op \in {"append", "local", "free", "use", "read", "check"}
      /\ op = "append" => Top.buffer.ini # Local
      /\ op = "check" => Head(Top.code).ok
  BY DEF AppendBytes, MakeLocal, FreeBuffer, UseBuffer, Receive, CheckPasses, At
<1>2. n \in 1 .. n /\ Top = frames[n] /\ FrameOK(Top)
  BY <1>1, TopIs
<1>3. Top.name = "result" => op = "use" /\ Top.buffer = NoBuffer
  <2>1. Top.name = "result" => op \in {"use", "take"}
    <3>1. Head(Top.code) \in Steps(Top.name)
      BY <1>1, <1>2, FrameParts
    <3> QED BY <3>1, Ops DEF Steps
  <2> QED BY <1>1, <1>2, <2>1 DEF ResultOK
<1>4. /\ Top.buffer \in BufferType
      /\ Top.buffer.ini = Local => Top.name = "boolean"
      /\ Top.name = "boolean" => op = "local" \/ (op = "append" /\ Top.buffer.ini = Local)
  <2>1. Top.name = "boolean" => op \in {"local", "append"}
    <3>1. Head(Top.code) \in Steps(Top.name)
      BY <1>1, <1>2, FrameParts
    <3> QED BY <3>1, Ops DEF Steps
  <2>2. op = "append" /\ Top.name = "boolean" <=> Top.buffer.ini = Local
    BY <1>1, <1>2, StepsOf
  <2> QED BY <1>1, <1>2, <2>1, <2>2, FrameParts
<1>5. \E b \in BufferType :
         /\ Top.name = "result" => b = NoBuffer
         /\ b.ini = Local => Top.name = "boolean" /\ op = "local"
         /\ Top.name = "boolean" => b.ini = Local
         /\ frames' = Append(Callers, Done(Top, b))
  <2>1. CASE AppendBytes
    <3>1. PICK cell \in Reallocs(Top.buffer) :
            frames' = Append(Callers, Done(Top, Grown(Top.buffer, cell, Head(Top.code).n)))
      BY <2>1 DEF AppendBytes
    <3>2. op = "append" /\ Head(Top.code).n \in Nat
      BY <1>1, <1>2, <2>1, StepsOf DEF AppendBytes, At
    <3> HIDE DEF op
    <3>6. Top.buffer.ini # Local /\ Top.buffer \in BufferType
      BY <1>1, <1>4, <3>2
    <3>3. cell \in Cells
      BY <3>1, <3>6 DEF Reallocs, BufferType
    <3> DEFINE b == Grown(Top.buffer, cell, Head(Top.code).n)
    <3>4. b \in BufferType /\ b.ini = cell
      BY <3>2, <3>3, <3>6 DEF Grown, BufferAt, BufferType
    <3>5. Top.name # "result" /\ Top.name # "boolean" /\ b.ini # Local
      BY <1>3, <1>4, <3>2, <3>3, <3>4, <3>6, BuffersAssumption
    <3> HIDE DEF b
    <3> QED BY <3>1, <3>4, <3>5 DEF b
  <2>2. CASE MakeLocal
    <3>1. op = "local" /\ frames' = Append(Callers, Done(Top, BufferAt(Local, 1)))
      BY <2>2 DEF MakeLocal, At
    <3>2. Top.name = "boolean"
      BY <1>1, <1>2, <3>1, StepsOf
    <3>3. BufferAt(Local, 1) \in BufferType /\ BufferAt(Local, 1).ini = Local
      BY DEF BufferAt, BufferType
    <3> QED BY <3>1, <3>2, <3>3
  <2>3. CASE FreeBuffer \/ UseBuffer \/ CheckPasses
    <3>1. op \in {"free", "use", "check"} /\ frames' = Append(Callers, Done(Top, Top.buffer))
      BY <2>3 DEF FreeBuffer, UseBuffer, CheckPasses, At
    <3> HIDE DEF op
    <3>2. Top.name # "boolean"
      BY <1>4, <3>1
    <3> QED BY <1>3, <1>4, <3>1, <3>2
  <2>4. CASE Receive
    <3>1. op = "read" /\ Head(Top.code).n >= 0
      BY <2>4 DEF Receive, At
    <3>2. Top.name = "receive" /\ Head(Top.code).n \in Int
      BY <1>1, <1>2, <3>1, StepsOf
    <3>3. PICK b : /\ b = NoBuffer \/ \E cell \in Cells : b = BufferAt(cell, Head(Top.code).n)
                   /\ frames' = Append(Callers, Done(Top, b))
      BY <2>4 DEF Receive
    <3>4. Head(Top.code).n \in Nat
      BY <3>1, <3>2
    <3>5. b \in BufferType /\ b.ini # Local
      BY <3>3, <3>4, NoBufferOK, BuffersAssumption DEF BufferAt, BufferType
    <3> QED BY <3>2, <3>3, <3>5
  <2> QED BY <2>1, <2>2, <2>3, <2>4
<1>6. PICK b \in BufferType :
         /\ Top.name = "result" => b = NoBuffer
         /\ b.ini = Local => Top.name = "boolean" /\ op = "local"
         /\ Top.name = "boolean" => b.ini = Local
         /\ frames' = Append(Callers, Done(Top, b))
  BY <1>5
<1>7. op # "check" \/ Head(Top.code).ok
  BY <1>1
<1> QED BY <1>1, <1>6, <1>7, ResultOwn

LEMMA ResultEnter == Inv /\ ResultOK(frames) /\ Enter => ResultOK(frames')
<1> SUFFICES ASSUME Inv, ResultOK(frames), Enter PROVE ResultOK(frames')
  OBVIOUS
<1> DEFINE n == Len(frames)
           f == Head(Top.code).f
           gs == Append(frames, Frame(f))
<1>1. frames # <<>> /\ Top.code # <<>> /\ Head(Top.code).op \in {"appendOf", "take", "run"}
      /\ frames' = gs
  BY DEF Enter, At
<1>2. n \in 1 .. n /\ n \in Nat /\ Top = frames[n] /\ FrameOK(Top) /\ frames \in Seq(FrameType)
  BY <1>1, TopIs DEF Inv, StackOK
<1>3. f \in FnType
  BY <1>1, <1>2, StepsOf
<1>4. Frame(f) \in FrameType /\ Frame(f).buffer = NoBuffer
  BY <1>3, StartOK DEF FrameOK, Frame
<1>5. Len(gs) = n + 1 /\ gs[n + 1] = Frame(f) /\ \A i \in 1 .. n : gs[i] = frames[i]
  BY <1>2, <1>4
<1>6. Top.name = "result" => EncoderOfResult(Frame(f))
  <2>1. SUFFICES ASSUME Top.name = "result" PROVE EncoderOfResult(Frame(f))
    OBVIOUS
  <2>2. Top.code \in {ResultCommand, <<Use>>}
    BY <1>1, <1>2, <2>1 DEF FrameOK, Ordered
  <2>3. Top.code # <<Use>>
    BY <1>1, Ops
  <2>4. f = Fn("BlockEncoder", ResultPacket)
    BY <2>2, <2>3 DEF ResultCommand, Take
  <2>5. f.name = "BlockEncoder" /\ f.arg = ResultPacket
    BY <2>4 DEF Fn
  <2> QED BY <1>4, <2>5 DEF EncoderOfResult, Frame, Code
<1> HIDE DEF gs, f, n
<1>7. ASSUME NEW k \in 1 .. n + 1, gs[k].name = "result"
      PROVE  gs[k].buffer = NoBuffer /\ (k + 1 \in 1 .. n + 1 => EncoderOfResult(gs[k + 1]))
  <2>1. CASE k = n + 1
    <3>1. k + 1 \notin 1 .. n + 1
      BY <1>2, <2>1
    <3> QED BY <1>4, <1>5, <2>1, <3>1
  <2>2. CASE k = n
    <3>1. gs[k] = Top
      BY <1>2, <1>5, <2>2
    <3> QED BY <1>2, <1>5, <1>6, <1>7, <2>2, <3>1 DEF ResultOK, n
  <2>3. CASE k # n /\ k # n + 1
    <3>1. k \in 1 .. n /\ k + 1 \in 1 .. n
      BY <1>2, <2>3
    <3> QED BY <1>5, <1>7, <3>1 DEF ResultOK, n
  <2> QED BY <2>1, <2>2, <2>3
<1> QED BY <1>1, <1>5, <1>7 DEF ResultOK

LEMMA ResultReturn == Inv /\ ResultOK(frames) /\ Return => ResultOK(frames')
<1> SUFFICES ASSUME Inv, ResultOK(frames), Return PROVE ResultOK(frames')
  OBVIOUS
<1> DEFINE n == Len(frames) - 1
           caller == frames[n]
           got == Top.buffer
           op == Head(caller.code).op
<1>1. frames # <<>> /\ Top.code = <<>> /\ Len(frames) > 1
  BY DEF Return, AtReturn
<1>2. /\ n \in 1 .. Len(frames) /\ n \in Nat /\ n + 1 = Len(frames)
      /\ FrameOK(caller) /\ caller.code # <<>> /\ op \in {"appendOf", "take", "run"}
      /\ Top = frames[n + 1] /\ FrameOK(Top)
      /\ \A fr : Append(SubSeq(frames, 1, Len(frames) - 2), fr) = Upto(frames, n, fr)
  BY <1>1, CallerIs
<1>3. got \in BufferType /\ got.ini # Local
  <2>1. Top.code # encodeBoolean /\ Top.code # <<Append_(1)>>
    BY <1>1 DEF encodeBoolean
  <2> QED BY <1>2, <2>1, FrameParts DEF FrameOK, Ordered
<1>4. caller.buffer \in BufferType /\ caller.name # "boolean" /\ caller.buffer.ini # Local
  <2>1. caller.buffer \in BufferType /\ caller.name # "boolean"
    BY <1>2, FrameParts, StepsOf
  <2> QED BY <1>2, <2>1 DEF FrameOK, Ordered
<1>5. caller.name = "result" => op = "take" /\ got = NoBuffer
  <2>1. SUFFICES ASSUME caller.name = "result" PROVE op = "take" /\ got = NoBuffer
    OBVIOUS
  <2>2. caller.code \in {ResultCommand, <<Use>>}
    BY <1>2, <2>1 DEF FrameOK, Ordered
  <2>3. caller.code # <<Use>>
    BY <1>2, Ops
  <2>4. op = "take"
    BY <2>2, <2>3 DEF ResultCommand, Take
  <2>5. n + 1 \in 1 .. Len(frames)
    BY <1>2
  <2>6. EncoderOfResult(frames[n + 1])
    BY <1>2, <2>1, <2>5 DEF ResultOK
  <2> QED BY <1>2, <2>4, <2>6 DEF EncoderOfResult
<1>6. n # 1 /\ frames[n - 1].name = "result" => FALSE
  <2>1. n # 1 => n - 1 \in 1 .. Len(frames) /\ (n - 1) + 1 = n
    BY <1>2
  <2>2. n # 1 /\ frames[n - 1].name = "result" => EncoderOfResult(caller)
    BY <1>2, <2>1 DEF ResultOK
  <2> QED BY <1>2, <2>2, EncoderFails
<1>7. \E b \in BufferType : /\ b.ini # Local /\ (caller.name = "result" => b = NoBuffer)
                            /\ frames' = Upto(frames, n, Done(caller, b))
  <2>1. CASE frames' = Upto(frames, n, Done(caller, got)) /\ op = "take"
    BY <1>3, <1>5, <2>1
  <2>2. CASE frames' = Upto(frames, n, Done(caller, caller.buffer)) /\ op # "take"
    BY <1>4, <1>5, <2>2
  <2>3. CASE \E cell \in Reallocs(caller.buffer) :
               op = "appendOf" /\ frames' = Upto(frames, n, Done(caller, Grown(caller.buffer, cell, got.size)))
    <3>1. PICK cell \in Reallocs(caller.buffer) :
               op = "appendOf" /\ frames' = Upto(frames, n, Done(caller, Grown(caller.buffer, cell, got.size)))
      BY <2>3
    <3>2. cell \in Cells
      BY <1>4, <3>1 DEF Reallocs, BufferType
    <3> DEFINE b == Grown(caller.buffer, cell, got.size)
    <3>3. b \in BufferType /\ b.ini # Local
      BY <1>3, <1>4, <3>2, BuffersAssumption DEF Grown, BufferAt, BufferType
    <3> QED BY <1>5, <3>1, <3>3
  <2> QED BY <1>2, <2>1, <2>2, <2>3 DEF Return
<1>8. PICK b \in BufferType : /\ b.ini # Local /\ (caller.name = "result" => b = NoBuffer)
                              /\ frames' = Upto(frames, n, Done(caller, b))
  BY <1>7
<1> DEFINE fr == Done(caller, b)
<1>9. FrameOK(fr) /\ fr.name = caller.name /\ fr.buffer = b
  BY <1>2, <1>4, <1>8, DoneOK
<1> HIDE DEF fr, n
<1>10. ResultOK(Upto(frames, n, fr))
  BY <1>2, <1>6, <1>8, <1>9, ResultUpto DEF Inv
<1> QED BY <1>8, <1>10 DEF fr

LEMMA ResultThrows == Inv /\ ResultOK(frames) /\ CheckThrows => ResultOK(frames')
<1> SUFFICES ASSUME Inv, ResultOK(frames), CheckThrows PROVE ResultOK(frames')
  OBVIOUS
<1>1. frames # <<>> /\ status = "running" /\ Top.code # <<>> /\ Head(Top.code).op = "check"
  BY DEF CheckThrows, At
<1>2. CASE Catchers = {}
  <2>1. frames' = <<>> /\ Len(<<>>) = 0 /\ 1 .. 0 = {}
    BY <1>2 DEF CheckThrows
  <2> QED BY <2>1 DEF ResultOK
<1>3. CASE Catchers # {}
  <2>1. PICK k \in Catchers :
          /\ \A j \in Catchers : j <= k
          /\ frames' = Append(SubSeq(frames, 1, k - 1),
                              [frames[k] EXCEPT !.code = <<>>, !.buffer = NoBuffer])
    BY <1>3 DEF CheckThrows
  <2> DEFINE fr == [frames[k] EXCEPT !.code = <<>>, !.buffer = NoBuffer]
  <2>2. k \in 1 .. Len(frames) /\ frames[k].name \in {"BlockEncoder", "build_rtmp_header"}
    BY <1>1, <2>1, Catching
  <2>3. frames' = Upto(frames, k, fr)
    BY <2>1 DEF Upto
  <2>4. FrameOK(frames[k])
    BY <2>2 DEF Inv, StackOK
  <2>5. FrameOK(fr) /\ fr.name = frames[k].name /\ fr.code = <<>> /\ fr.buffer = NoBuffer
    BY <2>2, <2>4, CaughtOK
  <2>6. k # 1 /\ frames[k - 1].name = "result" => frames[k].name = "BlockEncoder"
    <3>1. Len(frames) \in Nat
      BY DEF Inv, StackOK
    <3>2. k # 1 => k - 1 \in 1 .. Len(frames) /\ (k - 1) + 1 = k
      BY <2>2, <3>1
    <3> QED BY <2>2, <3>2 DEF ResultOK, EncoderOfResult
  <2> HIDE DEF fr
  <2>7. k # 1 /\ frames[k - 1].name = "result" => EncoderOfResult(fr)
    BY <2>5, <2>6 DEF EncoderOfResult
  <2>8. ResultOK(Upto(frames, k, fr))
    BY <2>2, <2>5, <2>7, ResultUpto DEF Inv
  <2> QED BY <2>3, <2>8
<1> QED BY <1>2, <1>3

LEMMA ResultNext == Inv /\ ResultOK(frames) /\ [Next]_vars => ResultOK(frames')
<1> SUFFICES ASSUME Inv, ResultOK(frames), [Next]_vars PROVE ResultOK(frames')
  OBVIOUS
<1>1. CASE UNCHANGED frames
  <2>1. frames' = frames
    BY <1>1
  <2> QED BY <2>1
<1>2. CASE ReturnLast
  <2>1. frames' = <<>> /\ Len(<<>>) = 0 /\ 1 .. 0 = {}
    BY <1>2 DEF ReturnLast
  <2> QED BY <2>1 DEF ResultOK
<1>3. CASE AppendToLocal \/ ReceiveFails \/ UNCHANGED vars
  BY <1>1, <1>3 DEF AppendToLocal, ReceiveFails, Crash, vars
<1> QED
  BY <1>2, <1>3, ResultSimple, ResultEnter, ResultReturn, ResultThrows DEF Next

LEMMA InvNext == Inv /\ ResultOK(frames) /\ [Next]_vars => Inv'
<1> SUFFICES ASSUME Inv, ResultOK(frames), [Next]_vars PROVE Inv'
  OBVIOUS
<1>1. CASE UNCHANGED vars
  BY <1>1 DEF vars, Inv, HeapOK
<1>2. CASE Next
  <2>1. ResultNull(frames)
    BY DEF ResultOK, ResultNull
  <2> QED BY <1>2, <2>1, StepAppendBytes, StepCrash, StepMakeLocal, StepEnter, StepReturn, StepReturnLast,
     StepFreeBuffer, StepUseBuffer, StepReceive, StepCheckPasses, StepCheckThrows DEF Next
<1> QED
  BY <1>1, <1>2

\* The memory is in order at all times.
LEMMA InvAlways == Spec => [](Inv /\ ResultOK(frames))
<1>1. Init => Inv /\ ResultOK(frames)
  <2>1. Init => ResultOK(frames)
    <3> SUFFICES ASSUME Init PROVE ResultOK(frames)
      OBVIOUS
    <3>1. Len(frames) = 1 /\ frames[1].buffer = NoBuffer /\ 1 .. 1 = {1} /\ 1 + 1 \notin 1 .. 1
      BY DEF Init, Frame
    <3> QED BY <3>1 DEF ResultOK
  <2> QED BY <2>1, InvInit
<1>2. Inv /\ ResultOK(frames) /\ [Next]_vars => (Inv /\ ResultOK(frames))'
  BY InvNext, ResultNext
<1> QED
  BY <1>1, <1>2, PTL DEF Spec

-----------------------------------------------------------------------------
(* Sums.                                                                   *)

\* There is a function of the sums of a sequence from its beginning.
LEMMA SumToIs ==
    ASSUME NEW s \in Seq(Nat)
    PROVE  /\ SumTo(s, 0) = 0
           /\ \A n \in 0 .. Len(s) : SumTo(s, n) \in Nat
           /\ \A n \in 1 .. Len(s) : SumTo(s, n) = SumTo(s, n - 1) + s[n]
<1> DEFINE L == Len(s)
           F == [p \in Nat \X Nat |-> IF p[1] \in 1 .. L THEN p[2] + s[p[1]] ELSE 0]
<1>1. L \in Nat /\ \A k \in 1 .. L : s[k] \in Nat
  OBVIOUS
<1> HIDE DEF L
<1>2. F \in [Nat \X Nat -> Nat] /\ \A k \in 1 .. L, x \in Nat : F[<<k, x>>] = x + s[k]
  <2>1. ASSUME NEW p \in Nat \X Nat
        PROVE  (IF p[1] \in 1 .. L THEN p[2] + s[p[1]] ELSE 0) \in Nat
    <3>1. p[2] \in Nat
      OBVIOUS
    <3>2. CASE p[1] \in 1 .. L
      <4>1. s[p[1]] \in Nat
        BY <1>1, <3>2
      <4> QED BY <3>1, <3>2, <4>1
    <3> QED BY <3>2
  <2>2. F \in [Nat \X Nat -> Nat]
    BY <2>1
  <2>3. ASSUME NEW k \in 1 .. L, NEW x \in Nat
        PROVE  F[<<k, x>>] = x + s[k]
    <3>1. <<k, x>> \in Nat \X Nat
      BY <1>1
    <3> QED BY <3>1
  <2> QED BY <2>2, <2>3
<1> HIDE DEF F
<1>3. PICK f \in [0 .. L -> Nat] : Computes(f, L, 0, F)
  <2>1. 0 \in Nat
    OBVIOUS
  <2> QED BY <1>1, <1>2, <2>1, Computable
<1>4. \A k \in 0 .. L : f[k] = IF k = 0 THEN 0 ELSE f[k - 1] + s[k]
  <2>1. f[0] = 0
    BY <1>3 DEF Computes
  <2>2. ASSUME NEW k \in 1 .. L PROVE f[k] = f[k - 1] + s[k]
    <3>1. k - 1 \in 0 .. L
      BY <1>1
    <3>2. f[k - 1] \in Nat
      BY <3>1
    <3> QED BY <1>2, <1>3, <3>2 DEF Computes
  <2> QED BY <1>1, <2>1, <2>2
<1>5. ASSUME NEW n \in 0 .. L PROVE SumTo(s, n) = f[n]
  <2> DEFINE Step(g) == [k \in 0 .. n |-> IF k = 0 THEN 0 ELSE g[k - 1] + s[k]]
             value == CHOOSE g : g = Step(g)
             h == [k \in 0 .. n |-> f[k]]
  <2>1. SumTo(s, n) = value[n]
    BY DEF SumTo
  <2>2. n \in Nat /\ n <= L
    BY <1>1
  <2>3. h = Step(h)
    <3>1. ASSUME NEW k \in 0 .. n PROVE h[k] = IF k = 0 THEN 0 ELSE h[k - 1] + s[k]
      <4>1. k \in 0 .. L /\ (k # 0 => k - 1 \in 0 .. n)
        BY <1>1, <2>2
      <4> QED BY <1>4, <4>1
    <3> QED BY <3>1
  <2> HIDE DEF Step
  <2>4. value = Step(value)
    BY <2>3
  <2> HIDE DEF value
  <2>5. \A k \in 0 .. n : value[k] = IF k = 0 THEN 0 ELSE value[k - 1] + s[k]
    BY <2>4 DEF Step
  <2> DEFINE T == {k \in Nat : k <= n => value[k] = f[k]}
  <2>6. 0 \in T
    BY <1>1, <1>4, <2>2, <2>5
  <2>7. ASSUME NEW k \in Nat, k \in T PROVE k + 1 \in T
    <3>1. SUFFICES ASSUME k + 1 <= n PROVE value[k + 1] = f[k + 1]
      OBVIOUS
    <3>2. k + 1 \in 0 .. n /\ k + 1 \in 0 .. L /\ k + 1 # 0 /\ (k + 1) - 1 = k /\ value[k] = f[k]
      BY <1>1, <2>2, <2>7, <3>1
    <3> QED BY <1>4, <2>5, <3>2
  <2> HIDE DEF T
  <2>8. Nat \subseteq T
    BY <2>6, <2>7, Induct
  <2>9. n \in T
    BY <2>2, <2>8
  <2> QED BY <2>1, <2>2, <2>9 DEF T
<1>6. 0 \in 0 .. L /\ \A n \in 1 .. L : n \in 0 .. L /\ n - 1 \in 0 .. L /\ n # 0
  BY <1>1
<1>7. SumTo(s, 0) = 0
  BY <1>4, <1>5, <1>6
<1>8. \A n \in 0 .. L : SumTo(s, n) \in Nat
  BY <1>5
<1>9. \A n \in 1 .. L : SumTo(s, n) = SumTo(s, n - 1) + s[n]
  BY <1>4, <1>5, <1>6
<1> QED BY <1>7, <1>8, <1>9 DEF L

\* The sum of the first of one sequence, and that of another from its k-th on.
LEMMA SumShift ==
    ASSUME NEW s \in Seq(Nat), NEW t \in Seq(Nat), NEW k \in Nat, NEW n \in Nat,
           n <= Len(s), k + n <= Len(t), \A i \in 1 .. n : t[k + i] = s[i]
    PROVE  SumTo(t, k + n) = SumTo(t, k) + SumTo(s, n)
<1> DEFINE T == {i \in Nat : i <= n => SumTo(t, k + i) = SumTo(t, k) + SumTo(s, i)}
<1>0. Len(s) \in Nat /\ Len(t) \in Nat
  OBVIOUS
<1>1. 0 \in T
  <2>1. SumTo(s, 0) = 0 /\ k + 0 = k /\ k \in 0 .. Len(t) /\ SumTo(t, k) \in Nat
    BY <1>0, SumToIs
  <2> QED BY <2>1
<1>2. ASSUME NEW i \in Nat, i \in T PROVE i + 1 \in T
  <2>1. SUFFICES ASSUME i + 1 <= n PROVE SumTo(t, k + (i + 1)) = SumTo(t, k) + SumTo(s, i + 1)
    OBVIOUS
  <2>2. /\ i + 1 \in 1 .. n /\ i + 1 \in 1 .. Len(s) /\ (i + 1) - 1 = i
        /\ k + (i + 1) \in 1 .. Len(t) /\ (k + (i + 1)) - 1 = k + i
        /\ i \in 0 .. Len(s) /\ k \in 0 .. Len(t) /\ i <= n
    BY <1>0, <2>1
  <2>3. SumTo(t, k + i) = SumTo(t, k) + SumTo(s, i)
    BY <1>2, <2>2
  <2>4. SumTo(t, k + (i + 1)) = SumTo(t, k + i) + t[k + (i + 1)]
    BY <2>2, SumToIs
  <2>5. SumTo(s, i + 1) = SumTo(s, i) + s[i + 1]
    <3>1. \A m \in 1 .. Len(s) : SumTo(s, m) = SumTo(s, m - 1) + s[m]
      BY SumToIs
    <3> QED BY <2>2, <3>1
  <2>6. t[k + (i + 1)] = s[i + 1]
    BY <2>2
  <2>7. SumTo(t, k) \in Nat /\ SumTo(s, i) \in Nat /\ s[i + 1] \in Nat
    <3>1. SumTo(t, k) \in Nat /\ SumTo(s, i) \in Nat
      BY <2>2, SumToIs
    <3>2. \A m \in 1 .. Len(s) : s[m] \in Nat
      BY ONLY s \in Seq(Nat)
    <3> QED BY <2>2, <3>1, <3>2
  <2> QED BY <2>3, <2>4, <2>5, <2>6, <2>7
<1> HIDE DEF T
<1>3. n \in T
  BY <1>1, <1>2, Induct
<1> QED BY <1>3 DEF T

LEMMA SumConcat ==
    ASSUME NEW s \in Seq(Nat), NEW t \in Seq(Nat)
    PROVE  Sum(s \o t) = Sum(s) + Sum(t) /\ Sum(s) \in Nat /\ Sum(t) \in Nat
<1>1. /\ s \o t \in Seq(Nat) /\ Len(s \o t) = Len(s) + Len(t)
      /\ \A i \in 1 .. Len(s) : (s \o t)[i] = s[i]
      /\ \A i \in 1 .. Len(t) : (s \o t)[Len(s) + i] = t[i]
  OBVIOUS
<1>2. Len(s) \in Nat /\ Len(t) \in Nat
  OBVIOUS
<1> DEFINE u == s \o t
<1> HIDE DEF u
<1>3. u \in Seq(Nat) /\ Len(u) = Len(s) + Len(t)
      /\ (\A i \in 1 .. Len(s) : u[0 + i] = s[i])
      /\ (\A i \in 1 .. Len(t) : u[Len(s) + i] = t[i])
  BY <1>1, <1>2 DEF u
<1>4. SumTo(u, 0 + Len(s)) = SumTo(u, 0) + SumTo(s, Len(s))
  <2>1. 0 \in Nat /\ Len(s) <= Len(s) /\ 0 + Len(s) <= Len(u)
    BY <1>2, <1>3
  <2> QED BY <1>2, <1>3, <2>1, SumShift
<1>5. SumTo(u, Len(s) + Len(t)) = SumTo(u, Len(s)) + SumTo(t, Len(t))
  <2>1. Len(t) <= Len(t) /\ Len(s) + Len(t) <= Len(u)
    BY <1>2, <1>3
  <2> QED BY <1>2, <1>3, <2>1, SumShift
<1>6. SumTo(u, 0) = 0 /\ SumTo(s, Len(s)) \in Nat /\ SumTo(t, Len(t)) \in Nat
  BY <1>2, <1>3, SumToIs
<1>7. 0 + Len(s) = Len(s)
  BY <1>2
<1> QED BY <1>3, <1>4, <1>5, <1>6, <1>7 DEF Sum, u
LEMMA SumOne == ASSUME NEW x \in Nat PROVE Sum(<<x>>) = x /\ Sum(<<>>) = 0
<1> DEFINE s == <<x>>
<1>1. s \in Seq(Nat) /\ Len(s) = 1 /\ s[1] = x /\ 1 \in 1 .. Len(s) /\ 1 - 1 = 0
  OBVIOUS
<1>2. <<>> \in Seq(Nat) /\ Len(<<>>) = 0
  OBVIOUS
<1> HIDE DEF s
<1>3. SumTo(s, 1) = SumTo(s, 0) + x /\ SumTo(s, 0) = 0
  BY <1>1, SumToIs
<1>4. SumTo(<<>>, 0) = 0
  BY <1>2, SumToIs
<1> QED BY <1>1, <1>2, <1>3, <1>4 DEF Sum, s

-----------------------------------------------------------------------------
(* The sizes of results, counted along the code.                           *)

\* The functions that return what they were asked for, whole or not at all.
Sized == {"string", "double", "object", "BlockEncoder", "build_basic_header",
          "build_message_header", "build_rtmp_header"}

\* The size of what a call returns if it does not fail.
Total(f) == CASE f.name \in {"string", "double", "boolean"} -> ValueSize(f)
              [] f.name = "object"             -> ObjectSize(f.arg)
              [] f.name = "BlockEncoder"       -> PacketSize(f.arg)
              [] f.name = "build_basic_header" -> f.arg.basic
              [] f.name = "build_message_header" -> HeaderSize(f.arg) - f.arg.basic
              [] f.name = "build_rtmp_header"  -> HeaderSize(f.arg)
              [] OTHER                         -> 0

\* Whether it does not.
Passes(f) == CASE f.name = "BlockEncoder"       -> Encodable(f.arg)
               [] f.name = "build_basic_header" -> f.arg.stream
               [] f.name = "build_message_header" ->
                    (f.arg.type = 0 => f.arg.timestamp) /\ (f.arg.type <= 1 => f.arg.message)
               [] f.name = "build_rtmp_header"  -> Acceptable(f.arg)
               [] OTHER                         -> TRUE

\* The same of a step.
StepSize(s) == CASE s.op = "append"             -> s.n
                 [] s.op \in {"appendOf", "take"} -> Total(s.f)
                 [] OTHER                       -> 0
StepOK(s)   == CASE s.op = "check"              -> s.ok
                 [] s.op \in {"appendOf", "take"} -> Passes(s.f)
                 [] OTHER                       -> TRUE

\* And of what is left to do.
SizesOf(code) == [j \in 1 .. Len(code) |-> StepSize(code[j])]
Weight(code)  == Sum(SizesOf(code))
AllPass(code) == \A j \in 1 .. Len(code) : StepOK(code[j])

\* One list after another.
LEMMA WeightConcat ==
    ASSUME NEW S, \A s \in S : StepSize(s) \in Nat, NEW c \in Seq(S), NEW d \in Seq(S)
    PROVE  /\ Weight(c \o d) = Weight(c) + Weight(d)
           /\ Weight(c) \in Nat /\ Weight(d) \in Nat
<1>1. /\ c \o d \in Seq(S) /\ Len(c \o d) = Len(c) + Len(d)
      /\ \A i \in 1 .. Len(c \o d) : (c \o d)[i] = IF i <= Len(c) THEN c[i] ELSE d[i - Len(c)]
  OBVIOUS
<1>2. Len(c) \in Nat /\ Len(d) \in Nat
  OBVIOUS
<1>3. (\A i \in 1 .. Len(c) : c[i] \in S) /\ (\A i \in 1 .. Len(d) : d[i] \in S)
  OBVIOUS
<1> DEFINE u == c \o d
           p == SizesOf(c)
           q == SizesOf(d)
<1>4. p \in Seq(Nat) /\ Len(p) = Len(c) /\ q \in Seq(Nat) /\ Len(q) = Len(d)
  BY <1>2, <1>3 DEF SizesOf
<1>5. /\ \A i \in 1 .. Len(c) : p[i] = StepSize(c[i])
      /\ \A i \in 1 .. Len(d) : q[i] = StepSize(d[i])
      /\ SizesOf(u) = [i \in 1 .. Len(u) |-> StepSize(u[i])]
  BY DEF SizesOf
<1> HIDE DEF p, q
<1>6. /\ \A i \in 1 .. Len(p) + Len(q) : (p \o q)[i] = IF i <= Len(p) THEN p[i] ELSE q[i - Len(p)]
      /\ p \o q = [i \in 1 .. Len(p) + Len(q) |-> (p \o q)[i]]
  BY <1>4, ConcatIs
<1>7. /\ Len(u) = Len(c) + Len(d)
      /\ \A i \in 1 .. Len(u) : u[i] = IF i <= Len(c) THEN c[i] ELSE d[i - Len(c)]
  BY <1>1
<1> DEFINE pq == p \o q
<1> HIDE DEF u, pq
<1>8. ASSUME NEW i \in 1 .. Len(u) PROVE StepSize(u[i]) = pq[i]
  <2>0. pq[i] = IF i <= Len(p) THEN p[i] ELSE q[i - Len(p)]
    BY <1>4, <1>6, <1>7 DEF pq
  <2>1. CASE i <= Len(c)
    <3>1. i \in 1 .. Len(c) /\ u[i] = c[i] /\ pq[i] = p[i]
      BY <1>2, <1>4, <1>7, <2>0, <2>1
    <3> QED BY <1>5, <3>1
  <2>2. CASE ~(i <= Len(c))
    <3>1. i - Len(c) \in 1 .. Len(d) /\ u[i] = d[i - Len(c)] /\ pq[i] = q[i - Len(c)]
      BY <1>2, <1>4, <1>7, <2>0, <2>2
    <3> QED BY <1>5, <3>1
  <2> QED BY <2>1, <2>2
<1>9. pq = [i \in 1 .. Len(u) |-> pq[i]]
  BY <1>4, <1>6, <1>7 DEF pq
<1>10. SizesOf(u) = pq
  BY <1>5, <1>8, <1>9
<1> QED BY <1>4, <1>10, SumConcat DEF Weight, u, p, q, pq

\* One step, and none.
LEMMA WeightOne ==
    ASSUME NEW s, StepSize(s) \in Nat
    PROVE  Weight(<<s>>) = StepSize(s) /\ Weight(<<>>) = 0
<1>1. SizesOf(<<s>>) = <<StepSize(s)>> /\ SizesOf(<<>>) = <<>>
  BY DEF SizesOf
<1> QED BY <1>1, SumOne DEF Weight

\* One step done.
LEMMA WeightTail ==
    ASSUME NEW S, \A s \in S : StepSize(s) \in Nat, NEW c \in Seq(S), c # <<>>
    PROVE  /\ StepSize(Head(c)) \in Nat /\ Weight(Tail(c)) \in Nat
           /\ Weight(c) = StepSize(Head(c)) + Weight(Tail(c))
           /\ AllPass(c) <=> StepOK(Head(c)) /\ AllPass(Tail(c))
<1>1. /\ Head(c) \in S /\ Tail(c) \in Seq(S) /\ c = <<Head(c)>> \o Tail(c) /\ <<Head(c)>> \in Seq(S)
      /\ Head(c) = c[1] /\ Len(c) = Len(Tail(c)) + 1 /\ Len(Tail(c)) \in Nat
      /\ \A j \in 1 .. Len(Tail(c)) : Tail(c)[j] = c[j + 1]
  OBVIOUS
<1>2. StepSize(Head(c)) \in Nat
  BY <1>1
<1>3. Weight(c) = StepSize(Head(c)) + Weight(Tail(c)) /\ Weight(Tail(c)) \in Nat
  BY <1>1, <1>2, WeightConcat, WeightOne
<1>4. ASSUME AllPass(c) PROVE StepOK(Head(c)) /\ AllPass(Tail(c))
  <2>1. 1 \in 1 .. Len(c) /\ \A j \in 1 .. Len(Tail(c)) : j + 1 \in 1 .. Len(c)
    BY <1>1
  <2> QED BY <1>1, <1>4, <2>1 DEF AllPass
<1>5. ASSUME StepOK(Head(c)), AllPass(Tail(c)) PROVE AllPass(c)
  <2>1. SUFFICES ASSUME NEW j \in 1 .. Len(c) PROVE StepOK(c[j])
    BY DEF AllPass
  <2>2. CASE j = 1
    BY <1>1, <1>5, <2>2
  <2>3. CASE j # 1
    <3>1. j - 1 \in 1 .. Len(Tail(c)) /\ (j - 1) + 1 = j
      BY <1>1, <2>3
    <3>2. Tail(c)[j - 1] = c[j]
      BY <1>1, <3>1
    <3> QED BY <1>5, <3>1, <3>2 DEF AllPass
  <2> QED BY <2>2, <2>3
<1> QED BY <1>2, <1>3, <1>4, <1>5

\* Short lists.
LEMMA WeightShort ==
    ASSUME NEW a, StepSize(a) \in Nat, NEW b, StepSize(b) \in Nat
    PROVE  /\ Weight(<<a, b>>) = StepSize(a) + StepSize(b)
           /\ AllPass(<<>>)
           /\ AllPass(<<a>>) <=> StepOK(a)
           /\ AllPass(<<a, b>>) <=> StepOK(a) /\ StepOK(b)
<1> DEFINE S == {a, b}
<1>1. <<a>> \in Seq(S) /\ <<b>> \in Seq(S) /\ <<a, b>> = <<a>> \o <<b>>
  OBVIOUS
<1>2. \A s \in S : StepSize(s) \in Nat
  OBVIOUS
<1> HIDE DEF S
<1>3. Weight(<<a>> \o <<b>>) = Weight(<<a>>) + Weight(<<b>>)
  BY <1>1, <1>2, WeightConcat
<1>4. Weight(<<a, b>>) = StepSize(a) + StepSize(b)
  BY <1>1, <1>3, WeightOne
<1>5. AllPass(<<>>)
  BY DEF AllPass
<1>6. AllPass(<<a>>) <=> StepOK(a)
  <2>1. Len(<<a>>) = 1 /\ <<a>>[1] = a /\ \A j \in 1 .. 1 : j = 1
    OBVIOUS
  <2> QED BY <2>1 DEF AllPass
<1>7. AllPass(<<a, b>>) <=> StepOK(a) /\ StepOK(b)
  <2>1. Len(<<a, b>>) = 2 /\ <<a, b>>[1] = a /\ <<a, b>>[2] = b /\ \A j \in 1 .. 2 : j = 1 \/ j = 2
    OBVIOUS
  <2> QED BY <2>1 DEF AllPass
<1> QED BY <1>4, <1>5, <1>6, <1>7

LEMMA PassConcat ==
    ASSUME NEW S, NEW c \in Seq(S), NEW d \in Seq(S)
    PROVE  AllPass(c \o d) <=> AllPass(c) /\ AllPass(d)
<1> DEFINE u == c \o d
<1>1. /\ Len(u) = Len(c) + Len(d) /\ Len(c) \in Nat /\ Len(d) \in Nat
      /\ \A i \in 1 .. Len(c) + Len(d) : u[i] = IF i <= Len(c) THEN c[i] ELSE d[i - Len(c)]
  BY ConcatIs
<1> HIDE DEF u
<1>2. ASSUME AllPass(u) PROVE AllPass(c) /\ AllPass(d)
  <2>1. ASSUME NEW i \in 1 .. Len(c) PROVE StepOK(c[i])
    <3>1. i \in 1 .. Len(u) /\ u[i] = c[i]
      BY <1>1
    <3> QED BY <1>2, <3>1 DEF AllPass
  <2>2. ASSUME NEW i \in 1 .. Len(d) PROVE StepOK(d[i])
    <3>1. Len(c) + i \in 1 .. Len(u) /\ Len(c) + i \in 1 .. Len(c) + Len(d)
          /\ (Len(c) + i) - Len(c) = i /\ ~(Len(c) + i <= Len(c))
      BY <1>1
    <3>2. u[Len(c) + i] = d[i]
      BY <1>1, <3>1
    <3> QED BY <1>2, <3>1, <3>2 DEF AllPass
  <2> QED BY <2>1, <2>2 DEF AllPass
<1>3. ASSUME AllPass(c), AllPass(d) PROVE AllPass(u)
  <2>1. SUFFICES ASSUME NEW i \in 1 .. Len(u) PROVE StepOK(u[i])
    BY DEF AllPass
  <2>2. CASE i <= Len(c)
    <3>1. i \in 1 .. Len(c) /\ u[i] = c[i]
      BY <1>1, <2>2
    <3> QED BY <1>3, <3>1 DEF AllPass
  <2>3. CASE ~(i <= Len(c))
    <3>1. i - Len(c) \in 1 .. Len(d) /\ u[i] = d[i - Len(c)]
      BY <1>1, <2>3
    <3> QED BY <1>3, <3>1 DEF AllPass
  <2> QED BY <2>2, <2>3
<1> QED BY <1>2, <1>3 DEF u

\* The same numbers, taken by twos.
LEMMA SumPairs ==
    ASSUME NEW s \in Seq(Nat), NEW t \in Seq(Nat), Len(s) = 2 * Len(t),
           \A i \in 1 .. Len(t) : t[i] = s[2 * i - 1] + s[2 * i]
    PROVE  Sum(s) = Sum(t)
<1> DEFINE n == Len(t)
           T == {i \in Nat : i <= n => SumTo(s, 2 * i) = SumTo(t, i)}
<1>0. n \in Nat
  OBVIOUS
<1>1. 0 \in T
  <2>1. SumTo(s, 0) = 0 /\ SumTo(t, 0) = 0 /\ 2 * 0 = 0
    BY SumToIs
  <2> QED BY <2>1
<1>2. ASSUME NEW i \in Nat, i \in T PROVE i + 1 \in T
  <2>1. SUFFICES ASSUME i + 1 <= n PROVE SumTo(s, 2 * (i + 1)) = SumTo(t, i + 1)
    OBVIOUS
  <2> DEFINE k == 2 * i
  <2>2. /\ i + 1 \in 1 .. Len(t) /\ (i + 1) - 1 = i /\ k + 2 = 2 * (i + 1) /\ k + 1 = 2 * (i + 1) - 1
        /\ (k + 1) - 1 = k /\ (k + 2) - 1 = k + 1
        /\ k + 1 \in 1 .. Len(s) /\ k + 2 \in 1 .. Len(s) /\ k \in 0 .. Len(s) /\ i <= n
    BY <1>0, <2>1
  <2>3. SumTo(s, k) = SumTo(t, i)
    BY <1>2, <2>2
  <2> HIDE DEF k
  <2>4. /\ \A m \in 1 .. Len(s) : SumTo(s, m) = SumTo(s, m - 1) + s[m]
        /\ \A m \in 0 .. Len(s) : SumTo(s, m) \in Nat
    BY SumToIs
  <2>5. \A m \in 1 .. Len(t) : SumTo(t, m) = SumTo(t, m - 1) + t[m]
    BY SumToIs
  <2>6. \A m \in 1 .. Len(s) : s[m] \in Nat
    OBVIOUS
  <2>7. SumTo(s, k + 1) = SumTo(s, k) + s[k + 1]
    BY <2>2, <2>4
  <2>8. SumTo(s, k + 2) = SumTo(s, k + 1) + s[k + 2]
    BY <2>2, <2>4
  <2>9. SumTo(t, i + 1) = SumTo(t, i) + t[i + 1]
    BY <2>2, <2>5
  <2>10. t[i + 1] = s[k + 1] + s[k + 2]
    BY <2>2
  <2>11. SumTo(s, k) \in Nat /\ s[k + 1] \in Nat /\ s[k + 2] \in Nat
    BY <2>2, <2>4, <2>6
  <2>13. ASSUME NEW x \in Nat, NEW y \in Nat, NEW z \in Nat PROVE (x + y) + z = x + (y + z)
    OBVIOUS
  <2>14. (SumTo(s, k) + s[k + 1]) + s[k + 2] = SumTo(s, k) + (s[k + 1] + s[k + 2])
    BY <2>11, <2>13
  <2>12. SumTo(s, k + 2) = SumTo(t, i + 1)
    BY <2>3, <2>7, <2>8, <2>9, <2>10, <2>14
  <2> QED BY <2>2, <2>12
<1> HIDE DEF T
<1>3. n \in T
  BY <1>0, <1>1, <1>2, Induct
<1> QED BY <1>3 DEF T, Sum

\* Sizes and success, by name.
LEMMA SizeIs ==
    ASSUME NEW f
    PROVE  /\ f.name \in {"string", "double", "boolean"} => Total(f) = ValueSize(f)
           /\ f.name = "object" => Total(f) = ObjectSize(f.arg)
           /\ f.name = "BlockEncoder" => Total(f) = PacketSize(f.arg) /\ Passes(f) = Encodable(f.arg)
           /\ f.name = "build_basic_header" => Total(f) = f.arg.basic /\ Passes(f) = f.arg.stream
           /\ f.name = "build_message_header" =>
                /\ Total(f) = HeaderSize(f.arg) - f.arg.basic
                /\ Passes(f) = ((f.arg.type = 0 => f.arg.timestamp) /\ (f.arg.type <= 1 => f.arg.message))
           /\ f.name = "build_rtmp_header" => Total(f) = HeaderSize(f.arg) /\ Passes(f) = Acceptable(f.arg)
           /\ f.name \in {"string", "double", "boolean", "object"} => Passes(f)
  BY DEF Total, Passes

LEMMA StepIs ==
    ASSUME NEW s
    PROVE  /\ s.op = "append" => StepSize(s) = s.n /\ StepOK(s)
           /\ s.op \in {"appendOf", "take"} => StepSize(s) = Total(s.f) /\ StepOK(s) = Passes(s.f)
           /\ s.op = "check" => StepSize(s) = 0 /\ StepOK(s) = s.ok
  BY DEF StepSize, StepOK

\* The steps written out.
LEMMA StepMade ==
    /\ \A n \in Nat : StepSize(Append_(n)) = n /\ StepOK(Append_(n))
    /\ \A ok : StepSize(Check(ok)) = 0 /\ StepOK(Check(ok)) = ok
    /\ \A f : StepSize(AppendOf(f)) = Total(f) /\ StepOK(AppendOf(f)) = Passes(f)
    /\ \A f : StepSize(Take(f)) = Total(f) /\ StepOK(Take(f)) = Passes(f)
<1>1. \A n : Append_(n).op = "append" /\ Append_(n).n = n
  BY DEF Append_
<1>2. \A ok : Check(ok).op = "check" /\ Check(ok).ok = ok
  BY DEF Check
<1>3. \A f : AppendOf(f).op = "appendOf" /\ AppendOf(f).f = f /\ Take(f).op = "take" /\ Take(f).f = f
  BY DEF AppendOf, Take
<1>4. \A n \in Nat : StepSize(Append_(n)) = n /\ StepOK(Append_(n))
  BY <1>1, StepIs
<1>5. \A ok : StepSize(Check(ok)) = 0 /\ StepOK(Check(ok)) = ok
  BY <1>2, StepIs
<1>6. \A f : StepSize(AppendOf(f)) = Total(f) /\ StepOK(AppendOf(f)) = Passes(f)
  BY <1>3, StepIs
<1>7. \A f : StepSize(Take(f)) = Total(f) /\ StepOK(Take(f)) = Passes(f)
  BY <1>3, StepIs
<1> QED BY <1>4, <1>5, <1>6, <1>7

\* The code of a function does what its size says.
CodeSized(f) == /\ Total(f) \in Nat
                /\ Weight(Code(f)) = Total(f)
                /\ AllPass(Code(f)) <=> Passes(f)

LEMMA SwappedNat == ASSUME NEW n \in Nat \cup {None} PROVE Swapped(n) \in Nat
  BY DEF Swapped, None

LEMMA SizedString ==
    ASSUME NEW f \in FnType, f.name = "string"
    PROVE  CodeSized(f) /\ Total(f) = StringSize(f.arg)
<1>1. Swapped(f.arg) \in Nat
  BY SwappedNat DEF FnType, Args
<1> DEFINE a == Append_(1)
           b == Append_(2)
           c == Append_(Swapped(f.arg))
           S == {a, b, c}
<1>2. StepSize(a) = 1 /\ StepOK(a) /\ StepSize(b) = 2 /\ StepOK(b)
      /\ StepSize(c) = Swapped(f.arg) /\ StepOK(c)
  BY <1>1, StepMade
<1>3. Code(f) = <<a, b>> \o <<c>>
  BY DEF Code, encodeString
<1>4. Total(f) = StringSize(f.arg) /\ Passes(f)
  BY SizeIs DEF ValueSize
<1> HIDE DEF a, b, c
<1>5. <<a, b>> \in Seq(S) /\ <<c>> \in Seq(S) /\ \A s \in S : StepSize(s) \in Nat
  BY <1>1, <1>2
<1>6. Weight(<<a, b>>) = 1 + 2 /\ AllPass(<<a, b>>)
  <2>1. StepSize(a) \in Nat /\ StepSize(b) \in Nat
    BY <1>2
  <2>2. Weight(<<a, b>>) = StepSize(a) + StepSize(b)
    BY <2>1, WeightShort
  <2>3. AllPass(<<a, b>>)
    BY <1>2, <2>1, WeightShort, Zenon
  <2> QED BY <1>2, <2>2, <2>3
<1>7. Weight(<<c>>) = Swapped(f.arg) /\ AllPass(<<c>>)
  BY <1>1, <1>2, WeightShort, WeightOne
<1>8. Weight(Code(f)) = Weight(<<a, b>>) + Weight(<<c>>)
  BY <1>3, <1>5, WeightConcat
<1>9. AllPass(Code(f))
  BY <1>3, <1>5, <1>6, <1>7, PassConcat
<1> QED BY <1>1, <1>4, <1>6, <1>7, <1>8, <1>9 DEF CodeSized, StringSize

LEMMA SizedDouble ==
    ASSUME NEW f \in FnType, f.name = "double"
    PROVE  CodeSized(f) /\ Total(f) = 9
<1>1. Code(f) = <<Append_(1), Append_(8)>>
  BY DEF Code, encodeDouble
<1>2. StepSize(Append_(1)) = 1 /\ StepOK(Append_(1)) /\ StepSize(Append_(8)) = 8 /\ StepOK(Append_(8))
  BY StepMade
<1> DEFINE a == Append_(1)
           b == Append_(8)
<1> HIDE DEF a, b
<1>3. Weight(Code(f)) = 9 /\ AllPass(Code(f))
  <2>0. StepSize(a) = 1 /\ StepSize(b) = 8 /\ Code(f) = <<a, b>>
    BY <1>1, <1>2 DEF a, b
  <2>1. StepSize(a) \in Nat /\ StepSize(b) \in Nat
    BY <2>0
  <2>2. Weight(<<a, b>>) = StepSize(a) + StepSize(b)
    BY <2>1, WeightShort
  <2>3. AllPass(<<a, b>>)
    BY <1>2, <2>1, WeightShort, Zenon DEF a, b
  <2> QED BY <2>0, <2>2, <2>3
<1>4. Total(f) = 9 /\ Passes(f)
  BY SizeIs DEF ValueSize
<1> QED BY <1>3, <1>4 DEF CodeSized

\* The steps for the values of an object.
Values(o) == [i \in 1 .. 2 * Len(o) |->
                IF i % 2 = 1 THEN AppendOf(Fn("string", o[(i + 1) \div 2].key))
                             ELSE AppendOf(o[i \div 2].encoder)]
ValueSizes(o) == [i \in 1 .. Len(o) |-> StringSize(o[i].key) + ValueSize(o[i].encoder)]

LEMMA ValuesWeight ==
    ASSUME NEW o \in Objects
    PROVE  /\ Weight(Values(o)) = Sum(ValueSizes(o)) /\ Sum(ValueSizes(o)) \in Nat
           /\ \A i \in 1 .. 2 * Len(o) : StepSize(Values(o)[i]) \in Nat /\ StepOK(Values(o)[i])
<1> DEFINE n == Len(o)
           c == Values(o)
           s == SizesOf(c)
           t == ValueSizes(o)
<1>1. n \in Nat /\ \A i \in 1 .. n : o[i].key \in Nat /\ o[i].encoder \in Encoders
  <2>1. ASSUME NEW T, NEW q \in Seq(T), NEW j \in 1 .. Len(q) PROVE q[j] \in T
    OBVIOUS
  <2>2. o \in Seq([key : Nat, encoder : Encoders])
    BY DEF Objects
  <2>3. \A i \in 1 .. n : o[i] \in [key : Nat, encoder : Encoders]
    BY <2>1, <2>2
  <2> QED BY <2>2, <2>3
<1>2. ASSUME NEW k \in Nat
      PROVE  /\ StepSize(AppendOf(Fn("string", k))) = StringSize(k) /\ StringSize(k) \in Nat
             /\ StepOK(AppendOf(Fn("string", k)))
  <2>1. Swapped(k) \in Nat
    BY SwappedNat
  <2>2. Fn("string", k).name = "string" /\ Fn("string", k).arg = k
    BY DEF Fn
  <2>3. Total(Fn("string", k)) = StringSize(k) /\ Passes(Fn("string", k))
    BY <2>2, SizeIs DEF ValueSize
  <2> QED BY <2>1, <2>3, StepMade DEF StringSize
<1>3. ASSUME NEW e \in Encoders
      PROVE  /\ StepSize(AppendOf(e)) = ValueSize(e) /\ ValueSize(e) \in Nat
             /\ StepOK(AppendOf(e))
  <2>1. e.name \in {"string", "double", "boolean"} /\ e.arg \in Nat
    BY DEF Encoders
  <2>2. Swapped(e.arg) \in Nat
    BY <2>1, SwappedNat
  <2>3. Total(e) = ValueSize(e) /\ Passes(e)
    BY <2>1, SizeIs
  <2> QED BY <2>2, <2>3, StepMade DEF ValueSize, StringSize
<1>4. ASSUME NEW i \in 1 .. n
      PROVE  /\ 2 * i - 1 \in 1 .. 2 * n /\ 2 * i \in 1 .. 2 * n
             /\ c[2 * i - 1] = AppendOf(Fn("string", o[i].key))
             /\ c[2 * i] = AppendOf(o[i].encoder)
  <2>1. /\ 2 * i - 1 \in 1 .. 2 * n /\ 2 * i \in 1 .. 2 * n
        /\ (2 * i - 1) % 2 = 1 /\ ((2 * i - 1) + 1) \div 2 = i
        /\ (2 * i) % 2 # 1 /\ (2 * i) \div 2 = i
    BY <1>1
  <2> QED BY <2>1 DEF Values
<1>5. Len(c) = 2 * n
  BY <1>1 DEF Values
<1>6. ASSUME NEW i \in 1 .. 2 * n
      PROVE  \E j \in 1 .. n : i = 2 * j - 1 \/ i = 2 * j
  <2>1. CASE i % 2 = 1
    <3>1. (i + 1) \div 2 \in 1 .. n /\ i = 2 * ((i + 1) \div 2) - 1
      BY <1>1, <2>1
    <3> QED BY <3>1
  <2>2. CASE i % 2 # 1
    <3>1. i \in Nat /\ 1 <= i /\ i <= 2 * n
      BY <1>1
    <3>2. i % 2 = 0
      BY ONLY <2>2, <3>1
    <3>3. i \div 2 \in 1 .. n /\ i = 2 * (i \div 2)
      BY ONLY <1>1, <3>1, <3>2
    <3> QED BY <3>3
  <2> QED BY <2>1, <2>2
<1> HIDE DEF c
<1>7. ASSUME NEW i \in 1 .. n
      PROVE  /\ StepSize(c[2 * i - 1]) = StringSize(o[i].key) /\ StringSize(o[i].key) \in Nat
             /\ StepSize(c[2 * i]) = ValueSize(o[i].encoder) /\ ValueSize(o[i].encoder) \in Nat
             /\ StepOK(c[2 * i - 1]) /\ StepOK(c[2 * i])
  <2>1. o[i].key \in Nat /\ o[i].encoder \in Encoders
    BY <1>1
  <2> QED BY <1>2, <1>3, <1>4, <2>1
<1>8. \A i \in 1 .. 2 * n : StepSize(c[i]) \in Nat /\ StepOK(c[i])
  <2>1. ASSUME NEW i \in 1 .. 2 * n PROVE StepSize(c[i]) \in Nat /\ StepOK(c[i])
    <3>1. PICK j \in 1 .. n : i = 2 * j - 1 \/ i = 2 * j
      BY <1>6
    <3> QED BY <1>7, <3>1
  <2> QED BY <2>1
<1>9. s \in Seq(Nat) /\ Len(s) = 2 * n /\ \A i \in 1 .. 2 * n : s[i] = StepSize(c[i])
  BY <1>1, <1>5, <1>8 DEF SizesOf
<1>10. t \in Seq(Nat) /\ Len(t) = n /\ \A i \in 1 .. n : t[i] = StringSize(o[i].key) + ValueSize(o[i].encoder)
  <2>1. \A i \in 1 .. n : StringSize(o[i].key) + ValueSize(o[i].encoder) \in Nat
    BY <1>7
  <2> QED BY <1>1, <2>1 DEF ValueSizes
<1> HIDE DEF s, t
<1>11. \A i \in 1 .. Len(t) : t[i] = s[2 * i - 1] + s[2 * i]
  BY <1>4, <1>7, <1>9, <1>10
<1>12. Sum(s) = Sum(t)
  BY <1>9, <1>10, <1>11, SumPairs
<1>13. Sum(t) \in Nat
  BY <1>10, SumConcat
<1> QED BY <1>8, <1>12, <1>13 DEF Weight, s, t, c

LEMMA SizedObject ==
    ASSUME NEW f \in FnType, f.name = "object"
    PROVE  CodeSized(f)
<1> DEFINE o == f.arg
           c == Values(o)
           a == Append_(1)
           b == Append_(3)
           S == {a, b} \cup {c[i] : i \in 1 .. 2 * Len(o)}
<1>1. o \in Objects
  BY DEF FnType, Args
<1>2. Code(f) = <<a>> \o c \o <<b>>
  BY DEF Code, encodeObject, Values
<1>3. StepSize(a) = 1 /\ StepOK(a) /\ StepSize(b) = 3 /\ StepOK(b)
  BY StepMade
<1>4. /\ Weight(c) = Sum(ValueSizes(o)) /\ Sum(ValueSizes(o)) \in Nat
      /\ \A i \in 1 .. 2 * Len(o) : StepSize(c[i]) \in Nat /\ StepOK(c[i])
  BY <1>1, ValuesWeight
<1>5. Len(o) \in Nat
  BY <1>1 DEF Objects
<1>6. c \in Seq(S) /\ Len(c) = 2 * Len(o)
  <2>1. c \in [1 .. 2 * Len(o) -> S] /\ 2 * Len(o) \in Nat
    BY <1>5 DEF Values
  <2> HIDE DEF c, S
  <2> QED BY <2>1
<1>7. \A s \in S : StepSize(s) \in Nat
  BY <1>3, <1>4
<1> HIDE DEF a, b, c, o
<1>8. <<a>> \in Seq(S) /\ <<b>> \in Seq(S)
  OBVIOUS
<1> HIDE DEF S
<1>9. <<a>> \o c \in Seq(S)
  BY <1>6, <1>8
<1>10. Weight(<<a>> \o c) = Weight(<<a>>) + Weight(c)
  BY <1>6, <1>7, <1>8, WeightConcat
<1>11. Weight(<<a>> \o c \o <<b>>) = Weight(<<a>> \o c) + Weight(<<b>>)
  BY <1>7, <1>8, <1>9, WeightConcat
<1>12. Weight(<<a>>) = 1 /\ Weight(<<b>>) = 3
  BY <1>3, WeightOne
<1>13. AllPass(c)
  BY <1>4, <1>6 DEF AllPass
<1>14. AllPass(Code(f))
  <2>1. AllPass(<<a>>) /\ AllPass(<<b>>)
    <3>1. StepSize(a) \in Nat /\ StepSize(b) \in Nat
      BY <1>3
    <3> QED BY <1>3, <3>1, WeightShort, Zenon
  <2>2. AllPass(<<a>> \o c)
    BY <1>6, <1>8, <1>13, <2>1, PassConcat
  <2> QED BY <1>2, <1>8, <1>9, <2>1, <2>2, PassConcat
<1>15. ObjectSize(o) = 4 + Sum(ValueSizes(o))
  BY DEF ObjectSize, ValueSizes
<1>16. Total(f) = ObjectSize(o) /\ Passes(f)
  BY SizeIs DEF o
<1>17. Weight(Code(f)) = (1 + Sum(ValueSizes(o))) + 3
  BY <1>2, <1>4, <1>10, <1>11, <1>12
<1> QED BY <1>4, <1>14, <1>15, <1>16, <1>17 DEF CodeSized

LEMMA SizedPacket ==
    ASSUME NEW f \in FnType, f.name = "BlockEncoder"
    PROVE  CodeSized(f)
<1> DEFINE p == f.arg
           q == p.objects
           a == Check(p.command # None)
           b == AppendOf(Fn("string", p.command))
           c == Check(p.transaction_id)
           d == AppendOf(Fn("double", 0))
           step(k) == AppendOf(Fn("object", q[k]))
           rest == [k \in 1 .. Len(q) |-> step(k)]
           sizes == [k \in 1 .. Len(q) |-> ObjectSize(q[k])]
           S == {a, b, c, d} \cup {step(k) : k \in 1 .. Len(q)}
<1>1. p \in Packets
  BY DEF FnType, Args
<1>2. p.command \in Nat \cup {None} /\ p.transaction_id \in BOOLEAN /\ q \in Seq(Objects)
  BY <1>1 DEF Packets
<1>3. Code(f) = <<a, b, c, d>> \o rest
  BY DEF Code, BlockEncoder
<1>4. StepSize(a) = 0 /\ StepSize(c) = 0
  BY StepMade
<1>5. StepOK(a) = (p.command # None) /\ StepOK(c) = p.transaction_id
  BY StepMade, Zenon
<1>6. StepSize(b) = StringSize(p.command) /\ StringSize(p.command) \in Nat /\ StepOK(b)
  <2>1. Fn("string", p.command) \in FnType /\ Fn("string", p.command).name = "string"
        /\ Fn("string", p.command).arg = p.command
    BY <1>2, FnIn DEF Names, Args
  <2>2. Total(Fn("string", p.command)) = StringSize(p.command)
        /\ Total(Fn("string", p.command)) \in Nat /\ Passes(Fn("string", p.command))
    BY <2>1, SizedString, SizeIs DEF CodeSized
  <2> QED BY <2>2, StepMade
<1>7. StepSize(d) = 9 /\ StepOK(d)
  <2>1. Fn("double", 0) \in FnType /\ Fn("double", 0).name = "double"
    BY FnIn DEF Names, Args
  <2>2. Total(Fn("double", 0)) = 9 /\ Passes(Fn("double", 0))
    BY <2>1, SizedDouble, SizeIs
  <2> QED BY <2>2, StepMade
<1>8. Len(q) \in Nat /\ \A k \in 1 .. Len(q) : q[k] \in Objects
  BY <1>2
<1>9. ASSUME NEW k \in 1 .. Len(q)
      PROVE  StepSize(step(k)) = ObjectSize(q[k]) /\ ObjectSize(q[k]) \in Nat /\ StepOK(step(k))
  <2>1. Fn("object", q[k]) \in FnType /\ Fn("object", q[k]).name = "object"
        /\ Fn("object", q[k]).arg = q[k]
    BY <1>8, FnIn DEF Names, Args
  <2>2. Total(Fn("object", q[k])) = ObjectSize(q[k]) /\ Total(Fn("object", q[k])) \in Nat
        /\ Passes(Fn("object", q[k]))
    BY <2>1, SizedObject, SizeIs DEF CodeSized
  <2> QED BY <2>2, StepMade
<1>10. Total(f) = PacketSize(p) /\ PacketSize(p) = StringSize(p.command) + 9 + Sum(sizes)
  BY SizeIs DEF PacketSize
<1>11. Passes(f) = ((p.command # None) /\ p.transaction_id)
  BY SizeIs, Zenon DEF Encodable
<1> HIDE DEF p, q, a, b, c, d, step
<1>12. \A s \in S : StepSize(s) \in Nat
  BY <1>4, <1>6, <1>7, <1>9
<1>13. <<a, b>> \in Seq(S) /\ <<c, d>> \in Seq(S) /\ <<a, b, c, d>> \in Seq(S)
       /\ <<a, b, c, d>> = <<a, b>> \o <<c, d>>
  OBVIOUS
<1>14. rest \in Seq(S) /\ Len(rest) = Len(q)
  <2>1. rest \in [1 .. Len(q) -> S]
    OBVIOUS
  <2> HIDE DEF rest, S
  <2>2. rest \in Seq(S) /\ Len(rest) = Len(q)
    BY <1>8, <2>1
  <2> QED BY <2>2
<1>15. SizesOf(rest) = sizes /\ AllPass(rest)
  <2>1. \A k \in 1 .. Len(q) : rest[k] = step(k)
    OBVIOUS
  <2>2. SizesOf(rest) = [k \in 1 .. Len(q) |-> StepSize(rest[k])]
    BY <1>14 DEF SizesOf
  <2> HIDE DEF rest
  <2>3. \A k \in 1 .. Len(q) : StepSize(rest[k]) = ObjectSize(q[k]) /\ StepOK(rest[k])
    BY <1>9, <2>1
  <2> QED BY <1>14, <2>2, <2>3 DEF AllPass
<1>16. Sum(sizes) \in Nat
  <2>1. sizes \in Seq(Nat)
    BY <1>8, <1>9
  <2> HIDE DEF sizes
  <2> QED BY <2>1, SumConcat
<1> HIDE DEF rest, sizes, S
<1>17. Weight(rest) = Sum(sizes)
  BY <1>15 DEF Weight
<1>18. StepSize(a) \in Nat /\ StepSize(b) \in Nat /\ StepSize(c) \in Nat /\ StepSize(d) \in Nat
  BY <1>4, <1>6, <1>7
<1>19. Weight(<<a, b>>) = StringSize(p.command) /\ Weight(<<c, d>>) = 9
  <2>1. Weight(<<a, b>>) = StepSize(a) + StepSize(b) /\ Weight(<<c, d>>) = StepSize(c) + StepSize(d)
    BY <1>18, WeightShort
  <2> QED BY <1>4, <1>6, <1>7, <2>1
<1>20. Weight(<<a, b, c, d>>) = StringSize(p.command) + 9
  BY <1>12, <1>13, <1>19, WeightConcat
<1>21. Weight(Code(f)) = Weight(<<a, b, c, d>>) + Weight(rest)
  BY <1>3, <1>12, <1>13, <1>14, WeightConcat
<1>22. AllPass(Code(f)) <=> (p.command # None) /\ p.transaction_id
  <2>1. AllPass(<<a, b>>) <=> (p.command # None)
    BY <1>5, <1>6, <1>18, WeightShort, Zenon
  <2>2. AllPass(<<c, d>>) <=> p.transaction_id
    BY <1>5, <1>7, <1>18, WeightShort, Zenon
  <2>3. AllPass(<<a, b, c, d>>) <=> AllPass(<<a, b>>) /\ AllPass(<<c, d>>)
    BY <1>13, PassConcat
  <2>4. AllPass(<<a, b, c, d>> \o rest) <=> AllPass(<<a, b, c, d>>) /\ AllPass(rest)
    BY <1>13, <1>14, PassConcat
  <2> QED BY <1>3, <1>15, <2>1, <2>2, <2>3, <2>4, Zenon
<1>23. AllPass(Code(f)) <=> Passes(f)
  BY <1>11, <1>22, Zenon
<1>24. Weight(Code(f)) = Total(f) /\ Total(f) \in Nat
  BY <1>6, <1>10, <1>16, <1>17, <1>20, <1>21
<1> QED BY <1>23, <1>24 DEF CodeSized

\* The sizes of the headers.
LEMMA HeaderSizes ==
    ASSUME NEW h \in Requests
    PROVE  /\ h.basic \in Nat /\ h.type \in {0, 1, 2, 3}
           /\ h.type = 0 => HeaderSize(h) - h.basic = 11
           /\ h.type = 1 => HeaderSize(h) - h.basic = 8
           /\ h.type = 2 => HeaderSize(h) - h.basic = 4
           /\ h.type = 3 => HeaderSize(h) - h.basic = 0
           /\ HeaderSize(h) = h.basic + (HeaderSize(h) - h.basic)
<1>1. h.basic \in 1 .. 3 /\ h.type \in 0 .. 3
  BY DEF Requests
<1>2. h.basic \in Nat /\ h.type \in {0, 1, 2, 3}
  BY <1>1
<1>3. CASE h.type = 0
  <2>1. HeaderSize(h) = h.basic + 11
    BY <1>3 DEF HeaderSize
  <2> QED BY <1>2, <1>3, <2>1
<1>4. CASE h.type = 1
  <2>1. HeaderSize(h) = h.basic + 8
    BY <1>4 DEF HeaderSize
  <2> QED BY <1>2, <1>4, <2>1
<1>5. CASE h.type = 2
  <2>1. HeaderSize(h) = h.basic + 4
    BY <1>5 DEF HeaderSize
  <2> QED BY <1>2, <1>5, <2>1
<1>6. CASE h.type = 3
  <2>1. HeaderSize(h) = h.basic + 0
    BY <1>6 DEF HeaderSize
  <2> QED BY <1>2, <1>6, <2>1
<1> QED BY <1>2, <1>3, <1>4, <1>5, <1>6

LEMMA SizedBasic ==
    ASSUME NEW f \in FnType, f.name = "build_basic_header"
    PROVE  CodeSized(f)
<1> DEFINE h == f.arg
           a == Check(h.stream)
           b == Append_(h.basic)
<1>1. h \in Requests
  BY DEF FnType, Args
<1>2. h.basic \in Nat
  BY <1>1, HeaderSizes
<1>3. Code(f) = <<a, b>>
  BY DEF Code, BasicHeader
<1>4. StepSize(a) = 0 /\ StepSize(b) = h.basic
  BY <1>2, StepMade
<1>5. StepOK(a) = h.stream /\ StepOK(b)
  BY <1>2, StepMade, Zenon
<1>6. Total(f) = h.basic /\ Passes(f) = h.stream
  BY SizeIs
<1> HIDE DEF h, a, b
<1>7. StepSize(a) \in Nat /\ StepSize(b) \in Nat
  BY <1>2, <1>4
<1>8. Weight(<<a, b>>) = StepSize(a) + StepSize(b)
  BY <1>7, WeightShort
<1>9. AllPass(<<a, b>>) <=> Passes(f)
  BY <1>5, <1>6, <1>7, WeightShort, Zenon
<1> QED BY <1>2, <1>3, <1>4, <1>6, <1>8, <1>9 DEF CodeSized

LEMMA SizedMessage ==
    ASSUME NEW f \in FnType, f.name = "build_message_header"
    PROVE  CodeSized(f)
<1> DEFINE h == f.arg
           a == Check(h.timestamp)
           b == Append_(3)
           c == Check(h.message)
           d == Append_(1)
           e == Append_(4)
           S == {a, b, c, d, e}
           time == IF h.type = 0 THEN <<a, b>> ELSE <<>>
           message == IF h.type <= 1 THEN <<c, b, d>> ELSE <<>>
           stream == IF h.type <= 2 THEN <<e>> ELSE <<>>
<1>1. h \in Requests
  BY DEF FnType, Args
<1>2. h.type \in {0, 1, 2, 3}
  BY <1>1, HeaderSizes
<1>3. Code(f) = time \o message \o stream
  BY DEF Code, MessageHeader
<1>4. StepSize(a) = 0 /\ StepSize(b) = 3 /\ StepSize(c) = 0 /\ StepSize(d) = 1 /\ StepSize(e) = 4
  BY StepMade
<1>5. /\ StepOK(a) = h.timestamp /\ StepOK(c) = h.message
      /\ StepOK(b) /\ StepOK(d) /\ StepOK(e)
  <2>1. 3 \in Nat /\ 1 \in Nat /\ 4 \in Nat
    OBVIOUS
  <2> QED BY <2>1, StepMade, Zenon
<1>6. /\ Total(f) = HeaderSize(h) - h.basic
      /\ Passes(f) = ((h.type = 0 => h.timestamp) /\ (h.type <= 1 => h.message))
  BY SizeIs, Zenon
<1> HIDE DEF a, b, c, d, e, h
<1>7. \A s \in S : StepSize(s) \in Nat
  BY <1>4
<1>8. <<>> \in Seq(S) /\ <<a, b>> \in Seq(S) /\ <<c>> \in Seq(S) /\ <<b, d>> \in Seq(S)
      /\ <<e>> \in Seq(S) /\ <<c, b, d>> = <<c>> \o <<b, d>> /\ <<c, b, d>> \in Seq(S)
  OBVIOUS
<1>9. a \in S /\ b \in S /\ c \in S /\ d \in S /\ e \in S
  OBVIOUS
<1> HIDE DEF S
<1>10. Weight(<<>>) = 0 /\ Weight(<<a, b>>) = 3 /\ Weight(<<c, b, d>>) = 4 /\ Weight(<<e>>) = 4
  <2>1. Weight(<<a, b>>) = StepSize(a) + StepSize(b) /\ Weight(<<b, d>>) = StepSize(b) + StepSize(d)
    BY <1>7, <1>9, WeightShort
  <2>2. Weight(<<>>) = 0 /\ Weight(<<c>>) = StepSize(c) /\ Weight(<<e>>) = StepSize(e)
    BY <1>7, <1>9, WeightOne
  <2>3. Weight(<<c, b, d>>) = Weight(<<c>>) + Weight(<<b, d>>)
    BY <1>7, <1>8, WeightConcat
  <2> QED BY <1>4, <2>1, <2>2, <2>3
<1>11. /\ AllPass(<<>>) /\ (AllPass(<<a, b>>) <=> h.timestamp)
       /\ (AllPass(<<c, b, d>>) <=> h.message) /\ AllPass(<<e>>)
  <2>1. AllPass(<<b, d>>)
    BY <1>5, <1>7, <1>9, WeightShort, Zenon
  <2>2. AllPass(<<c>>) <=> h.message
    BY <1>5, <1>7, <1>9, WeightShort, Zenon
  <2>3. AllPass(<<c, b, d>>) <=> AllPass(<<c>>) /\ AllPass(<<b, d>>)
    BY <1>8, PassConcat
  <2>4. AllPass(<<>>) /\ (AllPass(<<a, b>>) <=> h.timestamp) /\ AllPass(<<e>>)
    BY <1>5, <1>7, <1>9, WeightShort, Zenon
  <2> QED BY <2>1, <2>2, <2>3, <2>4, Zenon
<1>12. time \in Seq(S) /\ message \in Seq(S) /\ stream \in Seq(S)
  BY <1>8
<1>13. /\ Weight(time) = IF h.type = 0 THEN 3 ELSE 0
       /\ Weight(message) = IF h.type <= 1 THEN 4 ELSE 0
       /\ Weight(stream) = IF h.type <= 2 THEN 4 ELSE 0
  BY <1>10
<1>14. AllPass(time) <=> (h.type = 0 => h.timestamp)
  BY <1>11, Zenon
<1>15. AllPass(message) <=> (h.type <= 1 => h.message)
  BY <1>11, Zenon
<1>16. AllPass(stream)
  BY <1>11, Zenon
<1> HIDE DEF time, message, stream
<1>17. time \o message \in Seq(S)
  BY <1>12
<1>18. Weight(Code(f)) = Weight(time) + Weight(message) + Weight(stream)
  <2>1. Weight(time \o message) = Weight(time) + Weight(message)
    BY <1>7, <1>12, WeightConcat
  <2>2. Weight((time \o message) \o stream) = Weight(time \o message) + Weight(stream)
    BY <1>7, <1>12, <1>17, WeightConcat
  <2> QED BY <1>3, <2>1, <2>2
<1>19. AllPass(Code(f)) <=> Passes(f)
  <2>1. AllPass(time \o message) <=> AllPass(time) /\ AllPass(message)
    BY <1>12, PassConcat
  <2>2. AllPass((time \o message) \o stream) <=> AllPass(time \o message) /\ AllPass(stream)
    BY <1>12, <1>17, PassConcat
  <2> QED BY <1>3, <1>6, <1>14, <1>15, <1>16, <2>1, <2>2, Zenon
<1>20. Weight(Code(f)) = HeaderSize(h) - h.basic /\ HeaderSize(h) - h.basic \in Nat
  <2>1. CASE h.type = 0
    BY <1>1, <1>13, <1>18, <2>1, HeaderSizes
  <2>2. CASE h.type = 1
    BY <1>1, <1>13, <1>18, <2>2, HeaderSizes
  <2>3. CASE h.type = 2
    BY <1>1, <1>13, <1>18, <2>3, HeaderSizes
  <2>4. CASE h.type = 3
    BY <1>1, <1>13, <1>18, <2>4, HeaderSizes
  <2> QED BY <1>2, <2>1, <2>2, <2>3, <2>4
<1> QED BY <1>6, <1>19, <1>20 DEF CodeSized

LEMMA SizedHeader ==
    ASSUME NEW f \in FnType, f.name = "build_rtmp_header"
    PROVE  CodeSized(f)
<1> DEFINE h == f.arg
           first == Fn("build_basic_header", h)
           second == Fn("build_message_header", h)
           a == Take(first)
           b == AppendOf(second)
<1>1. h \in Requests
  BY DEF FnType, Args
<1>2. Code(f) = <<a, b>>
  BY DEF Code, Header
<1>3. /\ first \in FnType /\ first.name = "build_basic_header" /\ first.arg = h
      /\ second \in FnType /\ second.name = "build_message_header" /\ second.arg = h
  BY <1>1, FnIn DEF Names, Args
<1> HIDE DEF h, first, second
<1>4. Total(first) = h.basic /\ Total(second) = HeaderSize(h) - h.basic
      /\ Total(first) \in Nat /\ Total(second) \in Nat
  BY <1>3, SizeIs, SizedBasic, SizedMessage DEF CodeSized
<1>5. /\ Passes(first) = h.stream
      /\ Passes(second) = ((h.type = 0 => h.timestamp) /\ (h.type <= 1 => h.message))
  BY <1>3, SizeIs, Zenon
<1>6. StepSize(a) = Total(first) /\ StepSize(b) = Total(second)
  BY StepMade
<1>7. StepOK(a) = Passes(first) /\ StepOK(b) = Passes(second)
  BY StepMade, Zenon
<1> HIDE DEF a, b
<1>8. Total(f) = HeaderSize(h)
  BY SizeIs DEF h
<1>9. Passes(f) = (h.stream /\ (h.type = 0 => h.timestamp) /\ (h.type <= 1 => h.message))
  BY SizeIs, Zenon DEF h, Acceptable
<1>10. StepSize(a) \in Nat /\ StepSize(b) \in Nat
  BY <1>4, <1>6
<1>11. Weight(<<a, b>>) = StepSize(a) + StepSize(b)
  BY <1>10, WeightShort
<1>12. AllPass(<<a, b>>) <=> StepOK(a) /\ StepOK(b)
  BY <1>10, WeightShort, Zenon
<1>13. HeaderSize(h) = h.basic + (HeaderSize(h) - h.basic)
  BY <1>1, HeaderSizes
<1>14. Weight(Code(f)) = Total(f) /\ Total(f) \in Nat
  BY <1>2, <1>4, <1>6, <1>8, <1>11, <1>13
<1>15. AllPass(Code(f)) <=> Passes(f)
  BY <1>2, <1>5, <1>7, <1>9, <1>12, Zenon
<1> QED BY <1>14, <1>15 DEF CodeSized

LEMMA SizedCode == ASSUME NEW f \in FnType, f.name \in Sized PROVE CodeSized(f)
  BY SizedString, SizedDouble, SizedObject, SizedPacket, SizedBasic, SizedMessage, SizedHeader DEF Sized

LEMMA TotalType ==
    ASSUME NEW f \in FnType, f.name \in Sized \cup {"boolean"}
    PROVE  Total(f) \in Nat
<1>1. CASE f.name \in Sized
  BY <1>1, SizedCode DEF CodeSized
<1>2. CASE f.name = "boolean"
  <2>1. f.arg \in Nat
    BY <1>2 DEF FnType, Args
  <2>2. Swapped(f.arg) \in Nat
    BY <2>1, SwappedNat
  <2>3. Total(f) = 3 + Swapped(f.arg)
    BY <1>2, SizeIs DEF ValueSize, StringSize
  <2> QED BY <2>2, <2>3
<1> QED BY <1>1, <1>2

\* The steps of these functions have sizes, and call only these functions.
LEMMA SizedSteps ==
    ASSUME NEW name \in Sized, NEW s \in Steps(name)
    PROVE  /\ StepSize(s) \in Nat
           /\ s.op \in {"append", "check", "appendOf", "take"}
           /\ s.op \in {"appendOf", "take"} =>
                /\ s.f.name \in Sized \cup {"boolean"}
                /\ s.f.name \notin {"BlockEncoder", "build_rtmp_header"}
<1> DEFINE callees == {"string", "double", "boolean", "object", "build_basic_header", "build_message_header"}
<1>1. \/ s \in Appends \/ s \in Checks
      \/ \E op \in {"appendOf", "take"} : s \in Calling(op, callees)
  <2>1. CASE name \in {"string", "double"}
    BY <2>1 DEF Steps
  <2>2. CASE name \in {"build_basic_header", "build_message_header"}
    BY <2>2 DEF Steps
  <2>3. CASE name = "object"
    BY <2>3 DEF Steps, Calling
  <2>4. CASE name = "BlockEncoder"
    BY <2>4 DEF Steps, Calling
  <2>5. CASE name = "build_rtmp_header"
    BY <2>5 DEF Steps, Calling
  <2> QED BY <2>1, <2>2, <2>3, <2>4, <2>5 DEF Sized
<1>2. CASE s \in Appends
  <2>1. s.op = "append" /\ s.n \in Nat
    BY <1>2, Ops
  <2> QED BY <2>1, StepIs
<1>3. CASE s \in Checks
  <2>1. s.op = "check"
    BY <1>3, Ops
  <2>2. StepSize(s) = 0
    BY <2>1, StepIs
  <2> QED BY <2>1, <2>2
<1>4. CASE \E op \in {"appendOf", "take"} : s \in Calling(op, callees)
  <2>1. s.op \in {"appendOf", "take"} /\ s.f \in FnType /\ s.f.name \in callees
    BY <1>4, Ops
  <2>2. s.f.name \in Sized \cup {"boolean"} /\ s.f.name \notin {"BlockEncoder", "build_rtmp_header"}
    BY <2>1 DEF Sized
  <2>3. StepSize(s) = Total(s.f)
    BY <2>1, StepIs
  <2> QED BY <2>1, <2>2, <2>3, TotalType
<1> QED BY <1>1, <1>2, <1>3, <1>4

-----------------------------------------------------------------------------
(* The sizes of the calls under way.                                       *)

\* What the k-th call was asked.
FnAt(first, fs, k) == IF k = 1 THEN first ELSE Head(fs[k - 1].code).f

\* A call that an exception ended has nothing and failed; any other has, with
\* what is left to do, the size of its result, and fails if a step left does.
Stopped(fr, f) == /\ fr.name \in {"BlockEncoder", "build_rtmp_header"}
                  /\ fr.code = <<>> /\ fr.buffer = NoBuffer /\ ~Passes(f)
Growing(fr, f) == /\ fr.buffer.ini = NoCell => fr.buffer.size = 0
                  /\ fr.buffer.size + Weight(fr.code) = Total(f)
                  /\ AllPass(fr.code) <=> Passes(f)
FrameSized(fr, f) == Stopped(fr, f) \/ Growing(fr, f)

SizedAt(first, fs, k) ==
    /\ fs[k].name = FnAt(first, fs, k).name
    /\ fs[k].name \in Sized => FrameSized(fs[k], FnAt(first, fs, k))

SizeInv ==
    /\ call \in FnType
    /\ \A k \in 1 .. Len(frames) : SizedAt(call, frames, k)
    /\ status = "done" /\ call.name \in Sized =>
         result.size = IF Passes(call) THEN Total(call) ELSE 0

\* A call begins with all of it to do.
LEMMA SizedFrame ==
    ASSUME NEW f \in FnType
    PROVE  /\ Frame(f).name = f.name
           /\ f.name \in Sized => FrameSized(Frame(f), f)
<1>1. Frame(f).name = f.name /\ Frame(f).code = Code(f) /\ Frame(f).buffer = NoBuffer
  BY DEF Frame
<1>2. ASSUME f.name \in Sized PROVE Growing(Frame(f), f)
  <2>1. Total(f) \in Nat /\ Weight(Code(f)) = Total(f) /\ (AllPass(Code(f)) <=> Passes(f))
    BY <1>2, SizedCode DEF CodeSized
  <2>2. NoBuffer.size + Weight(Code(f)) = Total(f)
    BY <2>1, NoBufferOK
  <2> QED BY <1>1, <2>1, <2>2, NoBufferOK DEF Growing
<1> QED BY <1>1, <1>2 DEF FrameSized

\* A step done moves its size to the Buffer.
LEMMA SizedDone ==
    ASSUME NEW fr, FrameOK(fr), fr.name \in Sized, fr.code # <<>>, NEW f, FrameSized(fr, f),
           NEW b \in BufferType, b.size = fr.buffer.size + StepSize(Head(fr.code)),
           b.ini = NoCell => b.size = 0, StepOK(Head(fr.code))
    PROVE  FrameSized(Done(fr, b), f)
<1>1. /\ fr \in FrameType /\ fr.buffer \in BufferType /\ fr.code \in Seq(Steps(fr.name))
      /\ Head(fr.code) \in Steps(fr.name)
  BY FrameParts
<1>2. \A s \in Steps(fr.name) : StepSize(s) \in Nat
  BY SizedSteps
<1>3. /\ StepSize(Head(fr.code)) \in Nat /\ Weight(Tail(fr.code)) \in Nat
      /\ Weight(fr.code) = StepSize(Head(fr.code)) + Weight(Tail(fr.code))
      /\ AllPass(fr.code) <=> StepOK(Head(fr.code)) /\ AllPass(Tail(fr.code))
  BY <1>1, <1>2, WeightTail
<1>4. Growing(fr, f)
  BY DEF FrameSized, Stopped
<1> DEFINE d == Done(fr, b)
<1>5. d.code = Tail(fr.code) /\ d.buffer = b
  BY <1>1 DEF Done, FrameType
<1>6. fr.buffer.size \in Nat
  BY <1>1 DEF BufferType
<1> HIDE DEF d
<1>7. d.buffer.size + Weight(d.code) = Total(f)
  BY <1>3, <1>4, <1>5, <1>6 DEF Growing
<1>8. AllPass(d.code) <=> Passes(f)
  BY <1>3, <1>4, <1>5, Zenon DEF Growing
<1>9. d.buffer.ini = NoCell => d.buffer.size = 0
  BY <1>5
<1> QED BY <1>7, <1>8, <1>9 DEF Growing, FrameSized, d

\* The n-th call goes on.
LEMMA SizeUpto ==
    ASSUME Inv, SizeInv, NEW n \in 1 .. Len(frames), NEW fr, fr \in FrameType, fr.name = frames[n].name,
           frames' = Upto(frames, n, fr), UNCHANGED <<call, status, result>>,
           fr.name \in Sized => FrameSized(fr, FnAt(call, frames, n))
    PROVE  SizeInv'
<1>1. frames \in Seq(FrameType) /\ Len(frames) \in Nat /\ n \in 1 .. Len(frames) + 1
  BY DEF Inv, StackOK
<1> DEFINE gs == Upto(frames, n, fr)
<1>2. /\ gs \in Seq(FrameType) /\ Len(gs) = n /\ gs[n] = fr
      /\ \A i \in 1 .. n - 1 : gs[i] = frames[i]
  <2>1. fr \in FrameType
    OBVIOUS
  <2> QED BY ONLY <1>1, <2>1, UptoIs
<1> HIDE DEF gs
<1>3. ASSUME NEW k \in 1 .. n PROVE FnAt(call, gs, k) = FnAt(call, frames, k)
  <2>1. CASE k = 1
    BY <2>1 DEF FnAt
  <2>2. CASE k # 1
    <3>1. k - 1 \in 1 .. n - 1
      BY <1>1, <2>2
    <3> QED BY <1>2, <2>2, <3>1 DEF FnAt
  <2> QED BY <2>1, <2>2
<1>4. \A k \in 1 .. n : SizedAt(call, gs, k)
  <2>1. SUFFICES ASSUME NEW k \in 1 .. n PROVE SizedAt(call, gs, k)
    OBVIOUS
  <2>2. k \in 1 .. Len(frames) /\ (k # n => k \in 1 .. n - 1)
    BY <1>1
  <2>3. SizedAt(call, frames, k)
    BY <2>2 DEF SizeInv
  <2>4. CASE k = n
    BY <1>2, <1>3, <2>3, <2>4 DEF SizedAt
  <2>5. CASE k # n
    BY <1>2, <1>3, <2>2, <2>3, <2>5 DEF SizedAt
  <2> QED BY <2>4, <2>5
<1>5. /\ frames' = gs /\ call' = call /\ status' = status /\ result' = result
  BY DEF gs
<1> QED BY <1>2, <1>4, <1>5 DEF SizeInv

\* It holds at the beginning.
LEMMA SizeInit == Init => SizeInv
<1> SUFFICES ASSUME Init PROVE SizeInv
  OBVIOUS
<1>1. call \in FnType
  BY CallsOK DEF Init
<1>2. Len(frames) = 1 /\ frames[1] = Frame(call) /\ status = "running"
  BY DEF Init
<1>3. FnAt(call, frames, 1) = call
  BY DEF FnAt
<1>4. SizedAt(call, frames, 1)
  BY <1>1, <1>2, <1>3, SizedFrame DEF SizedAt
<1> QED BY <1>1, <1>2, <1>4 DEF SizeInv

\* The innermost call does a step of its own.
LEMMA SizeOwn ==
    ASSUME Inv, SizeInv, status = "running", frames # <<>>, Top.code # <<>>,
           NEW b \in BufferType, frames' = Append(Callers, Done(Top, b)),
           UNCHANGED <<call, status, result>>, Done(Top, b) \in FrameType,
           Top.name \in Sized =>
             /\ b.size = Top.buffer.size + StepSize(Head(Top.code))
             /\ b.ini = NoCell => b.size = 0
             /\ StepOK(Head(Top.code))
    PROVE  SizeInv'
<1> DEFINE n == Len(frames)
           fr == Done(Top, b)
<1>1. n \in 1 .. n /\ Top = frames[n] /\ FrameOK(Top) /\ frames' = Upto(frames, n, fr)
  BY TopIs
<1>2. fr.name = Top.name
  <2>1. Top \in FrameType
    BY <1>1 DEF FrameOK
  <2> QED BY <2>1 DEF Done, FrameType
<1>3. SizedAt(call, frames, n)
  BY <1>1 DEF SizeInv
<1>4. Top.name \in Sized => FrameSized(fr, FnAt(call, frames, n))
  BY <1>1, <1>3, SizedDone DEF SizedAt
<1> HIDE DEF fr, n
<1>5. fr \in FrameType
  BY DEF fr
<1> QED BY <1>1, <1>2, <1>4, <1>5, SizeUpto DEF n

LEMMA SizeAppendBytes == Inv /\ SizeInv /\ AppendBytes => SizeInv'
<1> SUFFICES ASSUME Inv, SizeInv, AppendBytes PROVE SizeInv'
  OBVIOUS
<1> DEFINE m == Head(Top.code).n
<1>1. PICK cell \in Reallocs(Top.buffer) :
        frames' = Append(Callers, Done(Top, Grown(Top.buffer, cell, m)))
  BY DEF AppendBytes
<1>2. /\ frames # <<>> /\ status = "running" /\ Top.code # <<>> /\ Head(Top.code).op = "append"
      /\ Top.buffer.ini # Local /\ UNCHANGED <<call, status, result>>
  BY DEF AppendBytes, At
<1>3. FrameOK(Top)
  BY <1>2, TopIs
<1>4. m \in Nat /\ Top.name # "boolean"
  BY <1>2, <1>3, StepsOf
<1> DEFINE b == Grown(Top.buffer, cell, m)
<1>5. b \in BufferType /\ b.ini # NoCell /\ b.ini # Local /\ b.size = Top.buffer.size + m
  <2>1. Top.buffer \in BufferType
    BY <1>3, FrameParts
  <2>2. cell \in Cells
    BY <1>2, <2>1 DEF Reallocs, BufferType
  <2> QED BY <1>4, <2>1, <2>2, BuffersAssumption DEF Grown, BufferAt, BufferType
<1>6. Done(Top, b) \in FrameType
  BY <1>2, <1>3, <1>4, <1>5, DoneOK DEF FrameOK
<1>7. StepSize(Head(Top.code)) = m /\ StepOK(Head(Top.code))
  BY <1>2, StepIs
<1> HIDE DEF b, m
<1>8. frames' = Append(Callers, Done(Top, b))
  BY <1>1 DEF b, m
<1> QED BY <1>2, <1>5, <1>6, <1>7, <1>8, SizeOwn

LEMMA SizeCheckPasses == Inv /\ SizeInv /\ CheckPasses => SizeInv'
<1> SUFFICES ASSUME Inv, SizeInv, CheckPasses PROVE SizeInv'
  OBVIOUS
<1>1. /\ frames # <<>> /\ status = "running" /\ Top.code # <<>> /\ Head(Top.code).op = "check"
      /\ Head(Top.code).ok /\ frames' = Append(Callers, Done(Top, Top.buffer))
      /\ UNCHANGED <<call, status, result>>
  BY DEF CheckPasses, At
<1>2. FrameOK(Top) /\ Len(frames) \in 1 .. Len(frames) /\ Top = frames[Len(frames)]
  BY <1>1, TopIs
<1>3. Top.name # "boolean" /\ Top.buffer \in BufferType
  BY <1>1, <1>2, StepsOf, FrameParts
<1>4. Top.buffer.ini # Local
  BY <1>2, <1>3 DEF FrameOK, Ordered
<1>5. Done(Top, Top.buffer) \in FrameType
  BY <1>1, <1>2, <1>3, <1>4, DoneOK DEF FrameOK
<1>6. StepSize(Head(Top.code)) = 0
  BY <1>1, StepIs
<1>7. StepOK(Head(Top.code))
  BY <1>1, StepIs, Zenon
<1>8. Top.name \in Sized /\ Top.buffer.ini = NoCell => Top.buffer.size = 0
  <2>1. SizedAt(call, frames, Len(frames))
    BY <1>2 DEF SizeInv
  <2> QED BY <1>1, <1>2, <2>1 DEF SizedAt, FrameSized, Growing, Stopped
<1>9. Top.buffer.size \in Nat
  BY <1>3 DEF BufferType
<1>10. Top.buffer.size = Top.buffer.size + StepSize(Head(Top.code))
  BY <1>6, <1>9
<1> QED BY <1>1, <1>3, <1>5, <1>7, <1>8, <1>10, SizeOwn

\* The functions of the others are not among those with a size.
LEMMA SizeOther ==
    ASSUME Inv, SizeInv, status = "running", frames # <<>>, Top.code # <<>>,
           NEW b \in BufferType, frames' = Append(Callers, Done(Top, b)),
           UNCHANGED <<call, status, result>>, Done(Top, b) \in FrameType,
           Top.name \notin Sized
    PROVE  SizeInv'
  BY SizeOwn

LEMMA SizeMakeLocal == Inv /\ SizeInv /\ MakeLocal => SizeInv'
<1> SUFFICES ASSUME Inv, SizeInv, MakeLocal PROVE SizeInv'
  OBVIOUS
<1> DEFINE b == BufferAt(Local, 1)
<1>1. /\ frames # <<>> /\ status = "running" /\ Top.code # <<>> /\ Head(Top.code).op = "local"
      /\ frames' = Append(Callers, Done(Top, b)) /\ UNCHANGED <<call, status, result>>
  BY DEF MakeLocal, At
<1>2. FrameOK(Top)
  BY <1>1, TopIs
<1>3. Top.name = "boolean"
  BY <1>1, <1>2, StepsOf
<1>4. b \in BufferType /\ b.ini = Local
  BY DEF BufferAt, BufferType
<1>5. Done(Top, b) \in FrameType
  BY <1>1, <1>2, <1>3, <1>4, DoneOK, BuffersAssumption DEF FrameOK
<1>6. Top.name \notin Sized
  BY <1>3 DEF Sized
<1> HIDE DEF b
<1> QED BY <1>1, <1>4, <1>5, <1>6, SizeOther

LEMMA SizeFreeOrUse == Inv /\ SizeInv /\ (FreeBuffer \/ UseBuffer) => SizeInv'
<1> SUFFICES ASSUME Inv, SizeInv, FreeBuffer \/ UseBuffer PROVE SizeInv'
  OBVIOUS
<1>1. /\ frames # <<>> /\ status = "running" /\ Top.code # <<>> /\ Head(Top.code).op \in {"free", "use"}
      /\ frames' = Append(Callers, Done(Top, Top.buffer)) /\ UNCHANGED <<call, status, result>>
  BY DEF FreeBuffer, UseBuffer, At
<1>2. FrameOK(Top)
  BY <1>1, TopIs
<1>3. Top.name \in {"reply", "result", "receive"}
  BY <1>1, <1>2, StepsOf
<1>6. Top.buffer \in BufferType /\ Top.buffer.ini # Local
  BY <1>2, <1>3, FrameParts DEF FrameOK, Ordered
<1>4. Done(Top, Top.buffer) \in FrameType
  BY <1>1, <1>2, <1>3, <1>6, DoneOK DEF FrameOK
<1>5. Top.name \notin Sized
  BY <1>3 DEF Sized
<1> QED BY <1>1, <1>4, <1>5, <1>6, SizeOther

LEMMA SizeReceive == Inv /\ SizeInv /\ Receive => SizeInv'
<1> SUFFICES ASSUME Inv, SizeInv, Receive PROVE SizeInv'
  OBVIOUS
<1> DEFINE m == Head(Top.code).n
<1>1. /\ frames # <<>> /\ status = "running" /\ Top.code # <<>> /\ Head(Top.code).op = "read"
      /\ m >= 0 /\ UNCHANGED <<call, status, result>>
  BY DEF Receive, At
<1>2. FrameOK(Top)
  BY <1>1, TopIs
<1>3. Top.name = "receive" /\ m \in Nat
  BY <1>1, <1>2, StepsOf
<1>4. PICK b \in BufferType : b.ini # Local /\ frames' = Append(Callers, Done(Top, b))
  <2>1. CASE m = 0
    BY <2>1, NoBufferOK DEF Receive
  <2>2. CASE m # 0
    <3>1. PICK cell \in Cells \ DOMAIN heap : frames' = Append(Callers, Done(Top, BufferAt(cell, m)))
      BY <2>2 DEF Receive
    <3>2. BufferAt(cell, m) \in BufferType /\ BufferAt(cell, m).ini # Local
      BY <1>3, <3>1, BuffersAssumption DEF BufferAt, BufferType
    <3> QED BY <3>1, <3>2
  <2> QED BY <2>1, <2>2
<1>5. Done(Top, b) \in FrameType
  BY <1>1, <1>2, <1>3, <1>4, DoneOK DEF FrameOK
<1>6. Top.name \notin Sized
  BY <1>3 DEF Sized
<1> QED BY <1>1, <1>4, <1>5, <1>6, SizeOther

LEMMA SizeEnter == Inv /\ SizeInv /\ Enter => SizeInv'
<1> SUFFICES ASSUME Inv, SizeInv, Enter PROVE SizeInv'
  OBVIOUS
<1> DEFINE n == Len(frames)
           f == Head(Top.code).f
           gs == Append(frames, Frame(f))
<1>1. frames # <<>> /\ status = "running" /\ Top.code # <<>> /\ Head(Top.code).op \in {"appendOf", "take", "run"}
  BY DEF Enter, At
<1>2. n \in 1 .. n /\ n \in Nat /\ Top = frames[n] /\ FrameOK(Top) /\ frames \in Seq(FrameType)
  BY <1>1, TopIs DEF Inv, StackOK
<1>3. f \in FnType
  BY <1>1, <1>2, StepsOf
<1>4. frames' = gs /\ UNCHANGED <<call, status, result>>
  BY DEF Enter
<1>5. Frame(f) \in FrameType
  BY <1>3, StartOK DEF FrameOK
<1>6. Len(gs) = n + 1 /\ gs[n + 1] = Frame(f) /\ \A i \in 1 .. n : gs[i] = frames[i]
  BY <1>2, <1>5
<1> HIDE DEF f, gs, n
<1>7. ASSUME NEW k \in 1 .. n PROVE SizedAt(call, gs, k)
  <2>1. k = 1 \/ k - 1 \in 1 .. n
    BY <1>2
  <2>2. FnAt(call, gs, k) = FnAt(call, frames, k)
    BY <1>6, <2>1 DEF FnAt
  <2>3. SizedAt(call, frames, k)
    BY DEF SizeInv, n
  <2> QED BY <1>6, <2>2, <2>3 DEF SizedAt
<1>8. SizedAt(call, gs, n + 1)
  <2>1. n + 1 # 1 /\ (n + 1) - 1 = n
    BY <1>2
  <2>2. FnAt(call, gs, n + 1) = f
    BY <1>2, <1>6, <2>1 DEF FnAt, f
  <2> QED BY <1>3, <1>6, <2>2, SizedFrame DEF SizedAt
<1>9. \A k \in 1 .. n + 1 : SizedAt(call, gs, k)
  <2>1. \A k \in 1 .. n + 1 : k = n + 1 \/ k \in 1 .. n
    BY <1>2
  <2> QED BY <1>7, <1>8, <2>1
<1> QED BY <1>1, <1>4, <1>6, <1>9 DEF SizeInv

\* What a call that has come to its end returns.
LEMMA SizeReturned ==
    ASSUME Inv, SizeInv, NEW k \in 1 .. Len(frames), frames[k].code = <<>>,
           frames[k].name \in Sized
    PROVE  LET f == FnAt(call, frames, k)
           IN  /\ frames[k].buffer.size = IF Passes(f) THEN Total(f) ELSE 0
               /\ ~Passes(f) => frames[k].name \in {"BlockEncoder", "build_rtmp_header"}
               /\ frames[k].buffer.ini = NoCell => frames[k].buffer.size = 0
<1> DEFINE f == FnAt(call, frames, k)
           fr == frames[k]
<1>1. FrameSized(fr, f)
  BY DEF SizeInv, SizedAt
<1>2. fr.buffer.size \in Nat
  BY FrameParts DEF Inv, StackOK, BufferType
<1>3. CASE Stopped(fr, f)
  BY <1>3, NoBufferOK DEF Stopped
<1>4. CASE Growing(fr, f)
  <2>1. Weight(<<>>) = 0
    <3>1. SizesOf(<<>>) = <<>>
      BY DEF SizesOf
    <3>2. Sum(<<>>) = 0
      BY SumOne
    <3> QED BY <3>1, <3>2 DEF Weight
  <2>2. AllPass(<<>>)
    BY DEF AllPass
  <2>3. Passes(f)
    BY <1>4, <2>2 DEF Growing
  <2>4. fr.buffer.size = Total(f)
    BY <1>2, <1>4, <2>1 DEF Growing
  <2> QED BY <1>4, <2>3, <2>4 DEF Growing
<1> QED BY <1>1, <1>3, <1>4 DEF FrameSized

LEMMA SizeReturnLast == Inv /\ SizeInv /\ ReturnLast => SizeInv'
<1> SUFFICES ASSUME Inv, SizeInv, ReturnLast PROVE SizeInv'
  OBVIOUS
<1>1. /\ frames # <<>> /\ Top.code = <<>> /\ Len(frames) = 1
      /\ frames' = <<>> /\ call' = call
      /\ Top.name \in Sized => result' = Top.buffer
  BY DEF ReturnLast, AtReturn, Returns, Sized
<1>2. Top = frames[1] /\ 1 \in 1 .. Len(frames)
  BY <1>1, TopIs
<1>3. FnAt(call, frames, 1) = call
  BY DEF FnAt
<1>4. frames[1].name = call.name
  BY <1>2, <1>3 DEF SizeInv, SizedAt
<1>5. call.name \in Sized => result'.size = IF Passes(call) THEN Total(call) ELSE 0
  BY <1>1, <1>2, <1>3, <1>4, SizeReturned
<1>6. Len(<<>>) = 0 /\ 1 .. 0 = {}
  OBVIOUS
<1>7. call' \in FnType
  BY <1>1 DEF SizeInv
<1> QED BY <1>1, <1>5, <1>6, <1>7 DEF SizeInv

LEMMA SizeReturn == Inv /\ SizeInv /\ Return => SizeInv'
<1> SUFFICES ASSUME Inv, SizeInv, Return PROVE SizeInv'
  OBVIOUS
<1> DEFINE n == Len(frames) - 1
           caller == frames[n]
           got == Top.buffer
           step == Head(caller.code)
<1>1. status = "running" /\ frames # <<>> /\ Top.code = <<>> /\ Len(frames) > 1
      /\ UNCHANGED <<call, status, result>>
  BY DEF Return, AtReturn
<1>2. /\ n \in 1 .. Len(frames) /\ n \in Nat /\ n + 1 = Len(frames)
      /\ FrameOK(caller) /\ caller.code # <<>> /\ step.op \in {"appendOf", "take", "run"}
      /\ Top = frames[n + 1] /\ FrameOK(Top) /\ Top.name = step.f.name
      /\ \A fr : Append(SubSeq(frames, 1, Len(frames) - 2), fr) = Upto(frames, n, fr)
  BY <1>1, CallerIs
<1>3. got \in BufferType /\ got.ini # Local
  <2>1. Top.code # encodeBoolean /\ Top.code # <<Append_(1)>>
    BY <1>1 DEF encodeBoolean
  <2> QED BY <1>2, <2>1, FrameParts DEF FrameOK, Ordered
<1>4. caller.buffer \in BufferType /\ caller.name # "boolean"
      /\ step \in Steps(caller.name) /\ caller.name \in Names
  BY <1>2, FrameParts, StepsOf
<1>5. caller.buffer.ini # Local
  BY <1>2, <1>4 DEF FrameOK, Ordered
<1>6. PICK b : /\ frames' = Upto(frames, n, Done(caller, b))
               /\ \/ step.op = "take" /\ b = got
                  \/ step.op = "run" /\ b = caller.buffer
                  \/ step.op = "appendOf" /\ got.ini = NoCell /\ b = caller.buffer
                  \/ /\ step.op = "appendOf" /\ got.ini # NoCell
                     /\ \E cell \in Cells : b = BufferAt(cell, caller.buffer.size + got.size)
  <2>1. CASE step.op = "take" /\ frames' = Upto(frames, n, Done(caller, got))
    BY <2>1
  <2>2. CASE /\ step.op = "run" \/ (step.op = "appendOf" /\ got.ini = NoCell)
             /\ frames' = Upto(frames, n, Done(caller, caller.buffer))
    BY <2>2
  <2>3. CASE /\ step.op = "appendOf" /\ got.ini # NoCell
             /\ \E cell \in Reallocs(caller.buffer) :
                  frames' = Upto(frames, n, Done(caller, Grown(caller.buffer, cell, got.size)))
    <3>1. PICK cell \in Reallocs(caller.buffer) :
             frames' = Upto(frames, n, Done(caller, Grown(caller.buffer, cell, got.size)))
      BY <2>3
    <3>2. cell \in Cells
      BY <1>4, <1>5 DEF Reallocs, BufferType
    <3> QED BY <2>3, <3>1, <3>2 DEF Grown
  <2> QED BY <1>2, <2>1, <2>2, <2>3 DEF Return
<1>7. caller.buffer.size \in Nat /\ got.size \in Nat
  BY <1>3, <1>4 DEF BufferType
<1>8. b \in BufferType /\ b.ini # Local
  <2>1. CASE \E cell \in Cells : b = BufferAt(cell, caller.buffer.size + got.size)
    BY <1>7, <2>1, BuffersAssumption DEF BufferAt, BufferType
  <2> QED BY <1>3, <1>4, <1>5, <1>6, <2>1
<1>9. Done(caller, b) \in FrameType /\ Done(caller, b).name = caller.name
  BY <1>2, <1>4, <1>8, DoneOK DEF FrameOK
<1>10. ASSUME caller.name \in Sized
       PROVE  FrameSized(Done(caller, b), FnAt(call, frames, n))
  <2>1. step.op \in {"appendOf", "take"} /\ Top.name \in Sized \cup {"boolean"}
        /\ Top.name \notin {"BlockEncoder", "build_rtmp_header"}
    BY <1>2, <1>4, <1>10, SizedSteps
  <2>2. Top.name # "boolean"
    <3>1. Top.code # encodeBoolean /\ Top.code # <<Append_(1)>>
      BY <1>1 DEF encodeBoolean
    <3> QED BY <1>2, <3>1 DEF FrameOK, Ordered
  <2>3. FnAt(call, frames, n + 1) = step.f
    <3>1. n + 1 # 1 /\ (n + 1) - 1 = n
      BY <1>2
    <3> HIDE DEF n
    <3> QED BY <3>1 DEF FnAt
  <2>4. /\ n + 1 \in 1 .. Len(frames) /\ frames[n + 1].code = <<>> /\ frames[n + 1].name \in Sized
        /\ frames[n + 1].name \notin {"BlockEncoder", "build_rtmp_header"}
    BY <1>1, <1>2, <2>1, <2>2
  <2>5. Passes(step.f) /\ got.size = Total(step.f) /\ (got.ini = NoCell => got.size = 0)
    BY <1>2, <2>3, <2>4, SizeReturned
  <2>6. StepSize(step) = got.size
    BY <2>1, <2>5, StepIs
  <2>7. StepOK(step)
    BY <2>1, <2>5, StepIs, Zenon
  <2>8. FrameSized(caller, FnAt(call, frames, n))
    BY <1>2, <1>10 DEF SizeInv, SizedAt
  <2>9. caller.buffer.ini = NoCell => caller.buffer.size = 0
    BY <1>2, <2>8 DEF FrameSized, Growing, Stopped
  <2>10. CASE step.op = "take"
    <3>1. caller.buffer = NoBuffer /\ b = got
      BY <1>2, <1>6, <2>10, StepsOf
    <3>2. b.size = caller.buffer.size + StepSize(step)
      BY <1>7, <2>6, <3>1, NoBufferOK
    <3> QED BY <1>2, <1>8, <1>10, <2>5, <2>7, <2>8, <3>1, <3>2, SizedDone
  <2>11. CASE step.op = "appendOf" /\ got.ini = NoCell
    <3>1. b = caller.buffer /\ got.size = 0
      BY <1>6, <2>5, <2>11
    <3>2. b.size = caller.buffer.size + StepSize(step)
      BY <1>7, <2>6, <3>1
    <3> QED BY <1>2, <1>8, <1>10, <2>7, <2>8, <2>9, <3>1, <3>2, SizedDone
  <2>12. CASE step.op = "appendOf" /\ got.ini # NoCell
    <3>1. PICK cell \in Cells : b = BufferAt(cell, caller.buffer.size + got.size)
      BY <1>6, <2>12
    <3>2. b.size = caller.buffer.size + StepSize(step) /\ b.ini # NoCell
      BY <2>6, <3>1, BuffersAssumption DEF BufferAt
    <3> QED BY <1>2, <1>8, <1>10, <2>7, <2>8, <3>2, SizedDone
  <2> QED BY <2>1, <2>10, <2>11, <2>12
<1> HIDE DEF n
<1> DEFINE fr == Done(caller, b)
<1>11. fr \in FrameType /\ fr.name = frames[n].name /\ frames' = Upto(frames, n, fr)
       /\ (fr.name \in Sized => FrameSized(fr, FnAt(call, frames, n)))
  BY <1>6, <1>9, <1>10
<1> HIDE DEF fr
<1> QED BY <1>1, <1>2, <1>11, SizeUpto

LEMMA SizeCheckThrows == Inv /\ SizeInv /\ CheckThrows => SizeInv'
<1> SUFFICES ASSUME Inv, SizeInv, CheckThrows PROVE SizeInv'
  OBVIOUS
<1>1. frames # <<>> /\ status = "running" /\ Top.code # <<>> /\ Head(Top.code).op = "check"
      /\ ~Head(Top.code).ok /\ result' = result /\ call' = call
  BY DEF CheckThrows, At
<1>2. CASE Catchers = {}
  <2>1. frames' = <<>> /\ status' = "thrown"
    BY <1>2 DEF CheckThrows
  <2>2. Len(<<>>) = 0 /\ 1 .. 0 = {}
    OBVIOUS
  <2>3. call' \in FnType
    BY <1>1 DEF SizeInv
  <2> QED BY <2>1, <2>2, <2>3 DEF SizeInv
<1>3. CASE Catchers # {}
  <2>1. PICK k \in Catchers :
          /\ \A j \in Catchers : j <= k
          /\ frames' = Append(SubSeq(frames, 1, k - 1),
                              [frames[k] EXCEPT !.code = <<>>, !.buffer = NoBuffer])
          /\ status' = status
    BY <1>3 DEF CheckThrows
  <2> DEFINE fr == [frames[k] EXCEPT !.code = <<>>, !.buffer = NoBuffer]
             n == Len(frames)
  <2>2. /\ k \in 1 .. n
        /\ frames[k].name = "BlockEncoder" => k = n
        /\ frames[k].name = "build_rtmp_header" => k + 1 = n
        /\ frames[k].name \in {"BlockEncoder", "build_rtmp_header"}
    BY <1>1, <2>1, Catching
  <2>3. frames' = Upto(frames, k, fr)
    BY <2>1 DEF Upto
  <2>4. n \in 1 .. n /\ Top = frames[n] /\ FrameOK(Top) /\ frames[k] \in FrameType
    BY <1>1, <2>2, TopIs DEF Inv, StackOK
  <2>5. ~StepOK(Head(Top.code))
    BY <1>1, StepIs, Zenon
  <2>6. Top.name \in Sized /\ Top.name # "build_rtmp_header"
    BY <1>1, <2>4, StepsOf DEF Sized
  <2>7. ~Passes(FnAt(call, frames, n))
    <3>1. FrameSized(Top, FnAt(call, frames, n))
      BY <2>4, <2>6 DEF SizeInv, SizedAt
    <3>2. AllPass(Top.code) <=> Passes(FnAt(call, frames, n))
      BY <1>1, <3>1 DEF FrameSized, Stopped, Growing
    <3>3. AllPass(Top.code) <=> StepOK(Head(Top.code)) /\ AllPass(Tail(Top.code))
      <4>1. Top.code \in Seq(Steps(Top.name)) /\ \A s \in Steps(Top.name) : StepSize(s) \in Nat
        BY <2>4, <2>6, FrameParts, SizedSteps
      <4> QED BY <1>1, <4>1, WeightTail
    <3> QED BY <2>5, <3>2, <3>3, Zenon
  <2>8. ~Passes(FnAt(call, frames, k))
    <3>1. CASE frames[k].name = "BlockEncoder"
      BY <2>2, <2>7, <3>1
    <3>2. CASE frames[k].name = "build_rtmp_header"
      <4>1. k + 1 = n /\ n > 1 /\ k = n - 1 /\ k \in Nat
        BY <2>2, <2>4, <3>2
      <4>2. /\ FrameOK(frames[k]) /\ frames[k].code # <<>>
            /\ Head(frames[k].code).op \in {"appendOf", "take", "run"}
        BY <1>1, <4>1, CallerIs
      <4>3. frames[k].name \in Sized /\ frames[k].code \in Seq(Steps(frames[k].name))
            /\ Head(frames[k].code) \in Steps(frames[k].name)
        BY <3>2, <4>2, FrameParts DEF Sized
      <4>4. FnAt(call, frames, n) = Head(frames[k].code).f
        BY <4>1 DEF FnAt
      <4>5. Head(frames[k].code).op \in {"appendOf", "take"}
            /\ \A s \in Steps(frames[k].name) : StepSize(s) \in Nat
        BY <4>2, <4>3, SizedSteps
      <4>6. ~StepOK(Head(frames[k].code))
        BY <2>7, <4>4, <4>5, StepIs, Zenon
      <4>7. FrameSized(frames[k], FnAt(call, frames, k))
        BY <2>2, <4>3 DEF SizeInv, SizedAt
      <4>8. AllPass(frames[k].code) <=> Passes(FnAt(call, frames, k))
        BY <4>2, <4>7 DEF FrameSized, Stopped, Growing
      <4>9. AllPass(frames[k].code) <=>
              StepOK(Head(frames[k].code)) /\ AllPass(Tail(frames[k].code))
        BY <4>2, <4>3, <4>5, WeightTail
      <4> QED BY <4>6, <4>8, <4>9, Zenon
    <3> QED BY <2>2, <3>1, <3>2
  <2> DEFINE C == Seq(UNION {Steps(name) : name \in Names})
  <2>9. fr \in FrameType /\ fr.name = frames[k].name /\ fr.code = <<>> /\ fr.buffer = NoBuffer
    <3>1. <<>> \in Seq(Steps(frames[k].name)) /\ <<>> \in C
      OBVIOUS
    <3>2. frames[k] \in [name : Names, code : C, buffer : BufferType]
      BY <2>4 DEF FrameType
    <3> HIDE DEF C
    <3>3. /\ fr \in [name : Names, code : C, buffer : BufferType]
          /\ fr.name = frames[k].name /\ fr.code = <<>> /\ fr.buffer = NoBuffer
      BY <3>1, <3>2, NoBufferOK
    <3> HIDE DEF fr
    <3> QED BY <3>1, <3>3 DEF FrameType, C
  <2> HIDE DEF fr, n, C
  <2>10. FrameSized(fr, FnAt(call, frames, k))
    BY <2>2, <2>8, <2>9 DEF FrameSized, Stopped
  <2>11. k \in 1 .. Len(frames) /\ UNCHANGED <<call, status, result>>
    BY <1>1, <2>1, <2>2 DEF n
  <2> QED BY <2>3, <2>9, <2>10, <2>11, SizeUpto
<1> QED BY <1>2, <1>3

LEMMA SizeNext == Inv /\ SizeInv /\ [Next]_vars => SizeInv'
<1> SUFFICES ASSUME Inv, SizeInv, [Next]_vars PROVE SizeInv'
  OBVIOUS
<1>1. CASE UNCHANGED vars
  BY <1>1 DEF vars, SizeInv
<1>2. CASE AppendToLocal \/ ReceiveFails
  <2>1. status' = "crashed" /\ UNCHANGED <<frames, call, result>>
    BY <1>2 DEF AppendToLocal, ReceiveFails, Crash
  <2> QED BY <2>1 DEF SizeInv
<1>3. CASE Next /\ ~(AppendToLocal \/ ReceiveFails)
  BY <1>3, SizeAppendBytes, SizeMakeLocal, SizeEnter, SizeReturn, SizeReturnLast,
     SizeFreeOrUse, SizeReceive, SizeCheckPasses, SizeCheckThrows DEF Next
<1> QED BY <1>1, <1>2, <1>3

-----------------------------------------------------------------------------
(* Results.                                                                *)

\* The variables keep their types.
THEOREM TypeCorrect == Spec => []TypeOK
<1>1. Inv => TypeOK
  <2> SUFFICES ASSUME Inv PROVE TypeOK
    OBVIOUS
  <2>1. DOMAIN frames = 1 .. Len(frames) /\ \A k \in 1 .. Len(frames) : frames[k].buffer \in BufferType
    BY FrameParts DEF Inv, StackOK
  <2> QED BY <2>1 DEF Inv, HeapOK, TypeOK, BufferType
<1> QED
  BY <1>1, InvAlways, PTL

\* A Buffer in use is of the size of the memory it points to, and no two calls
\* hold the same memory.
THEOREM OwnMemoryAlways == Spec => []OwnMemory
<1>1. Inv => OwnMemory
  <2> SUFFICES ASSUME Inv PROVE OwnMemory
    OBVIOUS
  <2>1. DOMAIN frames = 1 .. Len(frames)
    BY DEF Inv, StackOK
  <2>2. \A k \in Needing : k \in 1 .. Len(frames) /\ Has(frames[k]) = frames[k].buffer
    BY <2>1 DEF Needing, Has
  <2> QED BY <2>2 DEF Inv, Own, OwnMemory, Held
<1> QED
  BY <1>1, InvAlways, PTL

\* As long as no header is refused, all memory is somebody's or freed.
THEOREM NothingLostEver == Spec => []NothingLost
<1>1. Inv => NothingLost
  <2> SUFFICES ASSUME Inv PROVE NothingLost
    OBVIOUS
  <2>1. DOMAIN frames = 1 .. Len(frames)
    BY DEF Inv, StackOK
  <2>3. \A k \in 1 .. Len(frames) : IF k \in Needing THEN Has(frames[k]) = frames[k].buffer
                                                       ELSE Has(frames[k]) = NoBuffer
    BY <2>1 DEF Needing, Has
  <2>4. Needing \subseteq 1 .. Len(frames)
    BY <2>1 DEF Needing
  <2>2. Owned = CellsOf(frames) \cup ({result.ini} \cap Cells)
    BY <2>3, <2>4, NoBufferOK DEF Owned, Held, CellsOf
  <2> QED BY <2>2 DEF Inv, NothingLost
<1> QED
  BY <1>1, InvAlways, PTL

\* A packet or a header is returned whole or not at all, whatever it has in it
\* and wherever the encoder or the builder stops.
THEOREM AllOrNothingAlways == Spec => []AllOrNothing
<1>1. SizeInv => AllOrNothing
  <2> SUFFICES ASSUME SizeInv, status = "done"
               PROVE  /\ call.name = "BlockEncoder" =>
                           result.size = IF Encodable(call.arg) THEN PacketSize(call.arg) ELSE 0
                      /\ call.name = "build_rtmp_header" =>
                           result.size = IF Acceptable(call.arg) THEN HeaderSize(call.arg) ELSE 0
    BY DEF AllOrNothing
  <2>1. call.name \in Sized => result.size = IF Passes(call) THEN Total(call) ELSE 0
    BY DEF SizeInv
  <2> QED BY <2>1, SizeIs DEF Sized
<1>2. Inv /\ SizeInv /\ [Next]_vars => SizeInv'
  BY SizeNext
<1>3. Spec => []Inv
  BY InvAlways, PTL
<1> QED BY <1>1, <1>2, <1>3, SizeInit, PTL DEF Spec
=============================================================================
