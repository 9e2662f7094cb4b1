------------------------ MODULE RTMPConnexionProofs ------------------------
(***************************************************************************)
(* The safety properties of RTMPConnexion, for every set of streams and    *)
(* every size of the read buffer.                                          *)
(*                                                                         *)
(* TypeOK, ClosedOnce and RepliesEarned need little more than themselves.  *)
(* InStep and NoConnectMissed rest on where the reads end: as long as cut  *)
(* is "no", limit is between two messages (BoundaryInv), so a message that *)
(* starts in the buffer ends in it, and a cursor at a header gets to the   *)
(* next one or to limit (Landing).  What was skipped on the way was no     *)
(* connect (UnseenInv).                                                    *)
(***************************************************************************)
EXTENDS RTMPConnexion, Recursion, TLAPS

-----------------------------------------------------------------------------
(* The stream.                                                             *)

\* A position between two messages, or at an end of the stream.
Boundary(p) == p = Total \/ \E k \in DOMAIN stream : p = stream[k].at

LEMMA MessageTypes ==
    ASSUME stream \in Streams, NEW k \in DOMAIN stream
    PROVE  /\ stream[k] \in Messages
           /\ stream[k].at \in Nat /\ stream[k].head \in Nat \ {0}
           /\ stream[k].body \in Nat /\ stream[k].extra \in Nat /\ stream[k].error \in Nat
           /\ End(stream[k]) \in Nat
           /\ stream[k].at < End(stream[k])
           /\ k \in 1 .. Len(stream) /\ Len(stream) \in Nat
<1>1. stream \in Seq(Messages)
  BY ConnexionAssumption
<1>2. stream[k] \in Messages /\ k \in 1 .. Len(stream) /\ Len(stream) \in Nat
  BY <1>1
<1>3. /\ stream[k].at \in Nat /\ stream[k].head \in Nat \ {0}
      /\ stream[k].body \in Nat /\ stream[k].extra \in Nat /\ stream[k].error \in Nat
  BY <1>2 DEF Messages
<1>4. End(stream[k]) = stream[k].at + stream[k].head + stream[k].body + stream[k].extra
  BY DEF End
<1>5. End(stream[k]) \in Nat /\ stream[k].at < End(stream[k])
  BY <1>3, <1>4
<1> QED BY <1>2, <1>3, <1>5

LEMMA TotalType == ASSUME stream \in Streams PROVE Total \in Nat
<1>1. stream \in Seq(Messages)
  BY ConnexionAssumption
<1>2. CASE stream = <<>>
  BY <1>2 DEF Total
<1>3. CASE stream # <<>>
  <2>1. Len(stream) \in DOMAIN stream
    BY <1>1, <1>3
  <2> QED BY <2>1, <1>3, MessageTypes DEF Total
<1> QED BY <1>2, <1>3

\* Of two messages the first ends before the other starts, however many are
\* between them.
LEMMA InOrder ==
    ASSUME stream \in Streams, NEW j \in 1 .. Len(stream), NEW k \in 1 .. Len(stream), j < k
    PROVE  End(stream[j]) <= stream[k].at
<1>1. stream \in Seq(Messages) /\ \A i \in 1 .. Len(stream) - 1 : stream[i + 1].at = End(stream[i])
  BY ConnexionAssumption DEF Contiguous
<1>2. DOMAIN stream = 1 .. Len(stream) /\ Len(stream) \in Nat
  BY <1>1
<1> DEFINE L == Len(stream)
           S == {n \in Nat : j + 1 + n <= L => End(stream[j]) <= stream[j + 1 + n].at}
<1>3. ASSUME NEW i \in 1 .. L
      PROVE  /\ stream[i].at \in Nat /\ End(stream[i]) \in Nat /\ stream[i].at < End(stream[i])
  BY <1>2, MessageTypes
<1>4. \A i \in 1 .. L - 1 : stream[i + 1].at = End(stream[i])
  BY <1>1
<1>5. L \in Nat /\ j \in 1 .. L /\ k \in 1 .. L
  BY <1>2
<1> HIDE DEF L
<1>6. 0 \in S
  <2>1. j + 1 <= L => j \in 1 .. L - 1
    BY <1>5
  <2>2. j + 1 <= L => End(stream[j]) <= stream[j + 1].at
    BY <1>3, <1>4, <1>5, <2>1
  <2>3. j + 1 + 0 = j + 1
    BY <1>5
  <2> QED BY <2>2, <2>3
<1>7. \A n \in Nat : n \in S => n + 1 \in S
  <2>1. SUFFICES ASSUME NEW n \in Nat, n \in S, j + 1 + (n + 1) <= L
                 PROVE  End(stream[j]) <= stream[j + 1 + (n + 1)].at
    OBVIOUS
  <2> DEFINE i == j + 1 + n
  <2>2. i \in 1 .. L - 1 /\ i \in 1 .. L /\ j + 1 + (n + 1) = i + 1 /\ i <= L
    BY <1>5, <2>1
  <2>3. End(stream[j]) <= stream[i].at
    BY <2>1, <2>2
  <2> HIDE DEF i
  <2>4. stream[i].at < End(stream[i]) /\ stream[i + 1].at = End(stream[i])
    BY <1>3, <1>4, <2>2
  <2>5. stream[i].at \in Nat /\ End(stream[i]) \in Nat /\ End(stream[j]) \in Nat
    BY <1>3, <1>5, <2>2
  <2> QED BY <2>2, <2>3, <2>4, <2>5
<1>8. k - j - 1 \in S
  <2>1. Nat \subseteq S
    BY <1>6, <1>7, Induct
  <2>2. k - j - 1 \in Nat
    BY <1>5
  <2> QED BY <2>1, <2>2
<1>9. j + 1 + (k - j - 1) = k /\ k <= L
  BY <1>5
<1> QED BY <1>8, <1>9

\* Every message ends by the end of the stream, the last one at it, and every
\* other where the next starts.
LEMMA MessageEnds ==
    ASSUME stream \in Streams, NEW k \in DOMAIN stream
    PROVE  End(stream[k]) <= Total /\ Boundary(End(stream[k]))
<1>1. stream \in Seq(Messages) /\ Contiguous(stream)
  BY ConnexionAssumption
<1>2. k \in 1 .. Len(stream) /\ Len(stream) \in Nat /\ stream # <<>>
  BY <1>1
<1>3. Total = End(stream[Len(stream)])
  BY <1>2 DEF Total
<1>4. CASE k = Len(stream)
  <2>1. End(stream[k]) \in Nat
    BY MessageTypes
  <2> QED BY <1>3, <1>4, <2>1 DEF Boundary
<1>5. CASE k # Len(stream)
  <2>1. k + 1 \in DOMAIN stream /\ k \in 1 .. Len(stream) - 1
    BY <1>1, <1>2, <1>5
  <2>2. stream[k + 1].at = End(stream[k])
    BY <1>1, <2>1 DEF Contiguous
  <2>3. Len(stream) \in DOMAIN stream
    BY <1>1, <1>2
  <2>4. End(stream[k]) <= stream[Len(stream)].at
    BY <1>2, <1>5, InOrder
  <2>5. /\ End(stream[k]) \in Nat
        /\ stream[Len(stream)].at \in Nat /\ End(stream[Len(stream)]) \in Nat
        /\ stream[Len(stream)].at < End(stream[Len(stream)])
    BY <2>3, MessageTypes
  <2> QED BY <1>3, <2>1, <2>2, <2>4, <2>5 DEF Boundary
<1> QED BY <1>4, <1>5

\* Of two messages the one that starts first ends before the other starts.
LEMMA Apart ==
    ASSUME stream \in Streams, NEW j \in DOMAIN stream, NEW k \in DOMAIN stream,
           stream[j].at < stream[k].at
    PROVE  End(stream[j]) <= stream[k].at
<1>1. stream \in Seq(Messages) /\ Contiguous(stream)
  BY ConnexionAssumption
<1>2. j \in 1 .. Len(stream) /\ k \in 1 .. Len(stream) /\ Len(stream) \in Nat
  BY <1>1
<1>3. /\ stream[j].at \in Nat /\ stream[k].at \in Nat
      /\ End(stream[j]) \in Nat /\ End(stream[k]) \in Nat
      /\ stream[j].at < End(stream[j]) /\ stream[k].at < End(stream[k])
  BY MessageTypes
<1>4. ~ k < j
  <2>1. k < j => End(stream[k]) <= stream[j].at
    BY <1>2, InOrder
  <2> QED BY <2>1, <1>3
<1>5. j # k
  BY <1>3
<1>6. j < k
  BY <1>2, <1>4, <1>5
<1> QED BY <1>2, <1>6, InOrder

\* No two messages start at the same place.
LEMMA SamePlace ==
    ASSUME stream \in Streams, NEW j \in DOMAIN stream, NEW k \in DOMAIN stream,
           stream[j].at = stream[k].at
    PROVE  j = k
<1>1. stream \in Seq(Messages) /\ Contiguous(stream)
  BY ConnexionAssumption
<1>2. j \in 1 .. Len(stream) /\ k \in 1 .. Len(stream) /\ Len(stream) \in Nat
  BY <1>1
<1>3. /\ stream[j].at \in Nat /\ stream[k].at \in Nat
      /\ End(stream[j]) \in Nat /\ End(stream[k]) \in Nat
      /\ stream[j].at < End(stream[j]) /\ stream[k].at < End(stream[k])
  BY MessageTypes
<1>4. /\ k < j => End(stream[k]) <= stream[j].at
      /\ j < k => End(stream[j]) <= stream[k].at
  BY <1>2, InOrder
<1> QED BY <1>2, <1>3, <1>4

\* A message that starts before a boundary ends by it.
LEMMA Landing ==
    ASSUME stream \in Streams, NEW k \in DOMAIN stream, NEW p \in Nat,
           Boundary(p), stream[k].at < p
    PROVE  End(stream[k]) <= p
<1>1. CASE p = Total
  BY <1>1, MessageEnds
<1>2. CASE \E j \in DOMAIN stream : p = stream[j].at
  BY <1>2, Apart
<1> QED BY <1>1, <1>2 DEF Boundary

-----------------------------------------------------------------------------
(* Types.                                                                  *)

\* No read before the handshake.
TriesInv == pc = "handshake" => tries = 0

TypeInv == TypeOK /\ TriesInv

LEMMA InitType == Init => TypeInv
<1> SUFFICES ASSUME Init PROVE TypeInv
  OBVIOUS
<1>1. stream \in Streams /\ Total \in Nat
  BY TotalType DEF Init
<1> QED BY <1>1 DEF Init, TypeInv, TypeOK, TriesInv, Steps, At

\* Where the cursor goes.
LEMMA AdvanceType ==
    ASSUME TypeOK, NEW k \in DOMAIN stream, NEW e \in Nat,
           cursor' = cursor + stream[k].head + stream[k].body + e
    PROVE  cursor' \in Nat /\ cursor < cursor' /\ base <= cursor'
<1>1. stream[k].head \in Nat \ {0} /\ stream[k].body \in Nat
  BY MessageTypes DEF TypeOK
<1>2. cursor \in Nat /\ base \in Nat /\ base <= cursor
  BY DEF TypeOK
<1> QED BY <1>1, <1>2

LEMMA NextType == TypeInv /\ [Next]_vars => TypeInv'
<1> SUFFICES ASSUME TypeInv, [Next]_vars PROVE TypeInv'
  OBVIOUS
<1> USE DEF TypeInv, TypeOK, TriesInv, At, Steps, window, history
<1>1. Total \in Nat /\ (stream' = stream => Total' = Total)
  BY TotalType DEF Total
<1>2. CASE HandshakeDone
  BY <1>1, <1>2 DEF HandshakeDone
<1>3. CASE HandshakeFails
  BY <1>1, <1>3 DEF HandshakeFails, Die
<1>4. ASSUME NEW n \in 0 .. BufSize, Receive(n) PROVE TypeInv'
  <2>1. n \in Nat /\ limit' = limit + n /\ base' = limit /\ cursor' = limit
    BY <1>4, ConnexionAssumption DEF Receive
  <2>2. tries \in {0, 1} /\ tries' = tries + 1
    BY <1>4 DEF Receive
  <2> QED BY <1>1, <1>4, <2>1, <2>2 DEF Receive
<1>5. CASE ReceiveFails
  <2>1. tries \in {0, 1} /\ tries' = tries + 1
    BY <1>5 DEF ReceiveFails
  <2> QED BY <1>1, <1>5, <2>1 DEF ReceiveFails, Die
<1>6. ASSUME NEW k \in DOMAIN stream, SkipMessage(k) PROVE TypeInv'
  <2>1. cursor' \in Nat /\ base <= cursor'
    BY <1>6, MessageTypes, AdvanceType DEF SkipMessage, Advance
  <2> QED BY <1>1, <1>6, <2>1 DEF SkipMessage
<1>7. ASSUME NEW k \in DOMAIN stream, AnswerChunkSize(k) PROVE TypeInv'
  <2>1. CASE Advance(stream[k])
    <3>1. cursor' \in Nat /\ base <= cursor'
      BY <2>1, MessageTypes, AdvanceType DEF Advance
    <3> QED BY <1>1, <1>7, <3>1 DEF AnswerChunkSize, Die
  <2>2. CASE Die
    BY <1>1, <1>7, <2>2 DEF AnswerChunkSize, Die
  <2> QED BY <1>7, <2>1, <2>2 DEF AnswerChunkSize
<1>8. ASSUME NEW k \in DOMAIN stream, StoreConnect(k) PROVE TypeInv'
  <2>1. cursor' \in Nat /\ base <= cursor'
    BY <1>8, MessageTypes, AdvanceType DEF StoreConnect, Advance
  <2> QED BY <1>1, <1>8, <2>1 DEF StoreConnect
<1>9. ASSUME NEW k \in DOMAIN stream, CutCommand(k) PROVE TypeInv'
  <2>1. CASE \E error \in 0 .. 1 : Advance([stream[k] EXCEPT !.error = error])
    <3>1. PICK error \in 0 .. 1 : Advance([stream[k] EXCEPT !.error = error])
      BY <2>1
    <3>2. stream[k] \in Messages
      BY MessageTypes
    <3>3. cursor' = cursor + stream[k].head + stream[k].body + error
      BY <3>1, <3>2 DEF Advance, Messages
    <3>4. cursor' \in Nat /\ base <= cursor'
      BY <3>3, AdvanceType
    <3> QED BY <1>1, <1>9, <3>4 DEF CutCommand, Die
  <2>2. CASE Die
    BY <1>1, <1>9, <2>2 DEF CutCommand, Die
  <2> QED BY <1>9, <2>1, <2>2 DEF CutCommand
<1>10. CASE Stray
  <2>1. CASE cursor' \in base .. limit + 1 /\ UNCHANGED <<process, pc, base, limit>>
    <3>1. cursor' \in Nat /\ base <= cursor'
      BY <2>1
    <3>2. connect' \in {"empty", "stored"} /\ replies' \subseteq {"chunk_size", "ack", "bandwidth"}
      BY <1>10 DEF Stray, Die
    <3> QED BY <1>1, <1>10, <2>1, <3>1, <3>2 DEF Stray
  <2>2. CASE Die
    BY <1>1, <1>10, <2>2 DEF Stray, Die
  <2> QED BY <1>10, <2>1, <2>2 DEF Stray
<1>11. CASE EndOfBuffer
  BY <1>1, <1>11 DEF EndOfBuffer
<1>12. CASE SendWindowACKSize \/ SendSetPeerBandwidth \/ SendResulCommand
  BY <1>1, <1>12 DEF SendWindowACKSize, SendSetPeerBandwidth, SendResulCommand, SendReply, Die
<1>13. CASE Close \/ Catch
  <2>1. closes' \in Nat
    BY <1>13 DEF Close, Catch
  <2>2. CASE Close
    BY <1>1, <2>1, <2>2 DEF Close
  <2>3. CASE Catch
    BY <1>1, <2>1, <2>3 DEF Catch
  <2> QED BY <1>13, <2>2, <2>3
<1>14. CASE UNCHANGED vars
  BY <1>1, <1>14 DEF vars
<1> QED BY <1>2, <1>3, <1>4, <1>5, <1>6, <1>7, <1>8, <1>9, <1>10, <1>11, <1>12, <1>13,
            <1>14 DEF Next, ProcessMessage

-----------------------------------------------------------------------------
(* Safety.                                                                 *)

\* The condition of InStep and NoConnectMissed.
Standing == cut = "no" /\ \A k \in Received : Regular(stream[k])

\* The reads end between messages.
BoundaryInv == cut = "no" => Boundary(limit)

\* Nothing is left unread before a read, nor when the client is refused.
ParkedInv ==
    /\ pc \in {"handshake", "receive"} => cursor = limit
    /\ pc = "throw" /\ connect = "empty" => cursor = limit

\* The connect commands that came and were not stored are still ahead.
UnseenInv ==
    Standing /\ connect = "empty"
        => \A k \in Received : stream[k].kind = "connect" => cursor <= stream[k].at

\* There is a connect packet before the replies.
ConnectInv == pc \in {"ack", "bandwidth", "result"} => connect = "stored"

StepInv == BoundaryInv /\ ParkedInv /\ InStep /\ UnseenInv

\* What a message says of itself, by the time of the next one.
LEMMA AtMessage ==
    ASSUME TypeInv, StepInv, Standing, cursor # limit, NEW k \in DOMAIN stream,
           cursor = stream[k].at
    PROVE  /\ k \in Received /\ Regular(stream[k])
           /\ Complete(k)
           /\ AtHeader(k)
<1>1. /\ stream \in Streams /\ cursor \in Nat /\ limit \in Nat
  BY DEF TypeInv, TypeOK
<1>2. /\ stream[k].at \in Nat /\ stream[k].head \in Nat /\ stream[k].body \in Nat
      /\ stream[k].extra \in Nat /\ End(stream[k]) \in Nat
  BY <1>1, MessageTypes
<1>3. cursor < limit
  BY <1>1 DEF StepInv, InStep, Standing
<1>4. k \in Received /\ Regular(stream[k])
  BY <1>3 DEF Received, Standing
<1>5. End(stream[k]) <= limit
  <2>1. Boundary(limit)
    BY DEF StepInv, BoundaryInv, Standing
  <2> QED BY <1>1, <1>3, <2>1, Landing
<1>6. End(stream[k]) = stream[k].at + stream[k].head + stream[k].body + stream[k].extra
  BY DEF End
<1>7. cursor + stream[k].head <= limit
  BY <1>1, <1>2, <1>5, <1>6
<1> QED BY <1>4, <1>5, <1>7 DEF Complete, AtHeader

\* Past a message the cursor is at the next one, or at limit.
LEMMA PastMessage ==
    ASSUME TypeInv, StepInv, Standing, cursor # limit, NEW k \in DOMAIN stream,
           cursor = stream[k].at, Advance(stream[k])
    PROVE  /\ cursor' <= limit
           /\ cursor' = limit \/ \E j \in DOMAIN stream : cursor' = stream[j].at
           /\ \A j \in DOMAIN stream : j # k /\ cursor <= stream[j].at => cursor' <= stream[j].at
<1>1. /\ stream \in Streams /\ cursor \in Nat /\ limit \in Nat /\ limit <= Total
  BY DEF TypeInv, TypeOK
<1>2. /\ stream[k].at \in Nat /\ stream[k].head \in Nat /\ stream[k].body \in Nat
      /\ stream[k].extra \in Nat /\ stream[k].error \in Nat /\ End(stream[k]) \in Nat
  BY <1>1, MessageTypes
<1>3. Complete(k) /\ Regular(stream[k])
  BY AtMessage
<1>4. cursor' = End(stream[k])
  <2>1. cursor' = stream[k].at + stream[k].head + stream[k].body + stream[k].extra
    BY <1>3 DEF Advance, Regular
  <2> QED BY <2>1 DEF End
<1>5. cursor' <= limit
  BY <1>3, <1>4 DEF Complete
<1>6. cursor' = limit \/ \E j \in DOMAIN stream : cursor' = stream[j].at
  <2>1. Total \in Nat /\ Boundary(End(stream[k]))
    BY <1>1, TotalType, MessageEnds
  <2> QED BY <1>1, <1>2, <1>4, <1>5, <2>1 DEF Boundary
<1>7. ASSUME NEW j \in DOMAIN stream, j # k, cursor <= stream[j].at
      PROVE  cursor' <= stream[j].at
  <2>1. stream[j].at \in Nat
    BY <1>1, MessageTypes
  <2>2. stream[k].at # stream[j].at
    BY <1>1, <1>7, SamePlace
  <2>3. stream[k].at < stream[j].at
    BY <1>2, <1>7, <2>1, <2>2
  <2> QED BY <1>1, <1>4, <2>3, Apart
<1> QED BY <1>5, <1>6, <1>7

\* A step that leaves the buffer and the cursor alone.
LEMMA SameWindow ==
    ASSUME TypeInv, StepInv, ParkedInv', UNCHANGED <<stream, base, limit, cursor, cut, astray>>,
           connect' = connect \/ connect' = "stored"
    PROVE  StepInv'
<1>1. Received' = Received /\ (Standing' => Standing)
  BY DEF Received, Standing
<1>2. BoundaryInv'
  BY DEF StepInv, BoundaryInv, Boundary, Total
<1>3. InStep'
  BY <1>1 DEF StepInv, InStep
<1>4. UnseenInv'
  BY <1>1 DEF StepInv, UnseenInv
<1> QED BY <1>2, <1>3, <1>4 DEF StepInv

\* A step past a message of the buffer.
LEMMA OneMessage ==
    ASSUME TypeInv, StepInv, At("loop"), cursor # limit, NEW k \in DOMAIN stream, AtHeader(k),
           Advance(stream[k]), UNCHANGED <<pc, stream, base, limit, cut, astray>>,
           connect' = "stored" \/ (connect' = connect /\ stream[k].kind # "connect")
    PROVE  StepInv'
<1>1. Received' = Received /\ (Standing' => Standing)
  BY DEF Received, Standing
<1>2. BoundaryInv' /\ ParkedInv'
  BY DEF StepInv, BoundaryInv, Boundary, Total, ParkedInv, At
<1>3. cursor = stream[k].at
  BY DEF AtHeader
<1>4. InStep'
  <2>1. SUFFICES ASSUME Standing
                 PROVE  /\ astray = "no" /\ cursor' <= limit
                        /\ cursor' = limit \/ \E j \in DOMAIN stream : cursor' = stream[j].at
    BY <1>1 DEF InStep, Standing
  <2>2. astray = "no"
    BY <2>1 DEF StepInv, InStep, Standing
  <2> QED BY <1>3, <2>1, <2>2, PastMessage
<1>5. UnseenInv'
  <2>1. SUFFICES ASSUME Standing, connect' = "empty", NEW j \in Received,
                        stream[j].kind = "connect"
                 PROVE  cursor' <= stream[j].at
    BY <1>1 DEF UnseenInv
  <2>2. connect = "empty" /\ j # k /\ j \in DOMAIN stream
    BY <2>1 DEF Received
  <2>3. cursor <= stream[j].at
    BY <2>1, <2>2 DEF StepInv, UnseenInv
  <2> QED BY <1>3, <2>1, <2>2, <2>3, PastMessage
<1> QED BY <1>2, <1>4, <1>5 DEF StepInv

\* A read.
LEMMA OneRead ==
    ASSUME TypeInv, StepInv, NEW n \in 0 .. BufSize, Receive(n)
    PROVE  StepInv'
<1> USE DEF Receive
<1>1. /\ n \in Nat /\ limit \in Nat /\ limit' = limit + n /\ cursor' = limit /\ cursor = limit
      /\ stream \in Streams /\ Total' = Total /\ Total \in Nat
  BY ConnexionAssumption, TotalType DEF TypeInv, TypeOK, StepInv, ParkedInv, At, Total
<1>2. Received \subseteq Received' /\ Received' \subseteq DOMAIN stream
  <2>1. \A k \in DOMAIN stream : stream[k].at \in Nat
    BY <1>1, MessageTypes
  <2> QED BY <1>1, <2>1 DEF Received
<1>3. Standing' => Standing
  BY <1>2 DEF Standing
<1>4. BoundaryInv'
  BY <1>1 DEF StepInv, BoundaryInv, Boundary
<1>5. ParkedInv'
  BY DEF ParkedInv
<1>6. InStep'
  <2>1. SUFFICES ASSUME Standing
                 PROVE  /\ astray = "no" /\ cursor' <= limit'
                        /\ cursor' = limit' \/ \E k \in DOMAIN stream : cursor' = stream[k].at
    BY <1>3 DEF InStep, Standing, history
  <2>2. astray = "no"
    BY <2>1 DEF StepInv, InStep, Standing
  <2>3. limit = Total => n = 0
    BY <1>1
  <2>4. Boundary(limit)
    BY <2>1 DEF StepInv, BoundaryInv, Standing
  <2> QED BY <1>1, <2>2, <2>3, <2>4 DEF Boundary
<1>7. UnseenInv'
  <2>1. SUFFICES ASSUME Standing, connect = "empty", NEW j \in Received',
                        stream[j].kind = "connect"
                 PROVE  limit <= stream[j].at
    BY <1>1, <1>3 DEF UnseenInv
  <2>2. j \in DOMAIN stream /\ stream[j].at \in Nat
    BY <1>1, <1>2, MessageTypes
  <2>3. CASE stream[j].at < limit
    BY <1>1, <2>1, <2>2, <2>3 DEF StepInv, UnseenInv, Received
  <2> QED BY <1>1, <2>2, <2>3
<1> QED BY <1>4, <1>5, <1>6, <1>7 DEF StepInv

LEMMA InitStep == Init => StepInv
<1> SUFFICES ASSUME Init PROVE StepInv
  OBVIOUS
<1>1. stream \in Streams /\ Contiguous(stream) /\ stream \in Seq(Messages)
  BY ConnexionAssumption DEF Init
<1>2. Received = {}
  <2>1. \A k \in DOMAIN stream : stream[k].at \in Nat
    BY <1>1, MessageTypes
  <2> QED BY <2>1 DEF Received, Init
<1>3. Boundary(0)
  <2>1. CASE stream = <<>>
    BY <2>1 DEF Boundary, Total
  <2>2. CASE stream # <<>>
    <3>1. 1 \in DOMAIN stream
      BY <1>1, <2>2
    <3> QED BY <1>1, <2>2, <3>1 DEF Boundary, Contiguous
  <2> QED BY <2>1, <2>2
<1> QED BY <1>2, <1>3 DEF Init, StepInv, BoundaryInv, ParkedInv, InStep, UnseenInv

\* A step that only a stream that is not Standing allows.
LEMMA NotStanding ==
    ASSUME StepInv, ~Standing, UNCHANGED <<pc, stream, limit, cut>>, At("loop")
    PROVE  StepInv'
<1>1. ~Standing'
  BY DEF Standing, Received
<1>2. BoundaryInv' /\ ParkedInv'
  BY DEF StepInv, BoundaryInv, Boundary, Total, ParkedInv, At
<1> QED BY <1>1, <1>2 DEF StepInv, InStep, UnseenInv, Standing

LEMMA NextStep == TypeInv /\ StepInv /\ ConnectInv /\ [Next]_vars => StepInv'
<1> SUFFICES ASSUME TypeInv, StepInv, ConnectInv, [Next]_vars PROVE StepInv'
  OBVIOUS
<1> USE DEF At, window, history
<1>1. ParkedInv
  BY DEF StepInv
<1>2. CASE HandshakeDone
  <2>1. ParkedInv'
    BY <1>1, <1>2 DEF HandshakeDone, ParkedInv
  <2> QED BY <1>2, <2>1, SameWindow DEF HandshakeDone
<1>3. CASE HandshakeFails
  <2>1. ParkedInv'
    BY <1>1, <1>3 DEF HandshakeFails, Die, ParkedInv
  <2>2. connect' = connect /\ UNCHANGED <<stream, base, limit, cursor, cut, astray>>
    BY <1>3 DEF HandshakeFails, Die
  <2> QED BY <2>1, <2>2, SameWindow
<1>4. ASSUME NEW n \in 0 .. BufSize, Receive(n) PROVE StepInv'
  BY <1>4, OneRead
<1>5. CASE ReceiveFails
  <2>1. ParkedInv'
    BY <1>1, <1>5 DEF ReceiveFails, Die, ParkedInv
  <2> QED BY <1>5, <2>1, SameWindow DEF ReceiveFails, Die
<1>6. ASSUME NEW k \in DOMAIN stream, SkipMessage(k) PROVE StepInv'
  <2>1. stream[k].kind # "connect"
    BY <1>6 DEF SkipMessage
  <2> QED BY <1>6, <2>1, OneMessage DEF SkipMessage
<1>7. ASSUME NEW k \in DOMAIN stream, AnswerChunkSize(k) PROVE StepInv'
  <2>1. CASE Advance(stream[k]) /\ UNCHANGED <<process, pc, base, limit, connect>>
    <3>1. stream[k].kind # "connect"
      BY <1>7 DEF AnswerChunkSize
    <3> QED BY <1>7, <2>1, <3>1, OneMessage DEF AnswerChunkSize
  <2>2. CASE Die
    <3>1. ParkedInv'
      BY <1>1, <1>7, <2>2 DEF AnswerChunkSize, Die, ParkedInv
    <3> QED BY <1>7, <2>2, <3>1, SameWindow DEF AnswerChunkSize, Die
  <2> QED BY <1>7, <2>1, <2>2 DEF AnswerChunkSize
<1>8. ASSUME NEW k \in DOMAIN stream, StoreConnect(k) PROVE StepInv'
  BY <1>8, OneMessage DEF StoreConnect
<1>9. ASSUME NEW k \in DOMAIN stream, CutCommand(k) PROVE StepInv'
  <2>1. ~Standing
    BY <1>9, AtMessage DEF CutCommand, AtHeader
  <2> QED BY <1>9, <2>1, NotStanding DEF CutCommand, Die
<1>10. CASE Stray
  <2>1. ~Standing
    <3>1. SUFFICES ASSUME Standing PROVE FALSE
      OBVIOUS
    <3>2. PICK k \in DOMAIN stream : cursor = stream[k].at
      BY <1>10, <3>1 DEF Stray, StepInv, InStep, Standing
    <3>3. AtHeader(k) /\ Regular(stream[k]) /\ stream[k].kind # "bare"
      BY <1>10, <3>1, <3>2, AtMessage DEF Stray, Regular
    <3> QED BY <1>10, <3>3 DEF Stray
  <2> QED BY <1>10, <2>1, NotStanding DEF Stray, Die
<1>11. CASE EndOfBuffer
  <2>1. ParkedInv'
    BY <1>1, <1>11 DEF EndOfBuffer, ParkedInv
  <2> QED BY <1>11, <2>1, SameWindow DEF EndOfBuffer
<1>12. CASE SendWindowACKSize \/ SendSetPeerBandwidth \/ SendResulCommand
  <2> USE DEF SendWindowACKSize, SendSetPeerBandwidth, SendResulCommand, SendReply, Die
  <2>1. ParkedInv'
    BY <1>1, <1>12 DEF ParkedInv, ConnectInv
  <2>2. connect' = connect /\ UNCHANGED <<stream, base, limit, cursor, cut, astray>>
    BY <1>12
  <2> QED BY <2>1, <2>2, SameWindow
<1>13. CASE Close \/ Catch
  <2>1. ParkedInv'
    BY <1>1, <1>13 DEF Close, Catch, ParkedInv
  <2> QED BY <1>13, <2>1, SameWindow DEF Close, Catch
<1>14. CASE UNCHANGED vars
  <2>1. ParkedInv'
    BY <1>1, <1>14 DEF vars, ParkedInv
  <2> QED BY <1>14, <2>1, SameWindow DEF vars
<1> QED BY <1>2, <1>3, <1>4, <1>5, <1>6, <1>7, <1>8, <1>9, <1>10, <1>11, <1>12, <1>13,
            <1>14 DEF Next, ProcessMessage

-----------------------------------------------------------------------------
(* The replies and the socket.                                             *)

EndInv == ConnectInv /\ RepliesEarned /\ ClosedOnce

LEMMA InitEnd == Init => EndInv
  BY DEF Init, EndInv, ConnectInv, RepliesEarned, ClosedOnce

LEMMA NextEnd == TypeInv /\ EndInv /\ [Next]_vars => EndInv'
<1> SUFFICES ASSUME TypeInv, EndInv, [Next]_vars PROVE EndInv'
  OBVIOUS
<1> USE DEF EndInv, ConnectInv, RepliesEarned, ClosedOnce, At, window, history
<1>1. stream \in Streams /\ limit \in Nat /\ cursor \in Nat
  BY DEF TypeInv, TypeOK
<1>2. (stream' = stream /\ limit' = limit) => Received' = Received
  BY DEF Received
<1>3. CASE HandshakeDone
  BY <1>2, <1>3 DEF HandshakeDone
<1>4. CASE HandshakeFails
  BY <1>2, <1>4 DEF HandshakeFails, Die
<1>5. ASSUME NEW n \in 0 .. BufSize, Receive(n) PROVE EndInv'
  <2>1. n \in Nat /\ limit' = limit + n /\ stream' = stream
    BY <1>5, ConnexionAssumption DEF Receive
  <2>2. \A k \in DOMAIN stream : stream[k].at \in Nat
    BY <1>1, MessageTypes
  <2>3. Received \subseteq Received'
    BY <1>1, <2>1, <2>2 DEF Received
  <2> QED BY <1>5, <2>1, <2>3 DEF Receive
<1>6. CASE ReceiveFails
  BY <1>2, <1>6 DEF ReceiveFails, Die
<1>7. ASSUME NEW k \in DOMAIN stream, SkipMessage(k) PROVE EndInv'
  BY <1>2, <1>7 DEF SkipMessage
<1>8. ASSUME NEW k \in DOMAIN stream, AnswerChunkSize(k) PROVE EndInv'
  <2>1. stream[k].at \in Nat /\ stream[k].head \in Nat \ {0}
    BY <1>1, MessageTypes
  <2>2. stream[k].at < limit
    BY <1>1, <1>8, <2>1 DEF AnswerChunkSize, AtHeader
  <2>3. k \in Received /\ stream[k].kind = "chunk_size"
    BY <1>8, <2>2 DEF AnswerChunkSize, Received
  <2>4. UNCHANGED <<stream, limit, closes, connect, pc>>
    BY <1>8 DEF AnswerChunkSize, Die
  <2>5. replies' \cap {"ack", "bandwidth"} = replies \cap {"ack", "bandwidth"}
    BY <1>8 DEF AnswerChunkSize, Die
  <2> QED BY <1>2, <2>3, <2>4, <2>5
<1>9. ASSUME NEW k \in DOMAIN stream, StoreConnect(k) PROVE EndInv'
  BY <1>2, <1>9 DEF StoreConnect
<1>10. ASSUME NEW k \in DOMAIN stream, CutCommand(k) PROVE EndInv'
  <2>1. UNCHANGED <<stream, limit, closes, replies, pc, astray>>
    BY <1>10 DEF CutCommand, Die
  <2>2. connect' = connect \/ connect' = "stored"
    BY <1>10 DEF CutCommand, Die
  <2> QED BY <1>2, <2>1, <2>2
<1>11. CASE Stray
  <2>1. UNCHANGED <<stream, limit, closes, pc>> /\ astray' = "yes"
    BY <1>11 DEF Stray, Die
  <2>2. connect' = connect \/ connect' = "stored"
    BY <1>11 DEF Stray, Die
  <2>3. replies' \cap {"ack", "bandwidth"} = replies \cap {"ack", "bandwidth"}
    BY <1>11 DEF Stray, Die
  <2> QED BY <2>1, <2>2, <2>3
<1>12. CASE EndOfBuffer
  BY <1>2, <1>12 DEF EndOfBuffer
<1>13. CASE SendWindowACKSize \/ SendSetPeerBandwidth \/ SendResulCommand
  <2> USE DEF SendWindowACKSize, SendSetPeerBandwidth, SendResulCommand, SendReply, Die
  <2>1. connect = "stored" /\ UNCHANGED <<stream, limit, closes, connect, astray>>
    BY <1>13
  <2>2. "chunk_size" \in replies' => "chunk_size" \in replies
    BY <1>13
  <2>3. pc # "returned" /\ pc' # "returned"
    BY <1>13
  <2> QED BY <1>2, <2>1, <2>2, <2>3
<1>14. CASE Close \/ Catch
  BY <1>2, <1>14 DEF Close, Catch
<1>15. CASE UNCHANGED vars
  BY <1>2, <1>15 DEF vars
<1> QED BY <1>3, <1>4, <1>5, <1>6, <1>7, <1>8, <1>9, <1>10, <1>11, <1>12, <1>13, <1>14,
            <1>15 DEF Next, ProcessMessage

-----------------------------------------------------------------------------
(* The window acknowledgement size.                                        *)

\* Only a failed call leads past the first reply, or from a stored command to
\* an exception.
FailedInv ==
    /\ pc \in {"bandwidth", "result"} => errors # "none"
    /\ pc = "throw" /\ connect = "stored" => errors # "none"

SentInv ==
    /\ FailedInv
    /\ (pc \in {"close", "returned"} /\ connect = "stored" /\ errors = "none") => "ack" \in replies

LEMMA InitSent == Init => SentInv
  BY DEF Init, SentInv, FailedInv

LEMMA NextSent == SentInv /\ [Next]_vars => SentInv'
<1> SUFFICES ASSUME SentInv, [Next]_vars PROVE SentInv'
  OBVIOUS
<1> USE DEF SentInv, FailedInv, At, window, history
<1>1. CASE HandshakeDone \/ HandshakeFails
  BY <1>1 DEF HandshakeDone, HandshakeFails, Die
<1>2. ASSUME NEW n \in 0 .. BufSize, Receive(n) PROVE SentInv'
  BY <1>2 DEF Receive
<1>3. CASE ReceiveFails
  BY <1>3 DEF ReceiveFails, Die
<1>4. CASE ProcessMessage
  <2>1. CASE EndOfBuffer
    BY <2>1 DEF EndOfBuffer
  <2>2. CASE Stray \/ \E k \in DOMAIN stream : SkipMessage(k) \/ AnswerChunkSize(k)
                                              \/ StoreConnect(k) \/ CutCommand(k)
    <3>1. pc = "loop" /\ pc' = "loop"
      BY <2>2 DEF Stray, SkipMessage, AnswerChunkSize, StoreConnect, CutCommand, Die
    <3> QED BY <3>1
  <2> QED BY <1>4, <2>1, <2>2 DEF ProcessMessage
<1>5. CASE SendWindowACKSize \/ SendSetPeerBandwidth \/ SendResulCommand
  BY <1>5 DEF SendWindowACKSize, SendSetPeerBandwidth, SendResulCommand, SendReply, Die
<1>6. CASE Close \/ Catch
  BY <1>6 DEF Close, Catch
<1>7. CASE UNCHANGED vars
  BY <1>7 DEF vars
<1> QED BY <1>1, <1>2, <1>3, <1>4, <1>5, <1>6, <1>7 DEF Next

-----------------------------------------------------------------------------
(* The theorems.                                                           *)

LEMMA Invariants == Spec => [](TypeInv /\ StepInv /\ EndInv)
<1>1. EndInv => ConnectInv
  BY DEF EndInv
<1> QED BY InitType, InitStep, InitEnd, NextType, NextStep, NextEnd, <1>1, PTL DEF Spec

(***************************************************************************)
(* The variables keep their types; in particular the connect command is    *)
(* looked for in at most two reads (processRequest).                       *)
(***************************************************************************)
THEOREM TypeCorrect == Spec => []TypeOK
<1>1. TypeInv => TypeOK
  BY DEF TypeInv
<1> QED BY Invariants, <1>1, PTL

(***************************************************************************)
(* Every path through the constructor and processRequest that returns has  *)
(* closed the socket exactly once.                                         *)
(***************************************************************************)
THEOREM ClosedOnceAlways == Spec => []ClosedOnce
<1>1. EndInv => ClosedOnce
  BY DEF EndInv
<1> QED BY Invariants, <1>1, PTL

(***************************************************************************)
(* With reads that end between messages, receiveAndProcessConnect walks    *)
(* from header to header and stops at the end of the buffer, whatever the  *)
(* messages and their lengths.                                             *)
(***************************************************************************)
THEOREM InStepAlways == Spec => []InStep
<1>1. StepInv => InStep
  BY DEF StepInv
<1> QED BY Invariants, <1>1, PTL

(***************************************************************************)
(* Under the same condition a client is refused for want of a connect      *)
(* command only if none was in what the two reads brought.                 *)
(***************************************************************************)
THEOREM NoConnectMissedAlways == Spec => []NoConnectMissed
<1>1. TypeInv /\ StepInv => NoConnectMissed
  <2>1. SUFFICES ASSUME TypeInv, StepInv, pc = "throw", connect = "empty", Standing,
                        NEW k \in Received, stream[k].kind = "connect"
                 PROVE  FALSE
    BY DEF NoConnectMissed, Standing
  <2>2. cursor = limit /\ cursor <= stream[k].at /\ stream[k].at < limit
    BY <2>1 DEF StepInv, ParkedInv, UnseenInv, Received
  <2>3. k \in DOMAIN stream /\ limit \in Nat
    BY <2>1 DEF Received, TypeInv, TypeOK
  <2>4. stream[k].at \in Nat
    BY <2>1, <2>3, MessageTypes DEF TypeInv, TypeOK
  <2> QED BY <2>2, <2>3, <2>4
<1> QED BY Invariants, <1>1, PTL

(***************************************************************************)
(* Window acknowledgement size and peer bandwidth are sent to a client     *)
(* that connected only, a chunk size to one that sent its own.             *)
(***************************************************************************)
THEOREM RepliesEarnedAlways == Spec => []RepliesEarned
<1>1. EndInv => RepliesEarned
  BY DEF EndInv
<1> QED BY Invariants, <1>1, PTL

(***************************************************************************)
(* A client whose connect command was found is sent the window             *)
(* acknowledgement size before its socket is closed, unless a call failed  *)
(* on the way, for every stream and every way it is cut.                   *)
(***************************************************************************)
THEOREM AckSentAlways == Spec => []AckSent
<1>1. SentInv => AckSent
  BY DEF SentInv, AckSent
<1> QED BY InitSent, NextSent, <1>1, PTL DEF Spec

=============================================================================
