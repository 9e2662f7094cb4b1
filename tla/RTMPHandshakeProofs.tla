------------------------- MODULE RTMPHandshakeProofs -------------------------
(***************************************************************************)
(* Proofs about RTMPHandshake, for every number of workers, every buffer   *)
(* size from 12 bytes on and every pair of read sizes.                     *)
(*                                                                         *)
(* SavedInv follows the bytes of one client through client_handshake while *)
(* nobody else writes there; GreetingInv follows the greeting through      *)
(* randomBytes in the same way; AnswerInv says what is on the stack when   *)
(* the two are compared.                                                   *)
(***************************************************************************)
EXTENDS RTMPHandshake, TLAPS

SavedInv ==
    \A w \in Workers :
        clientOf = w =>
            /\ pc[w] = "save" =>
                 \A k \in 0 .. N - 2 : client[k] = Byte(who[w], k)
            /\ pc[w] \in {"head", "seed", "draw", "greet", "drop", "stamp"} =>
                 \A k \in 0 .. N - 3 : client[k] = Own(w, k)
            /\ pc[w] = "echo" =>
                 \A k \in 0 .. N - 3 :
                   client[k] = IF k \in 5 .. 8 THEN Zero ELSE Own(w, k)

GreetingInv ==
    \A w \in Workers :
        randomOf = w =>
            /\ pc[w] = "drop" => random = sent[w]
            /\ pc[w] \in {"stamp", "echo", "answer", "compare"} => random = Echo(w)

AnswerInv ==
    \A w \in Workers :
        /\ pc[w] = "compare" /\ answer[w] = "echo" =>
             \A k \in 0 .. N - 3 : back[w][k] = Echo(w)[k]
        /\ pc[w] = "compare" /\ answer[w] = "wrong" =>
             \E k \in 0 .. N - 3 : back[w][k] # Echo(w)[k]

-----------------------------------------------------------------------------
(* The bytes of the model.                                                 *)

\* An answer is an array of bytes.
LEMMA AnswersType ==
    ASSUME NEW w \in Workers, Echo(w) \in [Index -> RandomBytes \cup {Other}]
    PROVE  Answers(w) \subseteq [Index -> RandomBytes \cup {Other}]
<1> DEFINE Slot == [Index -> RandomBytes \cup {Other}]
<1>1. ASSUME NEW a \in Answers(w) PROVE a \in Slot
  <2>1. a = Echo(w) \/ \E k \in WrongAt, byte \in WrongBytes : a = [Echo(w) EXCEPT ![k] = byte]
    BY DEF Answers
  <2>2. \A byte \in WrongBytes : byte \in RandomBytes \cup {Other}
    BY HandshakeAssumption
  <2>3. ASSUME NEW k, NEW byte \in RandomBytes \cup {Other}
        PROVE  [Echo(w) EXCEPT ![k] = byte] \in Slot
    OBVIOUS
  <2> HIDE DEF Slot
  <2> QED BY <2>1, <2>2, <2>3
<1> QED BY <1>1

LEMMA ShiftType ==
    ASSUME NEW S, NEW a \in [Index -> S] PROVE ShiftLeft(a) \in [Index -> S]
  BY HandshakeAssumption DEF ShiftLeft, Index

-----------------------------------------------------------------------------
(* Type correctness.                                                       *)

LEMMA TypeInit == Init => TypeOK
<1> SUFFICES ASSUME Init PROVE TypeOK
  OBVIOUS
<1>1. Zero \in RandomBytes /\ Zero \in ClientBytes
  BY DEF RandomBytes, ClientBytes
<1>2. QED
  BY <1>1, HandshakeAssumption DEF Init, TypeOK, EndPC, Zeros

LEMMA TypeStep == ASSUME TypeOK, [Next]_vars PROVE TypeOK'
<1> USE HandshakeAssumption DEF TypeOK, arrays, locals, history, At, Goto, EndPC, StepPC
<1>0. Zero \in RandomBytes /\ Version \in RandomBytes /\ Zero \in ClientBytes
  BY DEF RandomBytes, ClientBytes
<1>1. ASSUME NEW w \in Workers, NEW c \in Clients, NEW size \in C1Sizes,
             ReadC1(w, c, size)
      PROVE  TypeOK'
  <2>1. client' \in [Index -> ClientBytes]
    BY <1>1 DEF ReadC1, ClientBytes, Byte
  <2>2. QED
    BY <1>1, <2>1 DEF ReadC1
<1>2. ASSUME NEW w \in Workers, SaveC1(w) PROVE TypeOK'
  BY <1>2, ShiftType DEF SaveC1, Touch
<1>3. ASSUME NEW w \in Workers, FillHead(w) PROVE TypeOK'
  BY <1>0, <1>3 DEF FillHead, Touch
<1>4. ASSUME NEW w \in Workers, Seed(w) PROVE TypeOK'
  BY <1>4 DEF Seed
<1>5. ASSUME NEW w \in Workers, Draw(w) PROVE TypeOK'
  <2>1. i[w] \in 9 .. N - 3 /\ i[w] \in Index
    BY <1>5 DEF Draw, Index
  <2>2. Byte("rand", draws) \in RandomBytes
    BY DEF RandomBytes, Byte
  <2>3. random' \in [Index -> RandomBytes]
    BY <1>5, <2>1, <2>2 DEF Draw
  <2>4. i' \in [Workers -> 0 .. N - 3]
    BY <1>5, <2>1 DEF Draw
  <2>5. \A v \in Workers : pc'[v] = "draw" => i'[v] \in 9 .. N - 3
    BY <1>5, <2>1 DEF Draw
  <2>6. QED
    BY <1>5, <2>3, <2>4, <2>5 DEF Draw, Touch
<1>6. ASSUME NEW w \in Workers, SendRandom(w) PROVE TypeOK'
  BY <1>6 DEF SendRandom
<1>7. ASSUME NEW w \in Workers, DropVersion(w) PROVE TypeOK'
  BY <1>7, ShiftType DEF DropVersion, Touch
<1>8. ASSUME NEW w \in Workers, Stamp(w) PROVE TypeOK'
  BY <1>0, <1>8 DEF Stamp, Touch
<1>9. ASSUME NEW w \in Workers, SendBack(w) \/ SendFails(w) PROVE TypeOK'
  <2>1. Zeros \in [Index -> RandomBytes]
    BY <1>0 DEF Zeros
  <2>2. sent' \in [Workers -> [Index -> RandomBytes]]
    BY <1>9, <2>1 DEF SendBack, SendFails
  <2>3. QED
    BY <1>9, <2>2 DEF SendBack, SendFails
<1>10. ASSUME NEW w \in Workers, NEW size \in C2Sizes, ReadC2(w, size) PROVE TypeOK'
  <2> DEFINE Slot == [Index -> RandomBytes \cup {Other}]
  <2>1. Echo(w) \in Slot
    BY ShiftType DEF Echo
  <2>2. Answers(w) \subseteq Slot
    BY <2>1, AnswersType
  <2>3. Leftovers(w) \subseteq Slot
    BY <1>0 DEF Leftovers, Zeros
  <2>4. PICK bytes \in Answers(w), stack \in Leftovers(w) :
          /\ back' = [back EXCEPT ![w] =
                        [k \in Index |-> IF k < size THEN bytes[k] ELSE stack[k]]]
          /\ answer' = [answer EXCEPT ![w] = IF size < N - 2 THEN "short"
                                             ELSE IF bytes = Echo(w) THEN "echo"
                                             ELSE "wrong"]
    BY <1>10, Zenon DEF ReadC2
  <2>5. back' \in [Workers -> Slot]
    <3>1. bytes \in Slot /\ stack \in Slot
      BY <2>2, <2>3
    <3>2. QED
      BY <2>4, <3>1
  <2>6. answer' \in [Workers -> {"none", "short", "echo", "wrong"}]
    BY <1>10 DEF ReadC2
  <2>7. QED
    BY <1>10, <2>5, <2>6 DEF ReadC2
<1>11. ASSUME NEW w \in Workers, Compare(w) PROVE TypeOK'
  <2>1. Zeros \in [Index -> RandomBytes]
    BY <1>0 DEF Zeros
  <2>2. Zeros \in [Index -> RandomBytes \cup {Other}]
    BY <2>1
  <2>3. QED
    BY <1>11, <2>1, <2>2 DEF Compare
<1>12. CASE UNCHANGED vars
  BY <1>12 DEF vars
<1>13. QED
  BY <1>1, <1>2, <1>3, <1>4, <1>5, <1>6, <1>7, <1>8, <1>9, <1>10, <1>11, <1>12
     DEF Next, Handshake

\* Every variable stays within its type; the loop counter of the draws never
\* leaves the part of the array that is compared later.
THEOREM TypeCorrect == Spec => []TypeOK
  BY TypeInit, TypeStep, PTL DEF Spec

-----------------------------------------------------------------------------
(* The client's bytes.                                                     *)

LEMMA SavedStep == ASSUME TypeOK, SavedInv, [Next]_vars PROVE SavedInv'
<1> USE HandshakeAssumption DEF TypeOK, SavedInv, arrays, locals, history, At, Goto,
                                Touch
<1>1. ASSUME NEW w \in Workers, NEW c \in Clients, NEW size \in C1Sizes,
             ReadC1(w, c, size)
      PROVE  SavedInv'
  <2>1. ASSUME pc'[w] = "save" PROVE \A k \in 0 .. N - 2 : client'[k] = Byte(c, k)
    BY <1>1, <2>1 DEF ReadC1, Index
  <2>2. pc'[w] \in {"save", "failed"} /\ who'[w] = c /\ clientOf' = w
    BY <1>1 DEF ReadC1
  <2>3. QED
    BY <2>1, <2>2
<1>2. ASSUME NEW w \in Workers, SaveC1(w) PROVE SavedInv'
  <2>1. /\ pc[w] = "save" /\ pc'[w] = "head" /\ UNCHANGED who
        /\ clientOf' # w => clientOf' = Nobody
        /\ clientOf' = w => clientOf = w
    BY <1>2 DEF SaveC1
  <2>2. ASSUME clientOf' = w PROVE \A k \in 0 .. N - 3 : client'[k] = Own(w, k)
    <3>1. \A k \in 0 .. N - 2 : client[k] = Byte(who[w], k)
      BY <2>1, <2>2
    <3>2. \A k \in 0 .. N - 3 : client'[k] = client[k + 1]
      BY <1>2 DEF SaveC1, ShiftLeft, Index
    <3>3. QED
      BY <3>1, <3>2 DEF Own
  <2>3. QED
    BY <2>1, <2>2 DEF Own
<1>3. ASSUME NEW w \in Workers, FillHead(w) \/ Seed(w) \/ Draw(w) \/ DropVersion(w)
      PROVE  SavedInv'
  BY <1>3 DEF FillHead, Seed, Draw, DropVersion, Own
<1>4. ASSUME NEW w \in Workers, SendRandom(w) PROVE SavedInv'
  BY <1>4 DEF SendRandom, Own
<1>5. ASSUME NEW w \in Workers, Stamp(w) PROVE SavedInv'
  <2>1. /\ pc[w] = "stamp" /\ pc'[w] = "echo" /\ UNCHANGED who
        /\ clientOf' # w => clientOf' = Nobody
        /\ clientOf' = w => clientOf = w
    BY <1>5 DEF Stamp
  <2>2. \A k \in 0 .. N - 3 : client'[k] = IF k \in 5 .. 8 THEN Zero ELSE client[k]
    BY <1>5 DEF Stamp, Index
  <2>3. QED
    BY <2>1, <2>2 DEF Own
<1>6. ASSUME NEW w \in Workers, SendBack(w) \/ SendFails(w) PROVE SavedInv'
  BY <1>6 DEF SendBack, SendFails, Own
<1>7. ASSUME NEW w \in Workers, NEW size \in C2Sizes, ReadC2(w, size) PROVE SavedInv'
  BY <1>7 DEF ReadC2, Own
<1>8. ASSUME NEW w \in Workers, Compare(w) PROVE SavedInv'
  BY <1>8 DEF Compare, Own
<1>9. CASE UNCHANGED vars
  BY <1>9 DEF vars, Own
<1>10. QED
  BY <1>1, <1>2, <1>3, <1>4, <1>5, <1>6, <1>7, <1>8, <1>9 DEF Next, Handshake

\* As long as nobody else writes to client_handshake, a client is sent its own
\* bytes, for every number of workers and every buffer size.
THEOREM OwnBytesBackAlways == Spec => []OwnBytesBack
<1>1. Init => SavedInv
  BY DEF Init, SavedInv
<1>2. SavedInv => OwnBytesBack
  BY DEF SavedInv, OwnBytesBack
<1>3. QED
  BY <1>1, <1>2, TypeInit, TypeStep, SavedStep, PTL DEF Spec

-----------------------------------------------------------------------------
(* The greeting and the answer.                                            *)

LEMMA GreetingStep == ASSUME TypeOK, GreetingInv, [Next]_vars PROVE GreetingInv'
<1> USE HandshakeAssumption DEF TypeOK, GreetingInv, arrays, locals, history, At, Goto,
                                Touch, Echo
<1>1. ASSUME NEW w \in Workers, NEW c \in Clients, NEW size \in C1Sizes,
             ReadC1(w, c, size)
      PROVE  GreetingInv'
  BY <1>1 DEF ReadC1
<1>2. ASSUME NEW w \in Workers, SaveC1(w) \/ Seed(w) \/ Stamp(w) PROVE GreetingInv'
  BY <1>2 DEF SaveC1, Seed, Stamp
<1>3. ASSUME NEW w \in Workers, FillHead(w) \/ Draw(w) PROVE GreetingInv'
  BY <1>3 DEF FillHead, Draw
<1>4. ASSUME NEW w \in Workers, SendRandom(w) PROVE GreetingInv'
  BY <1>4 DEF SendRandom
<1>5. ASSUME NEW w \in Workers, DropVersion(w) PROVE GreetingInv'
  BY <1>5 DEF DropVersion
<1>6. ASSUME NEW w \in Workers, SendBack(w) \/ SendFails(w) PROVE GreetingInv'
  BY <1>6 DEF SendBack, SendFails
<1>7. ASSUME NEW w \in Workers, NEW size \in C2Sizes, ReadC2(w, size) PROVE GreetingInv'
  BY <1>7 DEF ReadC2
<1>8. ASSUME NEW w \in Workers, Compare(w) PROVE GreetingInv'
  BY <1>8 DEF Compare
<1>9. CASE UNCHANGED vars
  BY <1>9 DEF vars
<1>10. QED
  BY <1>1, <1>2, <1>3, <1>4, <1>5, <1>6, <1>7, <1>8, <1>9 DEF Next, Handshake

LEMMA AnswerStep == ASSUME TypeOK, AnswerInv, [Next]_vars PROVE AnswerInv'
<1> USE HandshakeAssumption DEF TypeOK, AnswerInv, arrays, locals, history, At, Goto,
                                Echo
<1>1. ASSUME NEW w \in Workers, NEW c \in Clients, NEW size \in C1Sizes,
             ReadC1(w, c, size)
      PROVE  AnswerInv'
  BY <1>1 DEF ReadC1
<1>2. ASSUME NEW w \in Workers,
             \/ SaveC1(w) \/ FillHead(w) \/ Seed(w) \/ Draw(w) \/ SendRandom(w)
             \/ DropVersion(w) \/ Stamp(w) \/ SendBack(w) \/ SendFails(w)
      PROVE  AnswerInv'
  BY <1>2 DEF SaveC1, FillHead, Seed, Draw, SendRandom, DropVersion, Stamp, SendBack,
              SendFails
<1>3. ASSUME NEW w \in Workers, NEW size \in C2Sizes, ReadC2(w, size) PROVE AnswerInv'
  <2>1. PICK bytes \in Answers(w), stack \in Leftovers(w) :
          /\ back' = [back EXCEPT ![w] =
                        [k \in Index |-> IF k < size THEN bytes[k] ELSE stack[k]]]
          /\ answer' = [answer EXCEPT ![w] = IF size < N - 2 THEN "short"
                                             ELSE IF bytes = Echo(w) THEN "echo"
                                             ELSE "wrong"]
    BY <1>3, Zenon DEF ReadC2
  <2>2. /\ UNCHANGED sent
        /\ \A v \in Workers : v # w => /\ pc'[v] = pc[v] /\ answer'[v] = answer[v]
                                       /\ back'[v] = back[v]
    BY <1>3, <2>1 DEF ReadC2
  <2>3. size >= N - 2 => \A k \in 0 .. N - 3 : back'[w][k] = bytes[k]
    BY <2>1 DEF Index
  <2>4. answer'[w] = "echo" => bytes = Echo(w) /\ size >= N - 2
    BY <2>1
  <2>5. answer'[w] = "wrong" => bytes # Echo(w) /\ size >= N - 2
    BY <2>1
  <2>6. answer'[w] = "echo" => \A k \in 0 .. N - 3 : back'[w][k] = Echo(w)[k]
    BY <2>3, <2>4
  <2>7. answer'[w] = "wrong" => \E k \in 0 .. N - 3 : back'[w][k] # Echo(w)[k]
    <3>1. SUFFICES ASSUME answer'[w] = "wrong"
                   PROVE  \E k \in 0 .. N - 3 : back'[w][k] # Echo(w)[k]
      OBVIOUS
    <3>2. PICK k \in WrongAt, byte \in WrongBytes : bytes = [Echo(w) EXCEPT ![k] = byte]
      BY <2>5, <3>1 DEF Answers
    <3>3. k \in 0 .. N - 3 /\ back'[w][k] = bytes[k]
      BY <2>3, <2>5, <3>1
    <3>4. Echo(w) \in [Index -> RandomBytes]
      BY ShiftType DEF Echo
    <3>5. bytes[k] # Echo(w)[k]
      BY <2>5, <3>1, <3>2, <3>4
    <3>6. QED
      BY <3>3, <3>5
  <2>8. QED
    BY <2>2, <2>6, <2>7
<1>4. ASSUME NEW w \in Workers, Compare(w) PROVE AnswerInv'
  BY <1>4 DEF Compare
<1>5. CASE UNCHANGED vars
  BY <1>5 DEF vars
<1>6. QED
  BY <1>1, <1>2, <1>3, <1>4, <1>5 DEF Next, Handshake

HandshakeInv == TypeOK /\ GreetingInv /\ AnswerInv

LEMMA HandshakeInvariant == Spec => []HandshakeInv
<1>1. Init => HandshakeInv
  <2>1. Init => GreetingInv /\ AnswerInv
    BY HandshakeAssumption DEF Init, GreetingInv, AnswerInv
  <2>2. QED
    BY <2>1, TypeInit DEF HandshakeInv
<1>2. HandshakeInv /\ [Next]_vars => HandshakeInv'
  BY TypeStep, GreetingStep, AnswerStep DEF HandshakeInv
<1>3. QED
  BY <1>1, <1>2, PTL DEF Spec

\* The worker that leaves the comparison is the one that compared.
LEMMA OnlyCompareLeaves ==
    ASSUME TypeOK, [Next]_vars, NEW w \in Workers, pc[w] = "compare", pc'[w] # pc[w]
    PROVE  Compare(w)
<1>1. PICK v \in Workers : Handshake(v)
  BY DEF Next, vars
<1>2. v = w
  BY <1>1 DEF TypeOK, Handshake, ReadC1, SaveC1, FillHead, Seed, Draw, SendRandom,
              DropVersion, Stamp, SendBack, SendFails, ReadC2, Compare, Goto
<1>3. QED
  BY <1>1, <1>2 DEF Handshake, ReadC1, SaveC1, FillHead, Seed, Draw, SendRandom,
                    DropVersion, Stamp, SendBack, SendFails, ReadC2, At, EndPC

\* A client that returns the greeting in full completes the handshake when nobody
\* else has written to randomBytes since, for every number of workers and every
\* buffer size.
THEOREM HonestCompletesAlways == Spec => HonestCompletes
<1>1. ASSUME HandshakeInv, [Next]_vars, NEW w \in Workers,
             pc[w] = "compare", answer[w] = "echo", randomOf = w, pc'[w] # pc[w]
      PROVE  pc'[w] = "done"
  <2>1. Compare(w)
    BY <1>1, OnlyCompareLeaves DEF HandshakeInv
  <2>2. Equal(w)
    BY <1>1 DEF HandshakeInv, GreetingInv, AnswerInv, Equal
  <2>3. QED
    BY <1>1, <2>1, <2>2 DEF Compare, Goto, HandshakeInv, TypeOK
<1>2. HandshakeInv /\ [Next]_vars
        => [\A w \in Workers :
              pc[w] = "compare" /\ answer[w] = "echo" /\ randomOf = w /\ pc'[w] # pc[w]
                 => pc'[w] = "done"]_vars
  BY <1>1
<1>3. QED
  BY <1>2, HandshakeInvariant, PTL DEF Spec, HonestCompletes

\* A full answer that differs from the greeting sent is refused when nobody else
\* has written to randomBytes since: at whatever place the wrong byte is, and
\* whatever it is.
THEOREM WrongRefusedAlways == Spec => WrongRefused
<1>1. ASSUME HandshakeInv, [Next]_vars, NEW w \in Workers,
             pc[w] = "compare", answer[w] = "wrong", randomOf = w, pc'[w] # pc[w]
      PROVE  pc'[w] = "failed"
  <2>1. Compare(w)
    BY <1>1, OnlyCompareLeaves DEF HandshakeInv
  <2>2. random = Echo(w)
    BY <1>1 DEF HandshakeInv, GreetingInv
  <2>3. \E k \in 0 .. N - 3 : back[w][k] # Echo(w)[k]
    BY <1>1 DEF HandshakeInv, AnswerInv
  <2>4. ~Equal(w)
    BY <2>2, <2>3 DEF Equal
  <2>5. QED
    BY <1>1, <2>1, <2>4 DEF Compare, Goto, HandshakeInv, TypeOK
<1>2. HandshakeInv /\ [Next]_vars
        => [\A w \in Workers :
              pc[w] = "compare" /\ answer[w] = "wrong" /\ randomOf = w /\ pc'[w] # pc[w]
                 => pc'[w] = "failed"]_vars
  BY <1>1
<1>3. QED
  BY <1>2, HandshakeInvariant, PTL DEF Spec, WrongRefused
=============================================================================
