--------------------------- MODULE RTMPHandshake ---------------------------
(***************************************************************************)
(* The RTMP handshake, run by every worker for its own client on the two   *)
(* arrays client_handshake and randomBytes, which are globals: all workers *)
(* write and read the same two, and no lock covers them.                   *)
(*                                                                         *)
(* A byte is symbolic: byte i of what a client sent, the k-th number since *)
(* srand, zero, the version, or something else.  Each library call (read,  *)
(* send, memmove, memcmp, rand) is one step, and the workers interleave    *)
(* between them.                                                           *)
(***************************************************************************)
EXTENDS Integers

CONSTANTS
    Workers,   \* the threads of the pool
    Clients,   \* whose bytes a worker may be reading
    N,         \* HANDSHAKE_BUFFER_SIZE
    C1Sizes,   \* what the first read may return
    C2Sizes,   \* what the second read may return
    WrongAt,   \* where an answer may have a wrong byte, of those compared
    WrongBytes,\* what the wrong byte may be
    Keeping,   \* the workers whose stack survives from one handshake to the next
    Nobody     \* no worker

Index == 0 .. N - 1

Byte(kind, k) == <<kind, k>>
Zero    == Byte("zero", 0)
Version == Byte("version", 0)
Other   == Byte("other", 0)

\* What the two arrays can hold.
RandomBytes == {Zero, Version} \cup ({"rand"} \X Nat)
ClientBytes == {Zero} \cup (Clients \X Index)

ASSUME HandshakeAssumption ==
    /\ N \in Nat /\ N >= 12
    /\ C1Sizes \subseteq -1 .. N
    /\ C2Sizes \subseteq -1 .. N - 2
    /\ WrongAt \subseteq 0 .. N - 3
    /\ Keeping \subseteq Workers
    /\ \A byte \in WrongBytes : byte \in RandomBytes \cup {Other}
    /\ Clients \cap {"zero", "version", "rand", "other"} = {}
    /\ Nobody \notin Workers

VARIABLES
    process,   \* "running", or "dead" once a signal ended it
    pc,        \* where each worker is in processHandshake
    client,    \* client_handshake
    random,    \* randomBytes
    draws,     \* calls of rand() since the last srand()
    i,         \* the loop counter of createHandshakeEcho
    back,      \* client_handshakeBack, and after its scope the stack slot
    \* History.
    who,       \* the client of each worker's handshake
    sent,      \* the randomBytes that were sent to it
    answer,    \* what it answered: "none", "short", "echo" or "wrong"
    clientOf,  \* the worker whose bytes client_handshake holds and that no
               \* other has written to since, or Nobody
    randomOf   \* the same for randomBytes, since the worker sent them

arrays  == <<client, random>>
locals  == <<i, back>>
history == <<who, sent, answer>>
vars == <<process, pc, arrays, draws, locals, history, clientOf, randomOf>>

Zeros == [k \in Index |-> Zero]

EndPC  == {"idle", "done", "failed"}
StepPC == {"save", "head", "seed", "draw", "greet", "drop", "stamp", "echo",
           "answer", "compare"}

Running == process = "running"
At(w, step) == Running /\ pc[w] = step
Goto(w, step) == pc' = [pc EXCEPT ![w] = step]

\* Worker w writes to an array of which `owner` was the only writer.
Touch(owner, w) == IF owner = w THEN w ELSE Nobody

\* memmove(a, a + 1, N - 1): the last byte stays where it is and is copied.
ShiftLeft(a) == [k \in Index |-> IF k < N - 1 THEN a[k + 1] ELSE a[k]]

Init ==
    /\ process = "running"
    /\ pc = [w \in Workers |-> "idle"]
    /\ client = Zeros
    /\ random = Zeros
    /\ draws = 0
    /\ i = [w \in Workers |-> 0]
    /\ back = [w \in Workers |-> Zeros]
    /\ who \in [Workers -> Clients]
    /\ sent = [w \in Workers |-> Zeros]
    /\ answer = [w \in Workers |-> "none"]
    /\ clientOf = Nobody
    /\ randomOf = Nobody

-----------------------------------------------------------------------------
(* Mistakes: what a plausible error would make of some of the definitions  *)
(* below.  PROJECT.json pairs each with the property that notices it.      *)

\* Only a failed or empty read is refused.
ReadC1AnyLength(w, c, size) ==
    /\ Running /\ pc[w] \in EndPC
    /\ client' = [k \in Index |-> IF k < size THEN Byte(c, k) ELSE client[k]]
    /\ Goto(w, IF size > 0 THEN "save" ELSE "failed")
    /\ who' = [who EXCEPT ![w] = c]
    /\ answer' = [answer EXCEPT ![w] = "none"]
    /\ clientOf' = w
    /\ UNCHANGED <<process, random, draws, locals, sent, randomOf>>

\* The loop fills one byte more.
DrawOneMore(w) ==
    /\ At(w, "draw")
    /\ random' = [random EXCEPT ![i[w]] = Byte("rand", draws)]
    /\ randomOf' = Touch(randomOf, w)
    /\ draws' = draws + 1
    /\ i' = [i EXCEPT ![w] = IF @ + 1 <= N - 2 THEN @ + 1 ELSE 0]
    /\ Goto(w, IF i[w] + 1 <= N - 2 THEN "draw" ELSE "greet")
    /\ UNCHANGED <<process, client, back, history, clientOf>>

\* memcmp over the whole arrays, and over one byte less.
EqualWhole(w) == \A k \in Index : random[k] = back[w][k]
EqualButLast(w) == \A k \in 0 .. N - 4 : random[k] = back[w][k]

-----------------------------------------------------------------------------
(* receiveHandshake.                                                       *)

\* read() puts up to N bytes of the client into the shared array; only then
\* is the length tested, and anything but N - 1 ends the handshake.
ReadC1(w, c, size) ==
    /\ Running /\ pc[w] \in EndPC
    /\ client' = [k \in Index |-> IF k < size THEN Byte(c, k) ELSE client[k]]
    /\ Goto(w, IF size = N - 1 THEN "save" ELSE "failed")
    /\ who' = [who EXCEPT ![w] = c]
    /\ answer' = [answer EXCEPT ![w] = "none"]
    /\ clientOf' = w
    /\ UNCHANGED <<process, random, draws, locals, sent, randomOf>>

\* memmove drops the version byte of the client.
SaveC1(w) ==
    /\ At(w, "save")
    /\ client' = ShiftLeft(client)
    /\ clientOf' = Touch(clientOf, w)
    /\ Goto(w, "head")
    /\ UNCHANGED <<process, random, draws, locals, history, randomOf>>

-----------------------------------------------------------------------------
(* createHandshakeEcho and sendRandomBytes.                                *)

FillHead(w) ==
    /\ At(w, "head")
    /\ random' = [k \in Index |-> IF k = 0 THEN Version
                                  ELSE IF k <= 8 THEN Zero ELSE random[k]]
    /\ randomOf' = Touch(randomOf, w)
    /\ Goto(w, "seed")
    /\ UNCHANGED <<process, client, draws, locals, history, clientOf>>

\* srand(255): the generator is the process's, not the worker's.
Seed(w) ==
    /\ At(w, "seed")
    /\ draws' = 0
    /\ i' = [i EXCEPT ![w] = 9]
    /\ Goto(w, "draw")
    /\ UNCHANGED <<process, arrays, back, history, clientOf, randomOf>>

Draw(w) ==
    /\ At(w, "draw")
    /\ random' = [random EXCEPT ![i[w]] = Byte("rand", draws)]
    /\ randomOf' = Touch(randomOf, w)
    /\ draws' = draws + 1
    /\ i' = [i EXCEPT ![w] = IF @ + 1 < N - 2 THEN @ + 1 ELSE 0]
    /\ Goto(w, IF i[w] + 1 < N - 2 THEN "draw" ELSE "greet")
    /\ UNCHANGED <<process, client, back, history, clientOf>>

SendRandom(w) ==
    /\ At(w, "greet")
    /\ sent' = [sent EXCEPT ![w] = random]
    /\ randomOf' = w
    /\ Goto(w, "drop")
    /\ UNCHANGED <<process, arrays, draws, locals, who, answer, clientOf>>

\* memmove drops the version byte of the greeting.
DropVersion(w) ==
    /\ At(w, "drop")
    /\ random' = ShiftLeft(random)
    /\ randomOf' = Touch(randomOf, w)
    /\ Goto(w, "stamp")
    /\ UNCHANGED <<process, client, draws, locals, history, clientOf>>

-----------------------------------------------------------------------------
(* sendHandshake.                                                          *)

Stamp(w) ==
    /\ At(w, "stamp")
    /\ client' = [k \in Index |-> IF k \in 5 .. 8 THEN Zero ELSE client[k]]
    /\ clientOf' = Touch(clientOf, w)
    /\ Goto(w, "echo")
    /\ UNCHANGED <<process, random, draws, locals, history, randomOf>>

\* What goes out is the array as it is now.
SendBack(w) ==
    /\ At(w, "echo")
    /\ Goto(w, "answer")
    /\ UNCHANGED <<process, arrays, draws, locals, history, clientOf, randomOf>>

\* send() returns -1 and check() throws, or the client is gone and SIGPIPE
\* ends the process.
SendFails(w) ==
    /\ At(w, "greet") \/ At(w, "echo")
    /\ \/ /\ Goto(w, "failed")
          /\ sent' = [sent EXCEPT ![w] = Zeros]
          /\ UNCHANGED process
       \/ process' = "dead" /\ UNCHANGED <<pc, sent>>
    /\ UNCHANGED <<arrays, draws, locals, who, answer, clientOf, randomOf>>

-----------------------------------------------------------------------------
(* receiveBack.                                                            *)

\* The bytes an honest client returns: the greeting without its version byte.
Echo(w) == ShiftLeft(sent[w])

\* What a client may answer: the echo, or one with a byte replaced.  The wrong
\* byte may well be one that another worker has put, or will put, in its place
\* in randomBytes.
Answers(w) ==
    {Echo(w)} \cup {[Echo(w) EXCEPT ![k] = byte] : k \in WrongAt, byte \in WrongBytes}

\* client_handshakeBack is not initialised.  Every handshake of a worker has it
\* in the same place of the thread's stack, which still holds what the handshake
\* before left there unless calls in between have written over it.
Leftovers(w) == {back[w], Zeros, [k \in Index |-> Other]}

\* read() of N - 2 bytes, whose result is not looked at.
ReadC2(w, size) ==
    /\ At(w, "answer")
    /\ \E bytes \in Answers(w), stack \in Leftovers(w) :
         /\ back' = [back EXCEPT ![w] =
                       [k \in Index |-> IF k < size THEN bytes[k] ELSE stack[k]]]
         /\ answer' = [answer EXCEPT ![w] = IF size < N - 2 THEN "short"
                                            ELSE IF bytes = Echo(w) THEN "echo"
                                            ELSE "wrong"]
    /\ Goto(w, "compare")
    /\ UNCHANGED <<process, arrays, draws, i, who, sent, clientOf, randomOf>>

\* memcmp over N - 2 bytes
Equal(w) == \A k \in 0 .. N - 3 : random[k] = back[w][k]

Compare(w) ==
    /\ At(w, "compare")
    /\ Goto(w, IF Equal(w) THEN "done" ELSE "failed")
    /\ back' = IF w \in Keeping THEN back ELSE [back EXCEPT ![w] = Zeros]
    /\ sent' = [sent EXCEPT ![w] = Zeros]
    /\ UNCHANGED <<process, arrays, draws, i, who, answer, clientOf, randomOf>>

-----------------------------------------------------------------------------
Handshake(w) ==
    \/ \E c \in Clients, size \in C1Sizes : ReadC1(w, c, size)
    \/ SaveC1(w)
    \/ FillHead(w)
    \/ Seed(w)
    \/ Draw(w)
    \/ SendRandom(w)
    \/ DropVersion(w)
    \/ Stamp(w)
    \/ SendBack(w)
    \/ SendFails(w)
    \/ \E size \in C2Sizes : ReadC2(w, size)
    \/ Compare(w)

Next == \E w \in Workers : Handshake(w)

Spec == Init /\ [][Next]_vars

-----------------------------------------------------------------------------
(* Properties.                                                             *)

TypeOK ==
    /\ process \in {"running", "dead"}
    /\ pc \in [Workers -> EndPC \cup StepPC]
    /\ client \in [Index -> ClientBytes]
    /\ random \in [Index -> RandomBytes]
    /\ draws \in Nat
    /\ i \in [Workers -> 0 .. N - 3]
    /\ \A w \in Workers : pc[w] = "draw" => i[w] \in 9 .. N - 3
    /\ back \in [Workers -> [Index -> RandomBytes \cup {Other}]]
    /\ who \in [Workers -> Clients]
    /\ sent \in [Workers -> [Index -> RandomBytes]]
    /\ answer \in [Workers -> {"none", "short", "echo", "wrong"}]
    /\ clientOf \in Workers \cup {Nobody}
    /\ randomOf \in Workers \cup {Nobody}

\* Byte k of what a client sent, without its version byte.
Own(w, k) == Byte(who[w], k + 1)

(***************************************************************************)
(* A worker whose saved bytes no other worker wrote to sends its client    *)
(* its own bytes back, the four that sendHandshake clears apart.           *)
(***************************************************************************)
OwnBytesBack ==
    \A w \in Workers :
        pc[w] = "echo" /\ clientOf = w
            => \A k \in 0 .. N - 3 :
                 client[k] = IF k \in 5 .. 8 THEN Zero ELSE Own(w, k)

(***************************************************************************)
(* A client that returns the greeting in full completes the handshake when *)
(* no other worker has written to randomBytes since it was sent: draws and *)
(* reseeding by others before that do no harm.                             *)
(***************************************************************************)
HonestCompletes ==
    [][\A w \in Workers :
         pc[w] = "compare" /\ answer[w] = "echo" /\ randomOf = w /\ pc'[w] # pc[w]
            => pc'[w] = "done"]_vars

(***************************************************************************)
(* A full answer that differs from the greeting its client was sent is     *)
(* refused when no other worker has written to randomBytes since: the      *)
(* comparison covers every byte of the answer, and what other workers drew *)
(* before is not taken for the greeting.  (With another worker at work in  *)
(* the array, a wrong byte that equals what it put there is accepted.)     *)
(***************************************************************************)
WrongRefused ==
    [][\A w \in Workers :
         pc[w] = "compare" /\ answer[w] = "wrong" /\ randomOf = w /\ pc'[w] # pc[w]
            => pc'[w] = "failed"]_vars

(***************************************************************************)
(* What the source says and the code does not do.                          *)
(***************************************************************************)

\* "it will safe those bytes to return them to client later": what is sent
\* back is what this client sent.
SavedBytesReturned ==
    \A w \in Workers :
        pc[w] = "echo" => \A k \in 9 .. N - 3 : client[k] = Own(w, k)

\* "Client didn't return handshake correctly": a handshake completes only if
\* the client returned the bytes.
CompletedMeansReturned ==
    \A w \in Workers : pc[w] = "done" => answer[w] = "echo"
=============================================================================
