--------------------------- MODULE RTMPConnexion ---------------------------
(***************************************************************************)
(* One connexion after accept: the handshake, the connect command read     *)
(* from a byte stream, and the replies.                                    *)
(*                                                                         *)
(* The client sends a sequence of messages; TCP hands them over in reads   *)
(* of any length.  The code parses each read by itself: a cursor jumps     *)
(* from header to header and the loop stops when it is exactly at the end  *)
(* of the read.  Positions are offsets in the client's stream.             *)
(*                                                                         *)
(* A message is a record:                                                  *)
(*   kind    what processBody makes of its type and contents               *)
(*   at      where it starts in the stream                                 *)
(*   head    bytes of its header                                           *)
(*   body    its message_length                                            *)
(*   extra   chunk headers the client put between the bytes of the body    *)
(*   error   the byteError AMF0Decoder reports for the body                *)
(* Its kind is "bare" when the header leaves length and type out (types 2  *)
(* and 3): the code then uses fields it has not initialised.               *)
(***************************************************************************)
EXTENDS Integers, Sequences

CONSTANTS
    Streams,   \* what a client may send
    BufSize    \* BUFSIZE: the most one read returns

\* "command" is an AMF0 command that is not connect.
Commands == {"connect", "command"}
Kinds    == Commands \cup {"chunk_size", "control", "bare"}

Messages == [kind : Kinds, at : Nat, head : Nat \ {0}, body : Nat, extra : Nat,
             error : Nat]

\* The bytes a message takes.
End(m) == m.at + m.head + m.body + m.extra

\* Only the body of a command is decoded, and only one that long is cut up.
Sound(m) == m.kind \notin Commands => m.extra = 0 /\ m.error = 0

\* The messages follow one another without a gap from the start of the stream.
Contiguous(s) ==
    /\ s # <<>> => s[1].at = 0
    /\ \A k \in 1 .. Len(s) - 1 : s[k + 1].at = End(s[k])

ASSUME ConnexionAssumption ==
    /\ Streams \subseteq Seq(Messages)
    /\ \A s \in Streams : Contiguous(s) /\ \A k \in 1 .. Len(s) : Sound(s[k])
    /\ BufSize \in Nat \ {0}

VARIABLES
    process,   \* "running", or "dead" once this connexion took it down
    pc,        \* where processRequest is
    tries,     \* calls of receiveAndProcessConnect so far
    stream,    \* the messages of this client
    base,      \* the first byte of the current read
    limit,     \* the byte after its last
    cursor,    \* full_buffer.get_actual_position()
    connect,   \* connect_packet: "empty" or "stored"
    replies,   \* the kinds of message the client was sent
    closes,    \* calls of close(clientFD)
    \* History.
    errors,    \* "none"; "read" or "other" when a read or another call has failed
    cut,       \* "no", or "yes" once a read ended inside a message
    astray     \* "no", or "yes" once the cursor was not at a header

window  == <<base, limit, cursor>>
history == <<errors, cut, astray>>
vars == <<process, pc, tries, stream, window, connect, replies, closes, history>>

Total == IF stream = <<>> THEN 0 ELSE End(stream[Len(stream)])

\* Message k is the one at the cursor, with its header in the buffer.
AtHeader(k) == cursor = stream[k].at /\ cursor + stream[k].head <= limit

\* Message k is in the buffer to its last byte.
Complete(k) == End(stream[k]) <= limit

\* The header gives the length, and the decoder counts the extra bytes.
Regular(m) == m.kind # "bare" /\ m.error = m.extra

At(step) == process = "running" /\ pc = step

Init ==
    /\ process = "running"
    /\ pc = "handshake"
    /\ tries = 0
    /\ stream \in Streams
    /\ base = 0 /\ limit = 0 /\ cursor = 0
    /\ connect = "empty"
    /\ replies = {}
    /\ closes = 0
    /\ errors = "none" /\ cut = "no" /\ astray = "no"

\* The process ends: a signal, a wild pointer or an uncaught exception.
Die ==
    /\ process' = "dead"
    /\ UNCHANGED <<pc, connect, replies, window>>

-----------------------------------------------------------------------------
(* Mistakes: what a plausible error would make of some of the definitions  *)
(* below.  PROJECT.json pairs each with the property that notices it.      *)

\* byteError is forgotten.
AdvanceByLength(m) == cursor' = cursor + m.head + m.body

\* An `if` in the place of the `while`.
EndAfterOne ==
    /\ At("loop") /\ (cursor = limit \/ cursor > base)
    /\ pc' = IF connect = "stored" THEN "ack" ELSE IF tries < 2 THEN "receive" ELSE "throw"
    /\ UNCHANGED <<process, tries, stream, window, connect, replies, closes, history>>

\* One retry too many, retries without a limit, and no look at what came.
EndTriesThrice ==
    /\ At("loop") /\ cursor = limit
    /\ pc' = IF connect = "stored" THEN "ack" ELSE IF tries <= 2 THEN "receive" ELSE "throw"
    /\ UNCHANGED <<process, tries, stream, window, connect, replies, closes, history>>

EndTriesForever ==
    /\ At("loop") /\ cursor = limit
    /\ pc' = IF connect = "stored" THEN "ack" ELSE "receive"
    /\ tries' = 0
    /\ UNCHANGED <<process, stream, window, connect, replies, closes, history>>

EndWithoutLooking ==
    /\ At("loop") /\ cursor = limit
    /\ pc' = IF connect = "stored" \/ tries = 2 THEN "ack" ELSE "receive"
    /\ UNCHANGED <<process, tries, stream, window, connect, replies, closes, history>>

\* A connect command that came with the second read is not looked for.
EndOfReads ==
    /\ At("loop") /\ cursor = limit
    /\ pc' = IF tries = 2 THEN "throw" ELSE IF connect = "stored" THEN "ack" ELSE "receive"
    /\ UNCHANGED <<process, tries, stream, window, connect, replies, closes, history>>

\* An exception after the socket was closed.
CloseThenThrow ==
    /\ At("close")
    /\ closes' = closes + 1
    /\ pc' \in {"returned", "throw"}
    /\ UNCHANGED <<process, tries, stream, window, connect, replies, history>>

-----------------------------------------------------------------------------
(* The handshake, and a SocketException from anywhere in processRequest.   *)

HandshakeDone ==
    /\ At("handshake")
    /\ pc' = "receive"
    /\ UNCHANGED <<process, tries, stream, window, connect, replies, closes, history>>

HandshakeFails ==
    /\ At("handshake")
    /\ errors' = "other"
    /\ \/ pc' = "throw" /\ UNCHANGED <<process, connect, replies, window>>
       \/ Die
    /\ UNCHANGED <<tries, stream, closes, cut, astray>>

\* catch (const SocketException &e)
Catch ==
    /\ At("throw")
    /\ closes' = closes + 1
    /\ pc' = "returned"
    /\ UNCHANGED <<process, tries, stream, window, connect, replies, history>>

-----------------------------------------------------------------------------
(* receive: one read of at most BufSize bytes, whatever TCP has.           *)

Receive(n) ==
    /\ At("receive")
    /\ n <= BufSize /\ limit + n <= Total
    /\ n = 0 => limit = Total
    /\ tries' = tries + 1
    /\ base' = limit /\ limit' = limit + n /\ cursor' = limit
    /\ cut' = IF \/ limit + n = Total
                 \/ \E k \in DOMAIN stream : stream[k].at = limit + n
              THEN cut ELSE "yes"
    /\ pc' = "loop"
    /\ UNCHANGED <<process, stream, connect, replies, closes, errors, astray>>

\* read() returns -1: realloc to SIZE_MAX bytes gives no buffer, and the loop,
\* which is not at the end of it, parses a header through the null pointer.
ReceiveFails ==
    /\ At("receive")
    /\ tries' = tries + 1
    /\ errors' = "read"
    /\ Die
    /\ UNCHANGED <<stream, closes, cut, astray>>

-----------------------------------------------------------------------------
(* receiveAndProcessConnect: one header and one body.                      *)

\* The cursor moves past header and body, and past what the decoder found.
Advance(m) == cursor' = cursor + m.head + m.body + m.error

\* A control message, and a command other than connect.
SkipMessage(k) ==
    /\ At("loop") /\ cursor # limit
    /\ AtHeader(k)
    /\ \/ stream[k].kind = "control"
       \/ stream[k].kind = "command" /\ Complete(k)
    /\ Advance(stream[k])
    /\ UNCHANGED <<process, pc, tries, stream, base, limit, connect, replies, closes,
                   history>>

\* Set chunk size is answered with a copy of itself; a send that fails is logged.
AnswerChunkSize(k) ==
    /\ At("loop") /\ cursor # limit
    /\ AtHeader(k)
    /\ stream[k].kind = "chunk_size"
    /\ \/ /\ \/ replies' = replies \cup {"chunk_size"} /\ UNCHANGED errors
             \/ errors' = "other" /\ UNCHANGED replies
          /\ Advance(stream[k])
          /\ UNCHANGED <<process, pc, base, limit, connect>>
       \/ errors' = "other" /\ Die
    /\ UNCHANGED <<tries, stream, closes, cut, astray>>

StoreConnect(k) ==
    /\ At("loop") /\ cursor # limit
    /\ AtHeader(k)
    /\ stream[k].kind = "connect"
    /\ Complete(k)
    /\ connect' = "stored"
    /\ Advance(stream[k])
    /\ UNCHANGED <<process, pc, tries, stream, base, limit, replies, closes, history>>

\* A command that ends outside the buffer: what lies there is decoded with it.
\* The cursor jumps by the length of the message all the same.
CutCommand(k) ==
    /\ At("loop") /\ cursor # limit
    /\ AtHeader(k)
    /\ stream[k].kind \in Commands
    /\ ~Complete(k)
    /\ \/ /\ \/ UNCHANGED connect
             \/ stream[k].kind = "connect" /\ connect' = "stored"
          /\ \E error \in 0 .. 1 : Advance([stream[k] EXCEPT !.error = error])
          /\ UNCHANGED <<process, pc, base, limit, replies>>
       \/ Die
    /\ UNCHANGED <<tries, stream, closes, history>>

\* No header at the cursor, or one without a length: lengths and types are
\* whatever the memory holds.  (Bounds: the cursor stays in the buffer or one
\* byte past it, which stands for every place outside; a decoder that loses
\* track counts at most one byte too many in CutCommand.)
Stray ==
    /\ At("loop") /\ cursor # limit
    /\ \A k \in DOMAIN stream : AtHeader(k) => stream[k].kind = "bare"
    /\ astray' = "yes"
    /\ \/ /\ connect' \in {connect, "stored"}
          /\ replies' \in {replies, replies \cup {"chunk_size"}}
          /\ cursor' \in base .. limit + 1
          /\ UNCHANGED <<process, pc, base, limit>>
       \/ Die
    /\ UNCHANGED <<tries, stream, closes, errors, cut>>

\* full_buffer.is_end(): a second read if the first brought no connect.
EndOfBuffer ==
    /\ At("loop") /\ cursor = limit
    /\ pc' = IF connect = "stored" THEN "ack" ELSE IF tries < 2 THEN "receive" ELSE "throw"
    /\ UNCHANGED <<process, tries, stream, window, connect, replies, closes, history>>

-----------------------------------------------------------------------------
(* The replies: each is sent only if the one before it could not be.       *)

SendReply(step, reply, next) ==
    /\ At(step)
    /\ \/ /\ replies' = replies \cup reply
          /\ pc' = "close"
          /\ UNCHANGED <<process, connect, window, errors>>
       \/ /\ errors' = "other"
          /\ pc' = next
          /\ UNCHANGED <<process, connect, replies, window>>
       \/ errors' = "other" /\ Die
    /\ UNCHANGED <<tries, stream, closes, cut, astray>>

SendWindowACKSize    == SendReply("ack", {"ack"}, "bandwidth")
SendSetPeerBandwidth == SendReply("bandwidth", {"bandwidth"}, "result")

\* BlockEncoder finds no command string in the packet and returns an empty
\* buffer, and a send of no bytes is no message.
SendResulCommand     == SendReply("result", {}, "throw")

Close ==
    /\ At("close")
    /\ closes' = closes + 1
    /\ pc' = "returned"
    /\ UNCHANGED <<process, tries, stream, window, connect, replies, history>>

-----------------------------------------------------------------------------
ProcessMessage ==
    \/ \E k \in DOMAIN stream :
         SkipMessage(k) \/ AnswerChunkSize(k) \/ StoreConnect(k) \/ CutCommand(k)
    \/ Stray
    \/ EndOfBuffer

Next ==
    \/ HandshakeDone \/ HandshakeFails
    \/ \E n \in 0 .. BufSize : Receive(n)
    \/ ReceiveFails
    \/ ProcessMessage
    \/ SendWindowACKSize \/ SendSetPeerBandwidth \/ SendResulCommand
    \/ Close \/ Catch

Spec == Init /\ [][Next]_vars

(***************************************************************************)
(* Fairness.  The worker runs, and a call that blocks returns: the client  *)
(* sends something, closes or resets the connection.  Nothing makes a call *)
(* fail or the process die rather than succeed.                            *)
(***************************************************************************)
Fairness ==
    /\ WF_vars(HandshakeDone \/ HandshakeFails)
    /\ WF_vars((\E n \in 0 .. BufSize : Receive(n)) \/ ReceiveFails)
    /\ WF_vars(ProcessMessage)
    /\ WF_vars(SendWindowACKSize \/ SendSetPeerBandwidth \/ SendResulCommand)
    /\ WF_vars(Close \/ Catch)

FairSpec == Spec /\ Fairness

-----------------------------------------------------------------------------
(* Properties.                                                             *)

Steps == {"handshake", "receive", "loop", "ack", "bandwidth", "result", "close", "throw",
          "returned"}

TypeOK ==
    /\ process \in {"running", "dead"}
    /\ pc \in Steps
    /\ tries \in 0 .. 2
    /\ At("receive") => tries < 2
    /\ stream \in Streams
    /\ base \in Nat /\ limit \in Nat /\ cursor \in Nat
    /\ base <= limit /\ base <= cursor /\ limit <= Total
    /\ connect \in {"empty", "stored"}
    /\ replies \subseteq {"chunk_size", "ack", "bandwidth"}
    /\ closes \in Nat
    /\ errors \in {"none", "read", "other"}
    /\ cut \in {"no", "yes"}
    /\ astray \in {"no", "yes"}

(***************************************************************************)
(* The socket is closed once, by the time the worker is done with it, on   *)
(* every path: closing it again would close the connection of whichever    *)
(* client was given its number since, never closing it would leak it.      *)
(***************************************************************************)
ClosedOnce == closes = IF pc = "returned" THEN 1 ELSE 0

\* The messages the reads have brought, whole or in part.
Received == {k \in DOMAIN stream : stream[k].at < limit}

(***************************************************************************)
(* As long as every read ends between two messages and every message       *)
(* received has a length and the decoder's count of extra bytes is right,  *)
(* the cursor goes from header to header and never past the buffer.        *)
(***************************************************************************)
InStep ==
    cut = "no" /\ (\A k \in Received : Regular(stream[k]))
        => /\ astray = "no"
           /\ cursor <= limit
           /\ cursor = limit \/ \E k \in DOMAIN stream : cursor = stream[k].at

(***************************************************************************)
(* A client is refused for want of a connect command only if there was     *)
(* none in what the two reads brought, under the same conditions.          *)
(***************************************************************************)
NoConnectMissed ==
    (pc = "throw" /\ connect = "empty" /\ cut = "no" /\ \A k \in Received : Regular(stream[k]))
        => \A k \in Received : stream[k].kind # "connect"

(***************************************************************************)
(* No reply before a connect command, and, unless the cursor goes astray,  *)
(* no answer to a set chunk size that did not come.                        *)
(***************************************************************************)
RepliesEarned ==
    /\ replies \cap {"ack", "bandwidth"} # {} => connect = "stored"
    /\ astray = "no" /\ "chunk_size" \in replies => \E k \in Received : stream[k].kind = "chunk_size"

(***************************************************************************)
(* A client whose connect command was found, in whichever read and behind  *)
(* whatever else, is sent the window acknowledgement size before its       *)
(* socket is closed, unless a call failed on the way.                      *)
(***************************************************************************)
AckSent ==
    (pc = "returned" /\ connect = "stored" /\ errors = "none") => "ack" \in replies

(***************************************************************************)
(* A worker gets rid of its client: unless the cursor goes astray, the     *)
(* connexion ends, also when no connect command ever comes.                *)
(***************************************************************************)
ConnexionEnds == <>(pc = "returned" \/ process = "dead" \/ astray = "yes")

(***************************************************************************)
(* What the source says and the code does not do.                          *)
(***************************************************************************)

\* "iterate till every byte is processed": with messages the parser knows, the
\* cursor stays in what was read.
EveryByteProcessed ==
    (\A k \in Received : Regular(stream[k])) => cursor \in base .. limit
=============================================================================
