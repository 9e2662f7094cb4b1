------------------------------ MODULE Buffers ------------------------------
(***************************************************************************)
(* The heap memory behind every Buffer a worker makes: what is received,   *)
(* the headers it builds, the packets it encodes.                          *)
(*                                                                         *)
(* A Buffer is a pointer and a size.  It is copied when it is passed or    *)
(* returned, and nothing is freed when it goes out of scope.  append may   *)
(* move the memory; append of another Buffer frees the other's.            *)
(*                                                                         *)
(* A function is its list of things done to one Buffer, its own.  The      *)
(* bytes in the buffers are left out, their number is not.  Memory does    *)
(* not run out.                                                            *)
(***************************************************************************)
EXTENDS Integers, Sequences, FiniteSets

CONSTANTS
    Cells,     \* pieces of heap memory
    NoCell,    \* nullptr
    Local,     \* an address on the stack
    Calls      \* the calls to look at: functions with their arguments

None == -1     \* no command in a packet

\* The arguments of calls.  A string is its size; an object is a sequence of
\* keys and calls that encode the values; a header is asked for with the length
\* of its basic header, the type of its message header, and whether stream id,
\* time, and length and type are ones the builder accepts; a read is what it
\* returns, and the messages in it that set the chunk size.
Encoders == [name : {"string", "double", "boolean"}, arg : Nat]
Objects  == Seq([key : Nat, encoder : Encoders])
Packets  == [command : Nat \cup {None}, transaction_id : BOOLEAN, objects : Seq(Objects)]
Requests == [basic : 1 .. 3, stream : BOOLEAN, type : 0 .. 3,
             timestamp : BOOLEAN, message : BOOLEAN]
Reads    == {r \in [size : Int, chunks : Nat] : r.chunks > 0 => r.size > 0}

Fn(name, arg) == [name |-> name, arg |-> arg]

ASSUME BuffersAssumption ==
    /\ NoCell \notin Cells /\ Local \notin Cells /\ NoCell # Local
    /\ \A f \in Calls :
         /\ f = Fn(f.name, f.arg)
         /\ CASE f.name = "BlockEncoder"      -> f.arg \in Packets
              [] f.name = "build_rtmp_header" -> f.arg \in Requests
              [] f.name = "reply"             -> f.arg \in Nat
              [] f.name = "result"            -> f.arg = 0
              [] f.name = "receive"           -> f.arg \in Reads
              [] OTHER                        -> FALSE

VARIABLES
    heap,      \* the size of each piece that is allocated
    frames,    \* the calls under way, the innermost last
    status,    \* "running", "done", "thrown" or "crashed"
    \* History.
    call,      \* the outermost call
    result,    \* the Buffer it returned
    refused    \* a header was refused with an exception

vars == <<heap, frames, status, call, result, refused>>

BufferAt(cell, size) == [ini |-> cell, size |-> size]
NoBuffer == BufferAt(NoCell, 0)

\* The steps of a function.
Append_(n)     == [op |-> "append", n |-> n]       \* append(pointer, n)
AppendOf(f)    == [op |-> "appendOf", f |-> f]     \* append(f(...))
Take(f)        == [op |-> "take", f |-> f]         \* Buffer buff = f(...)
Run(f)         == [op |-> "run", f |-> f]          \* f(...)
Check(ok)      == [op |-> "check", ok |-> ok]      \* throws unless ok
Read(n)        == [op |-> "read", n |-> n]         \* read into memory of its own
OnStack        == [op |-> "local"]                 \* a Buffer over a local variable
Use            == [op |-> "use"]                   \* send or read what it points to
Free           == [op |-> "free"]                  \* free_buffer

-----------------------------------------------------------------------------
(* Mistakes: what a plausible error would make of some of the definitions  *)
(* below.  PROJECT.json pairs each with the property that notices it.      *)

\* The two bytes as a signed number.
SwappedSigned(n) == LET s == (n % 256) * 256 + (n % 65536) \div 256
                    IN  IF s >= 32768 THEN s - 65536 ELSE s

\* The encoder does not free what it has when a value is not found.
CatchAndDrop(name) == IF name \in {"BlockEncoder", "build_rtmp_header"} THEN "drop" ELSE "none"

\* A break after the time.
MessageHeaderBroken(h) ==
    (IF h.type = 0 THEN <<Check(h.timestamp), Append_(3)>> ELSE <<>>)
      \o (IF h.type = 1 THEN <<Check(h.message), Append_(3), Append_(1)>> ELSE <<>>)
      \o (IF h.type <= 2 THEN <<Append_(4)>> ELSE <<>>)

-----------------------------------------------------------------------------
(* AMF0Encoder.                                                            *)

\* htons: the size as uint16_t in network order, which encodeString also takes
\* for the number of bytes to append.
Swapped(n) == LET short == n % 65536 IN (short % 256) * 256 + short \div 256

encodeString(n) == <<Append_(1), Append_(2), Append_(Swapped(n))>>
encodeDouble    == <<Append_(1), Append_(8)>>
encodeBoolean   == <<OnStack, Append_(1)>>

encodeObject(o) ==
    <<Append_(1)>>
      \o [i \in 1 .. 2 * Len(o) |->
            IF i % 2 = 1 THEN AppendOf(Fn("string", o[(i + 1) \div 2].key))
                         ELSE AppendOf(o[i \div 2].encoder)]
      \o <<Append_(3)>>

BlockEncoder(p) ==
    <<Check(p.command # None), AppendOf(Fn("string", p.command)),
      Check(p.transaction_id), AppendOf(Fn("double", 0))>>
      \o [k \in 1 .. Len(p.objects) |-> AppendOf(Fn("object", p.objects[k]))]

-----------------------------------------------------------------------------
(* The builders of RTMPHeaders.                                            *)

BasicHeader(h) == <<Check(h.stream), Append_(h.basic)>>

MessageHeader(h) ==
    (IF h.type = 0 THEN <<Check(h.timestamp), Append_(3)>> ELSE <<>>)
      \o (IF h.type <= 1 THEN <<Check(h.message), Append_(3), Append_(1)>> ELSE <<>>)
      \o (IF h.type <= 2 THEN <<Append_(4)>> ELSE <<>>)

Header(h) == <<Take(Fn("build_basic_header", h)), AppendOf(Fn("build_message_header", h))>>

-----------------------------------------------------------------------------
(* RTMPConnexion.                                                          *)

\* The header of all replies.
ReplyHeader == [basic |-> 1, stream |-> TRUE, type |-> 0, timestamp |-> TRUE, message |-> TRUE]

\* A mistake: the reply is freed before it is sent.
ReplyFreedFirst(n) == <<Take(Fn("build_rtmp_header", ReplyHeader)), Append_(n), Free, Use>>

\* Window size, bandwidth, chunk size: a header and n bytes, sent and freed.
Reply(n) == <<Take(Fn("build_rtmp_header", ReplyHeader)), Append_(n), Use, Free>>

\* The packet of sendResulCommand: "_result" is a pointer, which add() takes
\* for a bool, so there is no string under "command".  The Buffer is not freed.
ResultPacket == [command |-> None, transaction_id |-> TRUE, objects |-> <<>>]
ResultCommand == <<Take(Fn("BlockEncoder", ResultPacket)), Use>>

\* The messages are parsed where they were received; one that sets the chunk
\* size is answered.
ReceiveAndProcess(r) ==
    <<Read(r.size)>>
      \o [k \in 1 .. 2 * r.chunks |-> IF k % 2 = 1 THEN Use ELSE Run(Fn("reply", 4))]
      \o (IF r.size > 0 THEN <<Use, Free>> ELSE <<Free>>)

Code(f) ==
    CASE f.name = "string"       -> encodeString(f.arg)
      [] f.name = "double"       -> encodeDouble
      [] f.name = "boolean"      -> encodeBoolean
      [] f.name = "object"       -> encodeObject(f.arg)
      [] f.name = "BlockEncoder" -> BlockEncoder(f.arg)
      [] f.name = "build_basic_header"   -> BasicHeader(f.arg)
      [] f.name = "build_message_header" -> MessageHeader(f.arg)
      [] f.name = "build_rtmp_header"    -> Header(f.arg)
      [] f.name = "reply"   -> Reply(f.arg)
      [] f.name = "result"  -> ResultCommand
      [] f.name = "receive" -> ReceiveAndProcess(f.arg)

\* The functions that return their Buffer.
Returns(name) == name \notin {"reply", "result", "receive"}

\* What the catch block of a function does with its Buffer.
Catch(name) == CASE name = "BlockEncoder"      -> "free"
                 [] name = "build_rtmp_header" -> "drop"
                 [] OTHER                      -> "none"

-----------------------------------------------------------------------------
(* A call at work.                                                         *)

Frame(f) == [name |-> f.name, code |-> Code(f), buffer |-> NoBuffer]

Init == /\ call \in Calls
        /\ frames = <<Frame(call)>>
        /\ heap = [c \in {} |-> 0]
        /\ status = "running"
        /\ result = NoBuffer
        /\ refused = FALSE

Top       == frames[Len(frames)]
Callers   == SubSeq(frames, 1, Len(frames) - 1)
At(op)    == frames # <<>> /\ status = "running" /\ Top.code # <<>> /\ Head(Top.code).op = op
Done(frame, buffer) == [frame EXCEPT !.code = Tail(@), !.buffer = buffer]

Without(cell) == [c \in DOMAIN heap \ {cell} |-> heap[c]]

\* The places realloc may return for b, and what is on the heap then.
Reallocs(b)         == (Cells \ DOMAIN heap) \cup ({b.ini} \ {NoCell})
Moved(b, cell, n)   == [c \in DOMAIN Without(b.ini) \cup {cell} |->
                            IF c = cell THEN b.size + n ELSE heap[c]]
Grown(b, cell, n)   == BufferAt(cell, b.size + n)

AppendBytes ==
    /\ At("append") /\ Top.buffer.ini # Local
    /\ \E cell \in Reallocs(Top.buffer) :
         /\ heap' = Moved(Top.buffer, cell, Head(Top.code).n)
         /\ frames' = Append(Callers, Done(Top, Grown(Top.buffer, cell, Head(Top.code).n)))
    /\ UNCHANGED <<status, call, result, refused>>

Crash == /\ status' = "crashed"
         /\ UNCHANGED <<heap, frames, call, result, refused>>

\* realloc of an address that malloc did not return.
AppendToLocal == At("append") /\ Top.buffer.ini = Local /\ Crash

MakeLocal ==
    /\ At("local")
    /\ frames' = Append(Callers, Done(Top, BufferAt(Local, 1)))
    /\ UNCHANGED <<heap, status, call, result, refused>>

Enter ==
    /\ At("appendOf") \/ At("take") \/ At("run")
    /\ frames' = Append(frames, Frame(Head(Top.code).f))
    /\ UNCHANGED <<heap, status, call, result, refused>>

\* The pointer stays what it was.
FreeBuffer ==
    /\ At("free")
    /\ heap' = Without(Top.buffer.ini)
    /\ frames' = Append(Callers, Done(Top, Top.buffer))
    /\ UNCHANGED <<status, call, result, refused>>

\* send, or the parsing of what was received.
UseBuffer ==
    /\ At("use")
    /\ frames' = Append(Callers, Done(Top, Top.buffer))
    /\ UNCHANGED <<heap, status, call, result, refused>>

\* malloc, read, realloc to the bytes read, which for none of them frees.
Receive ==
    /\ At("read") /\ Head(Top.code).n >= 0
    /\ IF Head(Top.code).n = 0
       THEN heap' = heap /\ frames' = Append(Callers, Done(Top, NoBuffer))
       ELSE \E cell \in Cells \ DOMAIN heap :
              /\ heap' = Moved(NoBuffer, cell, Head(Top.code).n)
              /\ frames' = Append(Callers, Done(Top, BufferAt(cell, Head(Top.code).n)))
    /\ UNCHANGED <<status, call, result, refused>>

\* A failed read: no memory has that size, and the header is looked for at null.
ReceiveFails == At("read") /\ Head(Top.code).n < 0 /\ Crash

CheckPasses ==
    /\ At("check") /\ Head(Top.code).ok
    /\ frames' = Append(Callers, Done(Top, Top.buffer))
    /\ UNCHANGED <<heap, status, call, result, refused>>

\* The innermost call that catches does; the frames between throw and catch go,
\* and with them their pointers.
Catchers == {k \in DOMAIN frames : Catch(frames[k].name) # "none"}

CheckThrows ==
    /\ At("check") /\ ~Head(Top.code).ok
    /\ IF Catchers = {}
       THEN /\ frames' = <<>> /\ status' = "thrown"
            /\ heap' = heap /\ refused' = TRUE
       ELSE \E k \in Catchers :
                /\ \A j \in Catchers : j <= k
                /\ frames' = Append(SubSeq(frames, 1, k - 1),
                                    [frames[k] EXCEPT !.code = <<>>, !.buffer = NoBuffer])
                /\ heap' = IF Catch(frames[k].name) = "free" THEN Without(frames[k].buffer.ini) ELSE heap
                /\ refused' = (refused \/ frames[k].name = "build_rtmp_header")
                /\ status' = status
    /\ UNCHANGED <<call, result>>

AtReturn == status = "running" /\ frames # <<>> /\ Top.code = <<>>

Return ==
    /\ AtReturn /\ Len(frames) > 1
    /\ LET caller == frames[Len(frames) - 1]
           op     == Head(caller.code).op
           got    == Top.buffer
           To(b)  == Append(SubSeq(frames, 1, Len(frames) - 2), Done(caller, b))
       IN  \/ op = "take" /\ frames' = To(got) /\ heap' = heap
           \/ /\ op = "run" \/ (op = "appendOf" /\ got.ini = NoCell)
              /\ frames' = To(caller.buffer) /\ heap' = heap
           \/ /\ op = "appendOf" /\ got.ini # NoCell
              /\ \E cell \in Reallocs(caller.buffer) :
                   /\ frames' = To(Grown(caller.buffer, cell, got.size))
                   /\ heap' = LET moved == Moved(caller.buffer, cell, got.size)
                              IN  [c \in DOMAIN moved \ {got.ini} |-> moved[c]]
    /\ UNCHANGED <<status, call, result, refused>>

ReturnLast ==
    /\ AtReturn /\ Len(frames) = 1
    /\ result' = IF Returns(Top.name) THEN Top.buffer ELSE NoBuffer
    /\ frames' = <<>>
    /\ status' = "done"
    /\ UNCHANGED <<heap, call, refused>>

Next == \/ AppendBytes \/ AppendToLocal \/ MakeLocal
        \/ Enter \/ Return \/ ReturnLast
        \/ FreeBuffer \/ UseBuffer \/ Receive \/ ReceiveFails
        \/ CheckPasses \/ CheckThrows

Spec == Init /\ [][Next]_vars

-----------------------------------------------------------------------------
(* Properties.                                                             *)

TypeOK ==
    /\ \A c \in DOMAIN heap : c \in Cells /\ heap[c] \in Nat
    /\ status \in {"running", "done", "thrown", "crashed"}
    /\ \A k \in DOMAIN frames : /\ frames[k].buffer.ini \in Cells \cup {NoCell, Local}
                                /\ frames[k].buffer.size \in Nat
    /\ result.ini \in Cells \cup {NoCell} /\ result.size \in Nat
    /\ refused \in BOOLEAN

\* A call needs its Buffer until it has freed it, or returned it, or if it does
\* neither has no more to do with it.
Needs(frame) ==
    \/ Returns(frame.name)
    \/ \E i \in DOMAIN frame.code : frame.code[i].op \in {"append", "appendOf", "use", "free"}

\* The Buffers that are needed: those of the calls under way, and the result.
Needing == {k \in DOMAIN frames : Needs(frames[k])}
Held    == {frames[k].buffer : k \in Needing} \cup {result}
Owned   == {b.ini : b \in Held} \cap Cells

(***************************************************************************)
(* Copies of a Buffer never get in each other's way: as long as a call     *)
(* still appends to its Buffer, sends, parses, frees or returns it, the    *)
(* pointer is to memory that is allocated, of the size the Buffer believes *)
(* it has, and to no other call's.  So no write is out of bounds, nothing  *)
(* is used after it was freed, and nothing is freed twice, though          *)
(* free_buffer leaves the pointer where it was.                            *)
(***************************************************************************)
OwnMemory ==
    /\ \A b \in Held : b.ini \in Cells => b.ini \in DOMAIN heap /\ heap[b.ini] = b.size
    /\ \A j, k \in Needing :
         j # k /\ frames[j].buffer.ini \in Cells => frames[j].buffer.ini # frames[k].buffer.ini

(***************************************************************************)
(* Memory is freed or some call still needs it, also when the encoder      *)
(* stops halfway through a packet.  Left out are headers that are refused: *)
(* the builder then forgets the buffers it has.                            *)
(***************************************************************************)
NothingLost == ~refused => DOMAIN heap = Owned

\* Sizes, counted without the machine.
SumTo(s, n)    == LET sum[k \in 0 .. n] == IF k = 0 THEN 0 ELSE sum[k - 1] + s[k] IN sum[n]
Sum(s)         == SumTo(s, Len(s))
StringSize(n)  == 3 + Swapped(n)
ValueSize(f)   == IF f.name = "double" THEN 9 ELSE StringSize(f.arg)
ObjectSize(o)  == 4 + Sum([i \in 1 .. Len(o) |-> StringSize(o[i].key) + ValueSize(o[i].encoder)])
PacketSize(p)  == StringSize(p.command) + 9
                    + Sum([k \in 1 .. Len(p.objects) |-> ObjectSize(p.objects[k])])
HeaderSize(h)  == h.basic + CASE h.type = 0 -> 11 [] h.type = 1 -> 8 [] h.type = 2 -> 4 [] h.type = 3 -> 0

Encodable(p)  == p.command # None /\ p.transaction_id
Acceptable(h) == h.stream /\ (h.type = 0 => h.timestamp) /\ (h.type <= 1 => h.message)

(***************************************************************************)
(* A packet or a header is returned whole or not at all, never the part    *)
(* before the value that was missing or refused.                           *)
(***************************************************************************)
AllOrNothing ==
    status = "done" =>
        /\ call.name = "BlockEncoder" =>
             result.size = IF Encodable(call.arg) THEN PacketSize(call.arg) ELSE 0
        /\ call.name = "build_rtmp_header" =>
             result.size = IF Acceptable(call.arg) THEN HeaderSize(call.arg) ELSE 0
=============================================================================
