---------------------------- MODULE RTMPHeaders ----------------------------
(***************************************************************************)
(* Chunk headers byte by byte: RTMPHeaders parses what a client sends and  *)
(* builds what the server sends.                                           *)
(*                                                                         *)
(* The host is little-endian: an unsigned int is the four bytes it takes   *)
(* in memory, least significant first, and the shifts, masks and byte      *)
(* swaps of the code are operators on such a word.                         *)
(***************************************************************************)
EXTENDS Integers, Sequences

CONSTANTS
    ChunkStreams,   \* chunk stream ids
    Timestamps,     \* timestamps and
    Lengths,        \* message lengths, NotGiven among them
    TypeIds,        \* message type ids
    StreamIds,      \* message stream ids, as words
    Bodies,         \* what a client sends after a header
    Stacks          \* what a byte that was not written holds

Byte     == 0 .. 255
Words    == [1 .. 4 -> Byte]
Limit24  == 16777216
NotGiven == Limit24        \* the default argument of the builders

ASSUME HeadersAssumption ==
    /\ ChunkStreams \subseteq Nat
    /\ Timestamps \subseteq 0 .. Limit24
    /\ Lengths \subseteq 0 .. Limit24
    /\ TypeIds \subseteq Byte
    /\ StreamIds \subseteq Words
    /\ Bodies \subseteq Seq(Byte)
    /\ Stacks \subseteq Byte

\* A header to send: its basic header takes `basic` bytes, its message header
\* is of type `type`.
Requests == [basic : 1 .. 3, type : 0 .. 3, cs_id : ChunkStreams, timestamp : Timestamps,
             msg_length : Lengths, msg_type_id : TypeIds, msg_stream_id : StreamIds]

VARIABLES
    phase,    \* "idle", "wire", "refused" (the builder returned no buffer) or "parsed"
    wire,     \* the bytes at the reader's cursor
    header,   \* the RTMPHeaders object
    \* History.
    sender,   \* "client" or "server"
    asked,    \* the header to send
    written   \* its bytes

vars == <<phase, wire, header, sender, asked, written>>

-----------------------------------------------------------------------------
(* Words.                                                                  *)

Word(x) == <<x % 256, (x \div 256) % 256, x \div 65536, 0>>     \* x < Limit24
Num(w)  == w[1] + 256 * w[2] + 65536 * w[3]                     \* w[4] = 0

ShiftLeft8(w)  == <<0, w[1], w[2], w[3]>>
Swap(w)        == <<w[4], w[3], w[2], w[1]>>                    \* htonl, ntohl
Mask24(w)      == <<w[1], w[2], w[3], 0>>

\* The word at position k, and the same shifted left: its fourth byte, which
\* need not be there, falls out.
WordAt(d, k)    == <<d[k], d[k + 1], d[k + 2], d[k + 3]>>
ShiftedAt(d, k) == <<0, d[k], d[k + 1], d[k + 2]>>

-----------------------------------------------------------------------------
(* Mistakes: what a plausible error would make of some of the definitions  *)
(* below.  PROJECT.json pairs each with the property that notices it.      *)

\* The mask is applied before the swap.
LengthMaskedFirst(d) == Num(Swap(Mask24(WordAt(d, 3))))

\* The stream id is appended as it lies in memory.
MessageHeaderUnswapped(r) ==
    (IF r.type = 0 THEN SubSeq(Swap(Word(r.timestamp)), 1, 3) ELSE <<>>)
      \o (IF r.type <= 1
          THEN SubSeq(ShiftLeft8(Swap(Word(r.msg_length))), 1, 3) \o <<r.msg_type_id>>
          ELSE <<>>)
      \o (IF r.type <= 2 THEN r.msg_stream_id ELSE <<>>)

\* One id too many for a byte.
BasicHeaderUpTo320(r, stack) ==
    CASE r.basic = 1 /\ 2 <= r.cs_id /\ r.cs_id <= 63 -> <<r.cs_id>>
      [] r.basic = 2 /\ 64 <= r.cs_id /\ r.cs_id <= 320 -> <<0, r.cs_id - 64>>
      [] r.basic = 3 /\ 64 <= r.cs_id /\ r.cs_id <= 255 -> <<1, r.cs_id - 64, stack>>
      [] r.basic = 3 /\ 256 <= r.cs_id /\ r.cs_id <= 65599 ->
           <<1, (r.cs_id - 64) % 256, (r.cs_id - 64) \div 256>>
      [] OTHER -> <<>>

-----------------------------------------------------------------------------
(* Parsing.                                                                *)

Spaces == {9, 10, 11, 12, 13, 32}
Digits == 48 .. 57

\* The number of bytes of s that are in S before the first that is not.
Leading(s, S) == CHOOSE n \in 0 .. Len(s) : /\ \A k \in 1 .. n : s[k] \in S
                                            /\ n < Len(s) => s[n + 1] \notin S

\* The number the first n digits of s stand for.
Decimal(s, n) ==
    LET value[k \in 0 .. n] == IF k = 0 THEN 0 ELSE 10 * value[k - 1] + (s[k] - 48)
    IN  value[n]

\* atoi: the bytes are taken for the text of a number, which ends with them at
\* the latest.  (Abstraction: what lies behind them in memory is no digit.)
Atoi(s) ==
    LET text   == SubSeq(s, Leading(s, Spaces) + 1, Len(s))
        signed == text # <<>> /\ Head(text) \in {43, 45}
        number == IF signed THEN Tail(text) ELSE text
        value  == Decimal(number, Leading(number, Digits))
    IN  IF signed /\ Head(text) = 45 THEN -value ELSE value

From(b, k) == SubSeq(b, k, Len(b))

\* BasicHeaderType
BasicSize(b) == CASE b[1] % 64 = 1 -> 3
                  [] b[1] % 64 = 0 -> 2
                  [] OTHER         -> 1

StreamId(b) == CASE BasicSize(b) = 3 -> Atoi(From(b, 2)) + 64 + 256 * Atoi(From(b, 3))
                 [] BasicSize(b) = 2 -> Atoi(From(b, 2)) + 64
                 [] OTHER            -> b[1] % 64

MessageSize == <<11, 7, 3, 0>>

\* An object nothing was written to.  (Bound: one value stands for all.)
Garbage == [header_size |-> 0, stream_id |-> -1, type |-> 0, timestamp |-> -1,
            message_length |-> -1, message_type_id |-> -1,
            message_stream_id |-> <<255, 255, 255, 255>>]

TypeOf(b) == b[1] \div 64

TimestampOf(d) == Num(Swap(ShiftedAt(d, 1)))
LengthOf(d)    == Num(Mask24(Swap(WordAt(d, 3))))

\* initializeClassObjects and the functions for the types: what a type leaves
\* out of the object stays as it was.
Parsed(b) ==
    LET type == TypeOf(b)
        d    == From(b, BasicSize(b) + 1)
    IN  [header_size       |-> BasicSize(b) + MessageSize[type + 1],
         stream_id         |-> StreamId(b),
         type              |-> type,
         timestamp         |-> IF type <= 2 THEN TimestampOf(d) ELSE Garbage.timestamp,
         message_length    |-> IF type <= 1 THEN LengthOf(d) ELSE Garbage.message_length,
         message_type_id   |-> IF type <= 1 THEN d[7] ELSE Garbage.message_type_id,
         message_stream_id |-> IF type = 0 THEN Swap(WordAt(d, 8))
                               ELSE Garbage.message_stream_id]

-----------------------------------------------------------------------------
(* Building.                                                               *)

\* build_basic_header; the empty sequence for the exception.  The third byte of
\* a long header is not written for a short id: `stack` is what was there.
BasicHeader(r, stack) ==
    CASE r.basic = 1 /\ 2 <= r.cs_id /\ r.cs_id <= 63 -> <<r.cs_id>>
      [] r.basic = 2 /\ 64 <= r.cs_id /\ r.cs_id <= 319 -> <<0, r.cs_id - 64>>
      [] r.basic = 3 /\ 64 <= r.cs_id /\ r.cs_id <= 255 -> <<1, r.cs_id - 64, stack>>
      [] r.basic = 3 /\ 256 <= r.cs_id /\ r.cs_id <= 65599 ->
           <<1, (r.cs_id - 64) % 256, (r.cs_id - 64) \div 256>>
      [] OTHER -> <<>>

\* The tests of build_message_header that throw.
Incompatible(r) ==
    \/ r.type = 0 /\ r.timestamp >= Limit24
    \/ r.type \in {0, 1} /\ (r.msg_length >= Limit24 \/ r.msg_type_id = 0)

\* build_message_header: each type falls through to the next.
MessageHeader(r) ==
    (IF r.type = 0 THEN SubSeq(Swap(Word(r.timestamp)), 1, 3) ELSE <<>>)
      \o (IF r.type <= 1
          THEN SubSeq(ShiftLeft8(Swap(Word(r.msg_length))), 1, 3) \o <<r.msg_type_id>>
          ELSE <<>>)
      \o (IF r.type <= 2 THEN Swap(r.msg_stream_id) ELSE <<>>)

\* build_rtmp_header
Built(r, stack) ==
    IF BasicHeader(r, stack) = <<>> \/ Incompatible(r) THEN <<>>
    ELSE BasicHeader(r, stack) \o MessageHeader(r)

-----------------------------------------------------------------------------
(* A client's header, as the drawings over the parsing functions lay it    *)
(* out: every number with its high byte first.                             *)

Big3(x) == <<x \div 65536, (x \div 256) % 256, x % 256>>

ClientBasic(r) ==
    CASE r.basic = 1 -> <<64 * r.type + r.cs_id>>
      [] r.basic = 2 -> <<64 * r.type, r.cs_id - 64>>
      [] r.basic = 3 -> <<64 * r.type + 1, (r.cs_id - 64) % 256, (r.cs_id - 64) \div 256>>

ClientMessage(r) ==
    CASE r.type = 0 -> Big3(r.timestamp) \o Big3(r.msg_length) \o <<r.msg_type_id>>
                         \o Swap(r.msg_stream_id)
      [] r.type = 1 -> Big3(r.timestamp) \o Big3(r.msg_length) \o <<r.msg_type_id>>
      [] r.type = 2 -> Big3(r.timestamp)
      [] r.type = 3 -> <<>>

ClientHeader(r) == ClientBasic(r) \o ClientMessage(r)

\* The ids each basic header has room for.
Fits(r) == /\ r.basic = 1 => r.cs_id \in 2 .. 63
           /\ r.basic = 2 => r.cs_id \in 64 .. 319
           /\ r.basic = 3 => 64 <= r.cs_id /\ r.cs_id <= 65599

-----------------------------------------------------------------------------
Init ==
    /\ phase = "idle"
    /\ sender \in {"client", "server"}
    /\ asked \in Requests
    /\ wire = <<>>
    /\ written = <<>>
    /\ header = Garbage

\* A timestamp of Limit24 - 1 would announce an extended one, which the code
\* does not know.
ClientSends(body) ==
    /\ phase = "idle" /\ sender = "client"
    /\ Fits(asked) /\ asked.timestamp < Limit24 - 1 /\ asked.msg_length < Limit24
    /\ phase' = "wire"
    /\ written' = ClientHeader(asked)
    /\ wire' = ClientHeader(asked) \o body
    /\ UNCHANGED <<sender, asked, header>>

ServerSends(stack) ==
    /\ phase = "idle" /\ sender = "server"
    /\ phase' = IF Built(asked, stack) = <<>> THEN "refused" ELSE "wire"
    /\ written' = Built(asked, stack)
    /\ wire' = Built(asked, stack)
    /\ UNCHANGED <<sender, asked, header>>

\* A header that is there in full is parsed.  (For one that is not see
\* RTMPConnexion!Stray.)
Parse ==
    /\ phase = "wire"
    /\ Len(wire) >= BasicSize(wire) + MessageSize[TypeOf(wire) + 1]
    /\ phase' = "parsed"
    /\ header' = Parsed(wire)
    /\ UNCHANGED <<sender, asked, written, wire>>

Next ==
    \/ \E body \in Bodies : ClientSends(body)
    \/ \E stack \in Stacks : ServerSends(stack)
    \/ Parse

Spec == Init /\ [][Next]_vars

-----------------------------------------------------------------------------
(* Properties.                                                             *)

TypeOK ==
    /\ phase \in {"idle", "wire", "refused", "parsed"}
    /\ sender \in {"client", "server"}
    /\ asked \in Requests
    /\ wire \in Seq(Byte)
    /\ written \in Seq(Byte)
    /\ header \in [header_size : 0 .. 14, stream_id : Int, type : 0 .. 3,
                   timestamp : -1 .. Limit24 - 1, message_length : -1 .. Limit24 - 1,
                   message_type_id : {-1} \cup Byte, message_stream_id : Words]

(***************************************************************************)
(* A client's header is read for what it is: its length, and every field   *)
(* its type carries, through the swaps, shifts and masks on words that are *)
(* read from odd places.                                                   *)
(***************************************************************************)
ClientHeaderRead ==
    phase = "parsed" /\ sender = "client" =>
        /\ header.header_size = Len(written)
        /\ header.type = asked.type
        /\ asked.basic = 1 => header.stream_id = asked.cs_id
        /\ asked.type <= 2 => header.timestamp = asked.timestamp
        /\ asked.type <= 1 => /\ header.message_length = asked.msg_length
                              /\ header.message_type_id = asked.msg_type_id
        /\ asked.type = 0 => header.message_stream_id = asked.msg_stream_id

(***************************************************************************)
(* A header of type 0 that the server builds can be told from the body     *)
(* after it, and its reader knows the type and the stream of the message.  *)
(***************************************************************************)
ServerHeaderRead ==
    phase = "parsed" /\ sender = "server" /\ asked.type = 0 =>
        /\ header.header_size = Len(written)
        /\ header.message_type_id = asked.msg_type_id
        /\ header.message_stream_id = asked.msg_stream_id
        /\ asked.basic = 1 => header.stream_id = asked.cs_id

(***************************************************************************)
(* What the source says and the code does not do.                          *)
(***************************************************************************)

\* "message_length = 4 bytes, message type 5 (WindowACk)": the header the server
\* builds for a message announces its length.
LengthAnnounced ==
    phase = "parsed" /\ sender = "server" /\ asked.type = 0
        => header.message_length = asked.msg_length
=============================================================================
