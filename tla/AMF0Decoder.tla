---------------------------- MODULE AMF0Decoder ----------------------------
(***************************************************************************)
(* AMF0Decoder::BlockDecoder on the body of one command, value by value.   *)
(*                                                                         *)
(* The client encodes a packet and sends it in chunks, so that the header  *)
(* of a chunk may lie anywhere between its bytes.  The decoder does not    *)
(* know chunks: it takes a number whose last byte is that of a chunk       *)
(* header for one with a header in it, and counts the header in byteError. *)
(* Positions count from 0, as `processed` does.                            *)
(***************************************************************************)
EXTENDS Integers, Sequences
LOCAL INSTANCE SequencesExt

CONSTANTS
    Packets,   \* what a client may send: sequences of values
    Cuts,      \* after how many bytes a chunk header comes, 0 for none
    Behind     \* what may follow the body in the buffer

Byte == 0 .. 255
Text == Seq(Byte)

\* amf_types
Marker == [number |-> 0, boolean |-> 1, string |-> 2, object |-> 3, null |-> 5,
           undefined |-> 6]
EndObject   == 9
ChunkHeader == 195     \* '\303': type 3, chunk stream 3

\* What a client sends: a number of eight bytes, a boolean of one, strings and
\* keys whose size two bytes hold, and objects of keys with such values.
Strings == {s \in Text : Len(s) < 65536}
ScalarValues == {v \in [type : DOMAIN Marker \ {"object"}, data : Text] :
                   CASE v.type = "number"  -> Len(v.data) = 8
                     [] v.type = "boolean" -> Len(v.data) = 1
                     [] v.type = "string"  -> v.data \in Strings
                     [] OTHER              -> v.data = <<>>}
ObjectValues == [type : {"object"}, data : Seq([key : Strings, value : ScalarValues])]
Values == ScalarValues \cup ObjectValues

ASSUME AMF0DecoderAssumption ==
    /\ Packets \subseteq Seq(Values)
    /\ Cuts \subseteq Nat
    /\ Behind \subseteq Text

VARIABLES
    buffer,      \* the memory the decoder is given
    length,      \* message_length
    pc,          \* "block", "object", "done", or "outside": a byte was needed
                 \* that is not in the buffer
    processed,   \* the bytes passed
    byteError,
    packet,      \* decoded_packet
    object,      \* `ret` of processObject
    \* History.
    sent,        \* the client's packet
    cut          \* where the chunk header is

vars == <<buffer, length, pc, processed, byteError, packet, object, sent, cut>>

EmptyPacket == [number |-> <<>>, boolean |-> <<>>, string |-> <<>>, object |-> <<>>]
EmptyObject == [number |-> <<>>, boolean |-> <<>>, string |-> <<>>]

At(k) == buffer[k + 1]
In(k) == k < Len(buffer)

-----------------------------------------------------------------------------
(* The client: AMF0.  A value has a type and its bytes; those of an object *)
(* are pairs of a key and a value.                                         *)

Prefixed(s) == <<Len(s) \div 256, Len(s) % 256>> \o s

Scalar(v) == <<Marker[v.type]>> \o (IF v.type = "string" THEN Prefixed(v.data) ELSE v.data)

Pairs(ps) == FlattenSeq([k \in DOMAIN ps |-> Prefixed(ps[k].key) \o Scalar(ps[k].value)])

Encoded(v) == IF v.type = "object"
              THEN <<Marker.object>> \o Pairs(v.data) \o <<0, 0, EndObject>>
              ELSE Scalar(v)

Body(p) == FlattenSeq([k \in DOMAIN p |-> Encoded(p[k])])

Chunked(b, n) == IF n = 0 THEN b ELSE SubSeq(b, 1, n) \o <<ChunkHeader>> \o SubSeq(b, n + 1, Len(b))

Init ==
    /\ sent \in Packets
    /\ cut \in Cuts /\ (cut = 0 \/ cut < Len(Body(sent)))
    /\ length = Len(Body(sent))
    /\ \E rest \in Behind : buffer = Chunked(Body(sent), cut) \o rest
    /\ pc = "block"
    /\ processed = 0 /\ byteError = 0
    /\ packet = EmptyPacket /\ object = EmptyObject

-----------------------------------------------------------------------------
(* Mistakes: what a plausible error would make of some of the definitions  *)
(* below.  PROJECT.json pairs each with the property that notices it.      *)

\* One byte too few is copied.
DoubleOfSeven(p) == SubSeq(buffer, p + 1, p + 7)

\* The number is copied before the header is taken out of it.
DoubleWithHeader(p) == SubSeq(buffer, p + 1, p + 8)

\* The header is skipped and not counted.
ExtraUncounted(t, p) == 0

-----------------------------------------------------------------------------
(* One value, at position p behind its type.                               *)

\* Eight bytes, the last one behind a chunk header if there is one.
HeaderInside(p) == At(p + 7) = ChunkHeader
DoubleAt(p)     == SubSeq(buffer, p + 1, p + 7) \o <<At(p + 7 + IF HeaderInside(p) THEN 1 ELSE 0)>>

StringLength(p) == 256 * At(p) + At(p + 1)
StringAt(p)     == SubSeq(buffer, p + 3, p + 2 + StringLength(p))

\* The byte that is tested is the one behind the value.
BooleanAt(p) == At(p + 1) = 1

TypeAt(p) == IF \E t \in DOMAIN Marker \ {"undefined"} : Marker[t] = At(p)
             THEN CHOOSE t \in DOMAIN Marker : Marker[t] = At(p)
             ELSE "undefined"

\* A value of type t at p can be read without leaving the buffer.
Readable(t, p) ==
    CASE t = "number"  -> In(p + 7) /\ (HeaderInside(p) => In(p + 8))
      [] t = "boolean" -> In(p + 1)
      [] t = "string"  -> In(p + 1) /\ (StringLength(p) > 0 => In(p + 1 + StringLength(p)))
      [] OTHER         -> TRUE

ValueAt(t, p) == CASE t = "number"  -> DoubleAt(p)
                   [] t = "boolean" -> BooleanAt(p)
                   [] t = "string"  -> StringAt(p)

\* The bytes a value moves `processed` by, the header counted by byteError apart.
Size(t, p) == CASE t = "number"  -> 8
                [] t = "boolean" -> 1
                [] t = "string"  -> 2 + StringLength(p)
                [] t = "null"    -> 1
                [] OTHER         -> 0

Extra(t, p) == IF t = "number" /\ HeaderInside(p) THEN 1 ELSE 0

Pass(t, p) ==
    /\ processed' = p + Size(t, p) + Extra(t, p)
    /\ byteError' = byteError + Extra(t, p)
    /\ buffer' = IF Extra(t, p) = 1 THEN [buffer EXCEPT ![p + 8] = At(p + 8)] ELSE buffer

Scalars == {"number", "boolean", "string"}

\* insert() into a map: the first value of a key stays.
Insert(f, key, value) ==
    [k \in DOMAIN f \cup {key} |-> IF k \in DOMAIN f THEN f[k] ELSE value]

-----------------------------------------------------------------------------
(* BlockDecoder.                                                           *)

AtValue == pc = "block" /\ processed < length /\ In(processed)

\* Mistake: every value is stored under the first name.
BlockValueFirst(t) ==
    /\ AtValue /\ TypeAt(processed) = t /\ Readable(t, processed + 1)
    /\ packet' = [packet EXCEPT ![t] = <<ValueAt(t, processed + 1)>>]
    /\ Pass(t, processed + 1)
    /\ UNCHANGED <<length, pc, object, sent, cut>>

\* Mistake: the default branch leaves the type where it is.
SkipNothing ==
    /\ AtValue /\ TypeAt(processed) \in {"null", "undefined"}
    /\ Pass(TypeAt(processed), processed)
    /\ UNCHANGED <<length, pc, packet, object, sent, cut>>

\* The names are counted, so no value replaces another.
BlockValue(t) ==
    /\ AtValue /\ TypeAt(processed) = t /\ Readable(t, processed + 1)
    /\ packet' = [packet EXCEPT ![t] = Append(@, ValueAt(t, processed + 1))]
    /\ Pass(t, processed + 1)
    /\ UNCHANGED <<length, pc, object, sent, cut>>

\* AMF_NULL takes a byte of the next value along; default takes none.
SkipValue ==
    /\ AtValue /\ TypeAt(processed) \in {"null", "undefined"}
    /\ Pass(TypeAt(processed), processed + 1)
    /\ UNCHANGED <<length, pc, packet, object, sent, cut>>

OpenObject ==
    /\ AtValue /\ TypeAt(processed) = "object"
    /\ pc' = "object"
    /\ object' = EmptyObject
    /\ processed' = processed + 1
    /\ UNCHANGED <<buffer, length, byteError, packet, sent, cut>>

Finish ==
    /\ pc = "block" /\ processed >= length
    /\ pc' = "done"
    /\ UNCHANGED <<buffer, length, processed, byteError, packet, object, sent, cut>>

-----------------------------------------------------------------------------
(* processObject.                                                          *)

\* isEndObject looks no further than it has to.
EndReadable == /\ In(processed)
               /\ At(processed) = 0 => /\ In(processed + 1)
                                       /\ At(processed + 1) = 0 => In(processed + 2)
IsEndObject == /\ At(processed) = 0 /\ At(processed + 1) = 0 /\ At(processed + 2) = EndObject

AtPair == pc = "object" /\ EndReadable /\ ~IsEndObject /\ processed < length

\* The type of the value behind the key, and the place behind that type.
TypePlace  == processed + 2 + StringLength(processed)
ValuePlace == TypePlace + 1

PairReadable == /\ Readable("string", processed) /\ In(TypePlace)
                /\ Readable(TypeAt(TypePlace), ValuePlace)

Pair ==
    /\ AtPair /\ PairReadable
    /\ LET t == TypeAt(TypePlace)
       IN  /\ object' = IF t \in Scalars
                        THEN [object EXCEPT ![t] =
                                Insert(@, StringAt(processed), ValueAt(t, ValuePlace))]
                        ELSE object
           /\ Pass(t, ValuePlace)
    /\ UNCHANGED <<length, pc, packet, sent, cut>>

CloseObject ==
    /\ pc = "object" /\ EndReadable /\ (IsEndObject \/ processed >= length)
    /\ packet' = [packet EXCEPT !.object = Append(@, object)]
    /\ processed' = processed + 3
    /\ pc' = "block"
    /\ UNCHANGED <<buffer, length, byteError, object, sent, cut>>

\* A byte is needed that is not in the buffer.  (Abstraction: what the decoder
\* makes of the memory there is not followed.)
Outside ==
    /\ \/ pc = "block" /\ processed < length
            /\ (In(processed) => ~Readable(TypeAt(processed), processed + 1))
       \/ pc = "object" /\ ~EndReadable
       \/ AtPair /\ ~PairReadable
    /\ pc' = "outside"
    /\ UNCHANGED <<buffer, length, processed, byteError, packet, object, sent, cut>>

Next == \/ \E t \in Scalars : BlockValue(t)
        \/ SkipValue
        \/ OpenObject \/ Pair \/ CloseObject
        \/ Finish \/ Outside

Spec == Init /\ [][Next]_vars

\* The decoder runs.
FairSpec == Spec /\ WF_vars(Next)

-----------------------------------------------------------------------------
(* Properties.                                                             *)

TypeOK ==
    /\ buffer \in Seq(Byte)
    /\ length \in Nat
    /\ pc \in {"block", "object", "done", "outside"}
    /\ processed \in 0 .. Len(buffer) + 3
    /\ byteError \in Nat
    /\ \A k \in DOMAIN packet.number : packet.number[k] \in Seq(Byte) /\ Len(packet.number[k]) = 8
    /\ packet.boolean \in Seq(BOOLEAN)
    /\ packet.string \in Seq(Seq(Byte))
    /\ \A k \in DOMAIN object.number : object.number[k] \in Seq(Byte) /\ Len(object.number[k]) = 8
    /\ \A k \in DOMAIN object.string : object.string[k] \in Seq(Byte)
    /\ \A k \in DOMAIN object.boolean : object.boolean[k] \in BOOLEAN

\* The values of one type, and the first value of each key of an object.
DataOf(vs, t) ==
    LET data[k \in 0 .. Len(vs)] ==
          IF k = 0 THEN <<>>
          ELSE IF vs[k].type = t THEN Append(data[k - 1], vs[k].data) ELSE data[k - 1]
    IN  data[Len(vs)]
MapOf(ps, t) ==
    [key \in {ps[k].key : k \in {j \in DOMAIN ps : ps[j].value.type = t}} |->
       LET k == CHOOSE j \in DOMAIN ps : /\ ps[j].value.type = t /\ ps[j].key = key
                                         /\ \A i \in 1 .. j - 1 :
                                              ps[i].value.type = t => ps[i].key # key
       IN  ps[k].value.data]

\* The places just before the last byte of a number: where value k starts, its
\* type and seven bytes; in an object also the pairs before and the key.
Start(k) == Len(Body(SubSeq(sent, 1, k - 1)))
NumberCuts ==
    {Start(k) + 8 : k \in {i \in DOMAIN sent : sent[i].type = "number"}}
      \cup UNION {{Start(k) + 1 + Len(Pairs(SubSeq(sent[k].data, 1, j - 1)))
                     + 2 + Len(sent[k].data[j].key) + 8 :
                     j \in {i \in DOMAIN sent[k].data : sent[k].data[i].value.type = "number"}} :
                   k \in {i \in DOMAIN sent : sent[i].type = "object"}}

Mistaken(v) == v.type = "number" /\ v.data[8] = ChunkHeader

\* What the decoder is made for: no number that ends like a chunk header, no
\* null that anything comes after, a chunk header only where it looks for one,
\* and a byte behind a boolean.
Foreseen ==
    /\ \A k \in DOMAIN sent :
         /\ ~Mistaken(sent[k])
         /\ sent[k].type = "null" => k = Len(sent)
         /\ sent[k].type = "object" =>
              \A j \in DOMAIN sent[k].data : ~Mistaken(sent[k].data[j].value)
                                             /\ sent[k].data[j].value.type # "null"
         /\ sent[k].type = "boolean" /\ k = Len(sent) => Len(buffer) > Len(Chunked(Body(sent), cut))
    /\ cut \in {0} \cup NumberCuts

(***************************************************************************)
(* A body the decoder is made for is decoded to what the client sent: all  *)
(* numbers and strings, those of objects under their keys, and as many     *)
(* booleans (whose values are read from the wrong place).                  *)
(***************************************************************************)
Faithful ==
    pc = "done" /\ Foreseen =>
        /\ packet.number = DataOf(sent, "number")
        /\ packet.string = DataOf(sent, "string")
        /\ Len(packet.boolean) = Len(DataOf(sent, "boolean"))
        /\ LET objects == DataOf(sent, "object")
           IN  /\ Len(packet.object) = Len(objects)
               /\ \A k \in DOMAIN objects :
                    /\ packet.object[k].number = MapOf(objects[k], "number")
                    /\ packet.object[k].string = MapOf(objects[k], "string")
                    /\ DOMAIN packet.object[k].boolean = DOMAIN MapOf(objects[k], "boolean")

(***************************************************************************)
(* Of such a body the decoder reads no byte outside the buffer, and        *)
(* byteError is the number of chunk headers inside it, by which            *)
(* AMFConnectCommand moves the cursor on.                                  *)
(***************************************************************************)
HeadersCounted ==
    Foreseen => /\ pc # "outside"
                /\ pc = "done" => byteError = IF cut = 0 THEN 0 ELSE 1

(***************************************************************************)
(* Whatever comes after it and however it is mistaken, a string at the     *)
(* start of the body stays the command.                                    *)
(***************************************************************************)
CommandKept ==
    pc = "done" /\ sent # <<>> /\ sent[1].type = "string" /\ (cut = 0 \/ cut >= Start(2))
        => packet.string # <<>> /\ packet.string[1] = sent[1].data

(***************************************************************************)
(* The decoder comes to an end, also with a type it does not know and with *)
(* an object that is not closed.                                           *)
(***************************************************************************)
DecoderEnds == <>(pc \in {"done", "outside"})
=============================================================================
