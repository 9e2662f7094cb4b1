-------------------------------- MODULE AMF3 --------------------------------
(***************************************************************************)
(* A serializer and a deserializer of the AMF3 library with the stream     *)
(* between them: the program writes items, one after the other, some of    *)
(* them refused, changes some in between, and clears the serializer; the   *)
(* bytes arrive in one or two pieces, cut anywhere; the other side reads   *)
(* item by item and, after an exception, clears its context and starts     *)
(* over.                                                                   *)
(*                                                                         *)
(* No exchange on the wire carries the tables of the two contexts: each    *)
(* side builds its own from what it writes or reads, and every reference   *)
(* is right only as long as the two agree.                                 *)
(***************************************************************************)
EXTENDS AMF3Serializer, AMF3Deserializer

CONSTANTS
    Alone,     \* bound: the long ones of Roots, at the start of a stream only
    MaxCut,    \* bound: streams of up to this many bytes are cut
    MaxMore    \* bound: streams of up to this many bytes are continued

vars == <<serializerVars, deserializerVars>>

Buf == writer.buf

Init == InitSerializer /\ InitDeserializer

\* The program has the stream written before any of it arrives.  It makes no
\* difference: bytes that are written do not change.
Writing == wire = <<>>

\* Bound: of the refusals that leave the tables ahead of the bytes, one.
WriteItem  == /\ Writing
              /\ Len(Buf) <= MaxMore
              /\ \E o \in Roots : (o \in Alone => Buf = <<>>) /\ Write(At(o))
              /\ writer.drifted => sent' # sent
              /\ UNCHANGED deserializerVars

\* Bound: no change behind the last item, where nothing is written after it.
ChangeItem == /\ Writing
              /\ Len(sent) < MaxItems
              /\ \E c \in Changes : Change(c[1], c[2])
              /\ UNCHANGED deserializerVars

\* Both sides begin anew.
ClearAll == /\ Writing
            /\ writer # EmptyContext
            /\ Clear
            /\ UNCHANGED deserializerVars

\* The first piece of the stream, and the rest of it once that is read.
Arrive == /\ Buf # <<>>
          /\ \/ /\ wire = <<>>
                /\ \E n \in 1..Len(Buf) :
                        /\ n = Len(Buf) \/ Len(Buf) <= MaxCut
                        /\ Provide(SubSeq(Buf, 1, n))
             \/ /\ wire # <<>> /\ Len(wire) < Len(Buf)
                /\ reader.at = Len(wire) + 1 /\ ~reader.thrown
                /\ Provide(Buf)
          /\ UNCHANGED serializerVars

ReadItem == /\ Len(got) < Len(sent)
            /\ Read(sent[Len(got) + 1].item.type = "packet")
            /\ UNCHANGED serializerVars

StartOver == /\ Len(wire) < Len(Buf)
             /\ Restart(Buf)
             /\ UNCHANGED serializerVars

Next == WriteItem \/ ChangeItem \/ ClearAll \/ Arrive \/ ReadItem \/ StartOver

Spec == Init /\ [][Next]_vars

-----------------------------------------------------------------------------
(* Properties.                                                             *)

\* The iterator has left the bytes d: it is one behind the end of them, and the
\* last four were read as the length of a value, which is 0.
Strayed(at, d) ==
    /\ Len(d) >= 4
    /\ at = Len(d) + 2
    /\ \A i \in (Len(d) - 3)..Len(d) : d[i] = 0

\* Types; and the iterator leaves the bytes that arrived nowhere but there.
TypeOK ==
    /\ host \in Hosts
    /\ \A i \in DOMAIN Buf : Buf[i] \in Bytes
    /\ wire = SubSeq(Buf, 1, Len(wire))
    /\ reader.at \in 1..(Len(wire) + 1) \/ Strayed(reader.at, wire)
    /\ \A c \in {writer, reader} :
        \A i \in DOMAIN c.strings : c.strings[i] \in Strings \ {<<>>}

(***************************************************************************)
(* What is read is what was written, item by item, through references to   *)
(* strings, traits and objects of earlier items, across changes of items   *)
(* in between, a clear, and a reader that started over; after a refused    *)
(* item as long as nothing refers to the tables.                           *)
(***************************************************************************)
RoundTrip ==
    \A i \in DOMAIN got : sent[i].sound => got[i] = sent[i].item

\* When all is read, each table of the deserializer has in each place what the
\* serializer has there: the next reference means the same to both.
TablesInStep ==
    (/\ sent # <<>> /\ Len(got) = Len(sent)
     /\ writer.sound /\ ~writer.drifted /\ ~reader.thrown)
        => /\ reader.strings = writer.strings
           /\ reader.traits = [i \in DOMAIN writer.traits |->
                                [writer.traits[i] EXCEPT !.attrs = Sorted(ToSet(@))]]
           /\ Len(reader.objects) = Len(writer.objects)
           /\ \A i \in DOMAIN reader.objects :
                reader.objects[i] = writer.objects[i].was

(***************************************************************************)
(* Bytes are missing, or nothing is: of a stream that was cut every item   *)
(* that is there in whole is read, and the first that is not is refused;   *)
(* between two items the iterator is where the first of them ended, and it *)
(* never leaves the bytes.                                                 *)
(***************************************************************************)
CutIsNoticed ==
    LET whole == {i \in DOMAIN sent : sent[i].end <= Len(wire)}
    IN (\A i \in DOMAIN sent : sent[i].sound)
        => /\ reader.at <= Len(wire) + 1
           /\ got # <<>> /\ ~reader.thrown => reader.at = sent[Len(got)].end + 1
           /\ Len(got) <= Cardinality(whole)
           /\ reader.thrown => /\ Len(got) = Cardinality(whole)
                               /\ Len(got) < Len(sent)
=============================================================================
