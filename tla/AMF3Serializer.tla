--------------------------- MODULE AMF3Serializer ---------------------------
(***************************************************************************)
(* The writing half of the AMF3 library: Serializer, its                   *)
(* SerializationContext, and serialize() of every class.                   *)
(*                                                                         *)
(* A context c is threaded through the calls in the order of the code. It  *)
(* holds the three tables, the bytes so far, whether an exception is on    *)
(* its way (`thrown`), and the calls under way (`todo`): the items of      *)
(* which the head is written, with the number of the pieces behind it that *)
(* are.  Two fields are history: `drifted`, since the tables have entries  *)
(* that are not in the bytes, and `sound`, FALSE since something was       *)
(* written that the bytes do not say.  Each place that clears `sound`      *)
(* names the reason.                                                       *)
(***************************************************************************)
EXTENDS AMF3Items, AMF3Integer

CONSTANTS
    Heap0,       \* the items of the program: name |-> Item
    Height,      \* how deep each item is: more than those it points to
    Roots,       \* the items that are handed to the serializer
    Changes,     \* what the program may change in between: <<name, new item>>
    Hosts,       \* the byte orders looked at: "little", "big"
    MaxLength,   \* 2^27, or less: lengths from here on are refused
    MaxItems,    \* bound: items in one stream
    MaxSteps,    \* bound: eights of pieces of one item
    DoubleOf,    \* the double for an integer out of range
    Decimal      \* the text for the value of a key

-----------------------------------------------------------------------------
(* What the items of a program are.                                        *)

Names   == DOMAIN Heap0
Strings == Seq(Bytes)

\* What an item may be in the course of time, and all that is ever in the heap
Versions(o) == {Heap0[o]} \cup {c[2] : c \in {d \in Changes : d[1] = o}}
Nodes       == UNION {Versions(o) : o \in Names}

PointsTo(n) == ToSet(n.items) \cup {n.members[k] : k \in DOMAIN n.members}
                    \cup {n.sealed[k] : k \in DOMAIN n.sealed}
                    \cup UNION {{p[1], p[2]} : p \in n.pairs}

MapOf(f) == IsFiniteSet(DOMAIN f) /\ DOMAIN f \subseteq Strings /\ f \in [DOMAIN f -> Names]

\* What an AmfInteger has room for: lengths, and attributes of traits
LengthLimit == 134217728
AttrsLimit  == 16777216

\* The values of each class.  An attribute is counted in an integer of 29 bits,
\* of which four are other things; the program's externalizers write one byte.
ValueOf(n) ==
    CASE n.type = "integer" -> /\ n.value \in Seq(Int) /\ Len(n.value) = 1
                               /\ ~InRange(n.value[1]) => n.value[1] \in DOMAIN DoubleOf
      [] n.type \in {"double", "date"} -> n.value \in Strings /\ Len(n.value) = 8
      [] n.type \in Vectors -> n.value \in Strings /\ Len(n.value) % Stride[n.type] = 0
      [] n.type = "object"   -> /\ n.value \in Strings
                                /\ Len(n.value) <= (IF "externalizable" \in n.flags THEN 1 ELSE 0)
      [] OTHER               -> n.value \in Strings

ItemOf(n) ==
    /\ n = [x \in DOMAIN Item |-> n[x]]
    /\ n.type \in DOMAIN Uses
    /\ \A x \in DOMAIN Item \ (Uses[n.type] \cup {"type"}) : n[x] = Item[x]
    /\ n.flags \in FlagsOf(n.type)
    /\ ValueOf(n)
    /\ n.name \in Strings
    /\ n.attrs \in Seq(Strings) /\ Len(n.attrs) < AttrsLimit
    /\ "externalizable" \in n.flags => n.attrs = <<>>
    /\ MapOf(n.sealed) /\ MapOf(n.members)
    /\ n.items \in Seq(Names)
    /\ n.pairs \in SUBSET (Names \X Names) /\ IsFiniteSet(n.pairs)

\* Values have values inside, headers and messages one, and packets headers and
\* then messages.
PartsFit(n) ==
    LET types(o) == {m.type : m \in Versions(o)}
    IN CASE n.type = "packet" ->
              /\ \A i \in DOMAIN n.items : \E t \in PartTypes : types(n.items[i]) = {t}
              /\ \A i, j \in DOMAIN n.items :
                    i < j /\ "header" \in types(n.items[j]) => "header" \in types(n.items[i])
         [] n.type # "packet" ->
              /\ \A o \in PointsTo(n) : types(o) \subseteq ValueTypes
              /\ n.type \in PartTypes => Len(n.items) = 1

\* No item contains itself.
Descends == Height \in [Names -> Nat]
            /\ \A o \in Names : \A n \in Versions(o) : \A p \in PointsTo(n) : Height[p] < Height[o]

\* The texts and doubles that are asked for
Converted ==
    /\ DoubleOf \in [DOMAIN DoubleOf -> {s \in Strings : Len(s) = 8}]
    /\ \A n \in Nodes : n.type = "date" =>
          AsDouble(n.value) \in Strings /\ Len(AsDouble(n.value)) = 8
    /\ Decimal \in [DOMAIN Decimal -> Strings]
    /\ \A n \in Nodes : "asString" \in n.flags =>
          \A p \in n.pairs : \A k \in Versions(p[1]) :
              k.type \in {"integer", "double"} => k.value \in DOMAIN Decimal

ASSUME AMF3Assumption ==
    /\ \A n \in Nodes : ItemOf(n) /\ PartsFit(n)
    /\ Descends
    /\ Converted
    /\ \A o \in Roots : o \in Names /\ \A n \in Versions(o) : n.type \in ValueTypes \cup {"packet"}
    /\ \A c \in Changes : Len(c) = 2 /\ c[1] \in Names
    /\ Hosts \subseteq {"little", "big"}
    /\ MaxLength \in 0 .. LengthLimit
    /\ MaxSteps \in Nat

-----------------------------------------------------------------------------
VARIABLES
    host,        \* BYTE_ORDER
    heap,        \* the items that may change, as they are now
    writer,      \* Serializer::ctx and Serializer::buf
    sent         \* history: what was written and where it ends

serializerVars == <<host, heap, writer, sent>>

EmptyContext == [strings |-> <<>>, traits |-> <<>>, objects |-> <<>>, buf |-> <<>>,
                 todo |-> <<>>, thrown |-> FALSE, drifted |-> FALSE, sound |-> TRUE]

-----------------------------------------------------------------------------
(* Items as values, for operator==.                                        *)

At(o) == IF o \in DOMAIN heap THEN heap[o] ELSE Heap0[o]

\* The item with f[o] in the place of each item o that it points to.  What a class
\* that is not dynamic has of dynamic properties is neither compared nor written.
Inside(n, f) ==
    [n EXCEPT
        !.sealed  = [k \in DOMAIN n.sealed |-> f[n.sealed[k]]],
        !.members = [k \in {m \in DOMAIN n.members : n.type = "object" => "dynamic" \in n.flags} |->
                        f[n.members[k]]],
        !.items   = [i \in DOMAIN n.items |-> f[n.items[i]]],
        !.pairs   = {<<f[p[1]], f[p[2]]>> : p \in n.pairs}]

\* The item with everything it points to.
TreeOf[o \in DOMAIN Heap0] == Inside(At(o), TreeOf)

Tree(n) == Inside(n, TreeOf)

-----------------------------------------------------------------------------
(* Mistakes: what a plausible error would make of a definition below.      *)

\* Two arrays, or two vectors of objects, whose elements are not compared.
SameButItems(m, n) ==
    m.type = n.type /\ Tree([m EXCEPT !.items = <<>>]) = Tree([n EXCEPT !.items = <<>>])

-----------------------------------------------------------------------------
(* Equality.                                                               *)

\* The dynamic_cast of getIndex<T>, then the class's operator==.
Same(m, n) == m.type = n.type /\ Tree(m) = Tree(n)

\* Comparing two objects calls their externalizers if the rest is equal, and
\* one that was never set throws.  (Objects inside of others are compared by
\* their values here.)
Uncomparable(m, n) ==
    /\ m.type = n.type
    /\ "externalizable" \in n.flags
    /\ <<>> \in {m.value, n.value}
    /\ Same([m EXCEPT !.value = <<>>], [n EXCEPT !.value = <<>>])

-----------------------------------------------------------------------------
(* Bytes.                                                                  *)

Throw(c)   == [c EXCEPT !.thrown = TRUE]
Emit(c, b) == [c EXCEPT !.buf = @ \o b]

\* network_bytes(x), x given by its bytes in network order: `swapped` is
\* computed, and the bytes of x itself are returned.
NetworkBytes(b) == IF host = "little" THEN Reverse(b) ELSE b

\* u16 and u32 of a number
Count16(n) == <<(n \div 256) % 256, n % 256>>
Count32(n) == <<(n \div 16777216) % 256, (n \div 65536) % 256>> \o Count16(n)

\* A count, a length or a double goes through network_bytes.  Not sound: the order
\* of its bytes changes, or `exact` says that it is not the number it stands for.
EmitNumber(c, b, exact) ==
    [Emit(c, NetworkBytes(b)) EXCEPT !.sound = @ /\ exact /\ NetworkBytes(b) = b]

\* AmfInteger::asLength, with a type marker or with none.
EmitLength(c, marker, n) ==
    IF n >= MaxLength THEN Throw(c) ELSE Emit(c, marker \o LengthBytes(n))

\* A reference.  Not sound: an index that has no room in the one byte, and any
\* once the tables have drifted.
EmitIndex(c, b, room) ==
    [Emit(c, b) EXCEPT !.sound = @ /\ room /\ ~c.drifted]

\* u8(index << 1)
EmitReference(c, marker, index) ==
    EmitIndex(c, marker \o <<(index * 2) % 256>>, index < 64)

\* The place of the string in the table, or none
StringIndex(s, c) == SelectInSeq(c.strings, LAMBDA t : t = s)

\* AmfString::serializeValue: the empty string is never in the table; a string
\* is in the table before its length is looked at.
WriteString(s, c) ==
    LET index == StringIndex(s, c) - 1
        added == [c EXCEPT !.strings = Append(@, s)]
    IN IF c.thrown THEN c
       ELSE CASE s = <<>>   -> Emit(c, <<1>>)
              [] index >= 0 -> EmitReference(c, <<>>, index)
              [] OTHER      -> Emit(EmitLength(added, <<>>, Len(s)), s)

-----------------------------------------------------------------------------
(* History: what the one who reads has to get.                             *)

\* AmfDictionary::serializeKey: some keys are written as their words.
IsWord(n, o) == "asString" \in n.flags /\ At(o).type \in Worded
KeyText(k)   == IF k.type \in {"integer", "double"} THEN Decimal[k.value]
                                                    ELSE Wording[k.type]

\* The key o of the dictionary n
Key(n, o, f) == IF IsWord(n, o)
                THEN [Item EXCEPT !.type = "string", !.value = KeyText(At(o))] ELSE f[o]

\* Integers out of range are doubles, attributes are in order, and of the
\* properties of a class the one who reads has those that are attributes.
Shown(n, f) ==
    LET inside == Inside(n, f)
    IN IF n.type = "integer" /\ ~InRange(n.value[1])
       THEN [Item EXCEPT !.type = "double", !.value = DoubleOf[n.value[1]]]
       ELSE [inside EXCEPT
                !.flags  = n.flags \ {"asString"},
                !.attrs  = Sorted(ToSet(n.attrs)),
                !.sealed = [k \in DOMAIN n.sealed \cap ToSet(n.attrs) |-> f[n.sealed[k]]],
                !.pairs  = {<<Key(n, p[1], f), f[p[2]]>> : p \in n.pairs}]

ShownOf[o \in DOMAIN Heap0] == Shown(At(o), ShownOf)

Received(n) == Shown(n, ShownOf)

-----------------------------------------------------------------------------
(* What is written of an item behind its head, piece by piece.             *)

Piece(op, of) == [op |-> op, of |-> of]
Items(os)     == [i \in DOMAIN os |-> Piece("item", os[i])]
End           == <<Piece("end", <<>>)>>

\* Names and values of a map
Members(f) ==
    LET names == Sorted(DOMAIN f)
    IN [i \in 1 .. 2 * Len(names) |->
           LET k == names[(i + 1) \div 2]
           IN IF i % 2 = 1 THEN Piece("name", k) ELSE Piece("item", f[k])]

\* sealedProperties.at(attribute) throws if there is no such value.
Sealed(n) ==
    LET names == Sorted(ToSet(n.attrs))
    IN [i \in DOMAIN names |->
           IF names[i] \in DOMAIN n.sealed THEN Piece("item", n.sealed[names[i]])
                                           ELSE Piece("missing", <<>>)]

\* In the order of the unordered_map, which is any
Pairs(n) ==
    LET pairs == SetToSeq(n.pairs)
    IN [i \in 1 .. 2 * Len(pairs) |->
           LET p == pairs[(i + 1) \div 2]
           IN IF i % 2 = 0 THEN Piece("item", p[2])
              ELSE Piece(IF IsWord(n, p[1]) THEN "word" ELSE "item", p[1])]

\* assoc-values, UTF-8-empty and values of an array; sealed and dynamic
\* properties of an object
Pieces(n) ==
    CASE n.type = "array"        -> Members(n.members) \o End \o Items(n.items)
      [] n.type = "vectorObject" -> Items(n.items)
      [] n.type = "dictionary"   -> Pairs(n)
      [] n.type = "object"       ->
            IF "dynamic" \in n.flags THEN Sealed(n) \o Members(n.members) \o End
                                     ELSE Sealed(n)

-----------------------------------------------------------------------------
(* The classes: what they write themselves, and first.                     *)

\* The pieces are next.
Push(c, n) == [c EXCEPT !.todo = Append(@, [node |-> n, done |-> 0, slot |-> Len(c.objects)])]

SerializeDouble(b, c) == EmitNumber(Emit(c, <<Marker.double>>), b, TRUE)

\* The milliseconds are written as a double.
SerializeDate(n, c) ==
    LET b == AsDouble(n.value)
    IN EmitNumber(Emit(c, <<Marker.date, 1>>), b, AsLong(b) = n.value)

SerializeText(n, c) ==
    Emit(EmitLength(c, <<Marker[n.type]>>, Len(n.value)), n.value)

\* The elements go through hton and not network_bytes: they are right.
SerializeVector(n, c) ==
    Emit(EmitLength(c, <<Marker[n.type]>>, Len(n.value) \div Stride[n.type]),
         <<IF "fixed" \in n.flags THEN 1 ELSE 0>> \o n.value)

SerializeArray(n, c) == Push(EmitLength(c, <<Marker.array>>, Len(n.items)), n)

SerializeObjectVector(n, c) ==
    LET head == Emit(EmitLength(c, <<Marker[n.type]>>, Len(n.items)),
                     <<IF "fixed" \in n.flags THEN 1 ELSE 0>>)
    IN Push(WriteString(n.name, head), n)

\* Not sound: two keys that are the same to the one who reads.
SerializeDictionary(n, c) ==
    LET differ == \A p, q \in n.pairs : Key(n, p[1], ShownOf) = Key(n, q[1], ShownOf) => p = q
        head == Emit(EmitLength(c, <<Marker.dictionary>>, Cardinality(n.pairs)),
                     <<IF "weak" \in n.flags THEN 1 ELSE 0>>)
    IN Push([head EXCEPT !.sound = @ /\ differ], n)

WriteStrings(names, c) ==
    LET written[i \in 0 .. Len(names)] ==
            IF i = 0 THEN c ELSE WriteString(names[i], written[i - 1])
    IN written[Len(names)]

TraitsIndex(n, c) == SelectInSeq(c.traits, LAMBDA t : t = Traits(n))

\* The traits of an object: u8((trait_index << 2) | 1), or all of them.  The
\* class name is serialized before the table is looked at, and its bytes are
\* dropped when the traits are a reference.
EmitTraits(n, c, named) ==
    LET index  == TraitsIndex(n, named) - 1
        names  == Sorted(ToSet(n.attrs))
        marker == IF "externalizable" \in n.flags THEN <<7>>
                  ELSE IntegerBytes(Len(names) * 16 + 3
                                        + IF "dynamic" \in n.flags THEN 8 ELSE 0)
        added  == [named EXCEPT !.traits = Append(@, Traits(n)),
                                !.buf = c.buf \o marker \o named.buf]
    IN IF named.thrown THEN named
       ELSE IF index >= 0
            THEN EmitIndex([named EXCEPT !.buf = c.buf], <<(index * 4 + 1) % 256>>,
                           index < 32)
       ELSE IF "externalizable" \in n.flags THEN added
       ELSE WriteStrings(names, added)

SerializeTraits(n, c) == EmitTraits(n, c, WriteString(n.name, [c EXCEPT !.buf = <<>>]))

\* The externalizer is the program's: it writes `value`, and throws if it was
\* never set.  Not sound: a class nobody registered with the deserializer.
Externalize(n, c) ==
    IF n.value = <<>> THEN Throw(c)
    ELSE [Emit(c, n.value) EXCEPT !.sound = @ /\ n.name \in Registered]

EmitObject(n, head) ==
    IF "externalizable" \in n.flags THEN Externalize(n, head) ELSE Push(head, n)

SerializeObject(n, c) == EmitObject(n, SerializeTraits(n, Emit(c, <<Marker.object>>)))

\* serialize() of the item's class
Contents(n, c) ==
    CASE n.type \in {"undefined", "null", "false", "true"} -> Emit(c, <<Marker[n.type]>>)
      [] n.type = "integer" ->
            IF InRange(n.value[1]) THEN Emit(c, <<Marker.integer>> \o IntegerBytes(n.value[1]))
            ELSE SerializeDouble(DoubleOf[n.value[1]], c)
      [] n.type = "double" -> SerializeDouble(n.value, c)
      [] n.type = "date"   -> SerializeDate(n, c)
      [] n.type = "string" -> WriteString(n.value, Emit(c, <<Marker.string>>))
      [] n.type \in Texts   -> SerializeText(n, c)
      [] n.type \in Vectors -> SerializeVector(n, c)
      [] n.type = "vectorObject" -> SerializeObjectVector(n, c)
      [] n.type = "array"      -> SerializeArray(n, c)
      [] n.type = "object"     -> SerializeObject(n, c)
      [] n.type = "dictionary" -> SerializeDictionary(n, c)

\* getIndex compares with what the table holds: a copy of the item as it was,
\* whose insides are shared with the program.
ObjectIndex(n, c) ==
    SelectInSeq(c.objects, LAMBDA e : Same(e.copy, n) \/ Uncomparable(e.copy, n))

\* Not sound: a reference to an entry whose insides have changed since it was
\* written, or that is not written to its end.
Serialize(n, c) ==
    LET hit   == ObjectIndex(n, c)
        entry == c.objects[hit]
    IN IF c.thrown THEN c
       ELSE IF hit = 0 THEN
            Contents(n, IF n.type \in Referable
                        THEN [c EXCEPT !.objects = Append(@, [copy |-> n, was |-> Received(n)])]
                        ELSE c)
       ELSE IF Uncomparable(entry.copy, n) THEN Throw(c)
       ELSE EmitReference([c EXCEPT !.sound = /\ @
                                              /\ entry.was = Received(entry.copy)
                                              /\ \A i \in DOMAIN c.todo : c.todo[i].slot # hit],
                          <<Marker[n.type]>>, hit - 1)

-----------------------------------------------------------------------------
(* From the head of an item to its end.                                    *)

\* Not sound: the empty name, which is the mark of the end for the one who reads.
SerializePiece(p, c) ==
    CASE p.op = "item"    -> Serialize(At(p.of), c)
      [] p.op = "name"    -> WriteString(p.of, [c EXCEPT !.sound = @ /\ p.of # <<>>])
      [] p.op = "end"     -> Emit(c, <<1>>)
      [] p.op = "word"    -> WriteString(KeyText(At(p.of)), Emit(c, <<Marker.string>>))
      [] p.op = "missing" -> Throw(c)

\* The next piece of the innermost item, or back to the item it is a piece of
SerializeStep(c) ==
    LET depth == Len(c.todo)
        call  == c.todo[depth]
        next  == call.done + 1
    IN IF next \in DOMAIN Pieces(call.node)
       THEN SerializePiece(Pieces(call.node)[next], [c EXCEPT !.todo[depth].done = next])
       ELSE [c EXCEPT !.todo = Front(@)]

Ended(c) == c.thrown \/ c.todo = <<>>

SerializeOn(c) == IF Ended(c) THEN c ELSE SerializeStep(c)

\* Eight steps at a time keep the recursion flat.
SerializeSome(c) ==
    LET on[i \in 0 .. 8] == IF i = 0 THEN c ELSE SerializeOn(on[i - 1])
    IN IF Ended(c) THEN c ELSE on[8]

SerializeItem(n, c) ==
    LET run[k \in 0 .. MaxSteps] ==
            IF k = 0 THEN Serialize(n, c) ELSE SerializeSome(run[k - 1])
    IN IF Ended(c) THEN run[MaxSteps] ELSE c

-----------------------------------------------------------------------------
(* Packets.                                                                *)

\* U16 length and bytes
EmitName(c, s) == Emit(EmitNumber(c, Count16(Len(s)), Len(s) < 65536), s)

\* The value of a header or message is serialized before its length is known.
EmitValue(c, valued) ==
    LET length == Len(valued.buf) + 1
    IN Emit(EmitNumber(c, Count32(length), length < MaxInt), <<17>> \o valued.buf)

EmitSecond(n, c) == IF n.type = "header"
                    THEN Emit(c, <<IF "mustUnderstand" \in n.flags THEN 1 ELSE 0>>)
                    ELSE EmitName(c, n.value)

EmitPart(n, c, valued) ==
    EmitValue(EmitSecond(n, EmitName([valued EXCEPT !.buf = c.buf], n.name)), valued)

SerializePart(n, c) ==
    EmitPart(n, c, SerializeItem(At(n.items[1]), [c EXCEPT !.buf = <<>>]))

\* The headers come first.
PartsOf(n, kind) ==
    LET headers == Cardinality({i \in DOMAIN n.items : At(n.items[i]).type = "header"})
    IN IF kind = "header" THEN SubSeq(n.items, 1, headers)
                          ELSE SubSeq(n.items, headers + 1, Len(n.items))

SerializeParts(n, kind, c) ==
    LET parts == PartsOf(n, kind)
        done[i \in 0 .. Len(parts)] ==
            IF i = 0 THEN EmitNumber(c, Count16(Len(parts)), TRUE)
            ELSE SerializePart(At(parts[i]), done[i - 1])
    IN done[Len(parts)]

\* Version, headers, messages
SerializePacket(n, c) ==
    IF \E kind \in {"header", "message"} : Len(PartsOf(n, kind)) >= 65536 THEN Throw(c)
    ELSE SerializeParts(n, "message", SerializeParts(n, "header", Emit(c, <<0, 3>>)))

-----------------------------------------------------------------------------
InitSerializer ==
    /\ host \in Hosts
    /\ heap = [o \in {c[1] : c \in Changes} |-> Heap0[o]]
    /\ writer = EmptyContext
    /\ sent = <<>>

\* An exception leaves the bytes alone and the tables as far as they got.
Moved(c) == \/ c.strings # writer.strings
            \/ c.traits # writer.traits
            \/ c.objects # writer.objects

Conclude(n, c) ==
    /\ Ended(c)
    /\ IF c.thrown
       THEN /\ writer' = [c EXCEPT !.thrown = FALSE, !.todo = <<>>, !.buf = writer.buf,
                                   !.sound = writer.sound,
                                   !.drifted = writer.drifted \/ Moved(c)]
            /\ UNCHANGED sent
       ELSE /\ writer' = c
            /\ sent' = Append(sent, [item |-> Received(n), end |-> Len(c.buf),
                                     sound |-> c.sound])

\* Serializer::operator<<
Wrote(n, c) == IF n.type = "packet" THEN SerializePacket(n, c) ELSE SerializeItem(n, c)

Write(n) ==
    /\ Len(sent) < MaxItems
    /\ Conclude(n, Wrote(n, writer))
    /\ UNCHANGED <<host, heap>>

\* The program changes an item that others may share: another value, or one
\* more part (push_back, insert, addSealedProperty, ...).
Change(o, item) ==
    /\ heap' = [heap EXCEPT ![o] = item]
    /\ UNCHANGED <<host, writer, sent>>

\* Serializer::clear
Clear ==
    /\ writer' = EmptyContext
    /\ sent' = <<>>
    /\ UNCHANGED <<host, heap>>
=============================================================================
