-------------------------- MODULE AMF3Deserializer --------------------------
(***************************************************************************)
(* The reading half of the AMF3 library: Deserializer, its                 *)
(* SerializationContext, and deserialize() of every class.                 *)
(*                                                                         *)
(* A reader r is threaded through the calls: the bytes it is given, the    *)
(* place `at` of the next one, the three tables, whether an exception is   *)
(* on its way, what the last call returned (`num`, `str`, `trait`, `list`, *)
(* `item`), and the calls under way (`stack`): the containers that are     *)
(* begun, each with its place in the table of objects and what it wants    *)
(* to read next.                                                           *)
(***************************************************************************)
EXTENDS AMF3Items, AMF3Integer

VARIABLES
    wire,        \* the bytes that have arrived
    reader,      \* Deserializer::ctx, and the caller's iterator
    got          \* history: the items read

deserializerVars == <<wire, reader, got>>

NewReader == [data |-> <<>>, at |-> 1, strings |-> <<>>, traits |-> <<>>, objects |-> <<>>,
              thrown |-> FALSE, num |-> 0, str |-> <<>>, trait |-> Traits(Item),
              list |-> <<>>, item |-> Item, stack |-> <<>>]

\* What stays of it between two calls
Settled(r) == [NewReader EXCEPT !.strings = r.strings, !.traits = r.traits,
                                !.objects = r.objects, !.at = r.at, !.thrown = r.thrown]

\* An exception, and what comes next if there was none.
Refuse(r)       == [r EXCEPT !.thrown = TRUE]
Then(r, Go(_))  == IF r.thrown THEN r ELSE Go(r)

\* How many bytes are left
Left(r) == Len(r.data) - r.at + 1

-----------------------------------------------------------------------------
(* Mistakes: what a plausible error would make of the definitions below.   *)

\* The empty string gets a place in the table.
RememberAny(r) == [r EXCEPT !.strings = Append(@, r.str)]

\* end - it <= length: a string at the very end is refused.
ReadBytesStrictly(r, n) ==
    IF n < 0 \/ n >= Left(r) THEN Refuse(r)
    ELSE [r EXCEPT !.str = SubSeq(r.data, r.at, r.at + n - 1), !.at = @ + n]

-----------------------------------------------------------------------------
(* Bytes and tables.                                                       *)

\* AmfInteger::deserializeValue
ReadInteger(r) ==
    IF ~Whole(r.data, r.at) THEN Refuse(r)
    ELSE [r EXCEPT !.num = Value(r.data, r.at), !.at = @ + Size(r.data, r.at)]

\* The next n bytes, all of which must be there.  A negative length, which no
\* serializer writes, is refused by the constructor of the string.
ReadBytes(r, n) ==
    IF n < 0 \/ n > Left(r) THEN Refuse(r)
    ELSE [r EXCEPT !.str = SubSeq(r.data, r.at, r.at + n - 1), !.at = @ + n]

\* A byte that is a bool
Flag(r, name) == IF r.str = <<1>> THEN {name} ELSE {}

\* SerializationContext::addString
Remember(r) == IF r.str = <<>> THEN r ELSE [r EXCEPT !.strings = Append(@, r.str)]

\* SerializationContext::getString: strings.at throws outside of the table.
GetString(r) ==
    LET i == r.num \div 2 + 1
    IN IF i \in DOMAIN r.strings THEN [r EXCEPT !.str = r.strings[i]] ELSE Refuse(r)

\* AmfString::deserializeValue
ReadString(r) ==
    Then(ReadInteger(r), LAMBDA u :
        IF u.num % 2 = 0 THEN GetString(u)
        ELSE Then(ReadBytes(u, u.num \div 2), Remember))

-----------------------------------------------------------------------------
(* Items inside of items.                                                  *)

\* What a container wants of `op`, n times; none is no want.
Want(op, key, n) == IF n <= 0 THEN <<>> ELSE <<[op |-> op, key |-> key, n |-> n]>>

\* addPointer, before the insides are read
Open(r, item, wants) ==
    [r EXCEPT !.objects = Append(@, item),
              !.stack   = Append(@, [slot |-> Len(r.objects) + 1, wants |-> wants])]

Wants(r) == r.stack[Len(r.stack)].wants

\* The innermost container goes on with `wants`, and has `item` in its slot.
GoOn(r, wants, item) ==
    [r EXCEPT !.stack[Len(r.stack)].wants = wants,
              !.objects[r.stack[Len(r.stack)].slot] = item]

Put(f, k, v) == [x \in DOMAIN f \cup {k} |-> IF x = k THEN v ELSE f[x]]

\* The item that was read goes where it is wanted; a name or key that comes twice
\* keeps the later value.
Deliver(r) ==
    LET want == Head(Wants(r))
        rest == Tail(Wants(r))
        slot == r.objects[r.stack[Len(r.stack)].slot]
    IN IF r.stack = <<>> THEN r
       ELSE CASE want.op = "items" ->
                   GoOn(r, Want("items", <<>>, want.n - 1) \o rest,
                        [slot EXCEPT !.items = Append(@, r.item)])
              [] want.op = "member" ->
                   GoOn(r, rest, [slot EXCEPT !.members = Put(@, want.key, r.item)])
              [] want.op = "sealed" ->
                   GoOn(r, rest, [slot EXCEPT !.sealed = Put(@, want.key, r.item)])
              [] want.op = "pairs" ->
                   GoOn(r, Want("value", r.item, 1) \o Want("pairs", <<>>, want.n - 1), slot)
              [] OTHER ->   \* "value"
                   GoOn(r, rest, [slot EXCEPT !.pairs = {p \in @ : p[1] # want.key}
                                                            \cup {<<want.key, r.item>>}])

Return(r, item) == Deliver([r EXCEPT !.item = item])

\* SerializationContext::addObject, for an item with nothing inside
Keep(r, item) == Return([r EXCEPT !.objects = Append(@, item)], item)

\* SerializationContext::getPointer: the place must be in the table and of the
\* type that the marker announced.
GetPointer(r, type) ==
    LET i == r.num \div 2 + 1
    IN IF i \in DOMAIN r.objects /\ r.objects[i].type = type
       THEN Return(r, r.objects[i])
       ELSE Refuse(r)

-----------------------------------------------------------------------------
(* The classes, behind the integer that says reference or contents.        *)

ReadText(r, type, length) ==
    Then(ReadBytes(r, length), LAMBDA s :
        Keep(s, [Item EXCEPT !.type = type, !.value = s.str]))

ReadVector(r, type, count) ==
    Then(ReadBytes(r, 1), LAMBDA f :
        Then(ReadBytes(f, count * Stride[type]), LAMBDA v :
            Keep(v, [Item EXCEPT !.type = type, !.value = v.str, !.flags = Flag(f, "fixed")])))

ReadDate(r) ==
    Then(ReadBytes(r, 8), LAMBDA v :
        Keep(v, [Item EXCEPT !.type = "date", !.value = AsLong(v.str)]))

ReadArray(r, length) ==
    Open(r, [Item EXCEPT !.type = "array"],
         Want("members", <<>>, 1) \o Want("items", <<>>, length))

ReadObjectVector(r, count) ==
    Then(ReadBytes(r, 1), LAMBDA f :
        Then(ReadString(f), LAMBDA n :
            IF count < 0 THEN Refuse(n)
            ELSE Open(n, [Item EXCEPT !.type = "vectorObject", !.name = n.str,
                                      !.flags = Flag(f, "fixed")],
                      Want("items", <<>>, count))))

ReadDictionary(r, size) ==
    Then(ReadBytes(r, 1), LAMBDA w :
        Open(w, [Item EXCEPT !.type = "dictionary",
                             !.flags = IF w.str = <<0>> THEN {} ELSE {"weak"}],
             Want("pairs", <<>>, size)))

\* The names of the sealed properties, kept in the order they come in, with their
\* repetitions.  A name takes a byte at least: of more names than bytes one is
\* not there, and reading ends in an exception.
ReadAttribute(r) ==
    Then(r, LAMBDA s : Then(ReadString(s), LAMBDA n :
        [n EXCEPT !.trait.attrs = Append(@, n.str)]))

ReadAttributes(r, count) ==
    LET read[i \in 0 .. count] == IF i = 0 THEN r ELSE ReadAttribute(read[i - 1])
    IN IF count > Left(r) THEN Refuse(r) ELSE IF count <= 0 THEN r ELSE read[count]

\* Traits by reference, of an externalizable class, or with the names of the
\* sealed properties.
GetTraits(r) ==
    LET i == r.num \div 4 + 1
    IN IF i \in DOMAIN r.traits THEN [r EXCEPT !.trait = r.traits[i]] ELSE Refuse(r)

ReadTraits(r) ==
    LET ext   == r.num % 8 = 7
        flags == IF ext THEN {"externalizable"}
                 ELSE IF (r.num \div 8) % 2 = 1 THEN {"dynamic"} ELSE {}
        Named(n) == [n EXCEPT !.trait = [name |-> n.str, flags |-> flags, attrs |-> <<>>]]
    IN IF r.num % 4 = 1 THEN GetTraits(r)
       ELSE Then(ReadString(r), LAMBDA n :
                Then(ReadAttributes(Named(n), IF ext THEN 0 ELSE r.num \div 16), LAMBDA t :
                     [t EXCEPT !.traits = Append(@, t.trait)]))

\* The registered function is the program's: it reads what the externalizer
\* wrote, here one byte.  There must be one for the class.
ReadExternal(r, item) ==
    IF item.name \notin Registered THEN Refuse(r)
    ELSE Then(ReadBytes(r, 1), LAMBDA b : Keep(b, [item EXCEPT !.value = b.str]))

ReadObject(r) ==
    Then(ReadTraits(r), LAMBDA t :
        LET attrs == t.trait.attrs
            item  == [Item EXCEPT !.type = "object", !.name = t.trait.name,
                                  !.flags = t.trait.flags, !.attrs = attrs]
        IN IF "externalizable" \in t.trait.flags THEN ReadExternal(t, item)
           ELSE Open(t, item,
                     [i \in DOMAIN attrs |-> [op |-> "sealed", key |-> attrs[i], n |-> 1]]
                        \o Want("members", <<>>, IF "dynamic" \in t.trait.flags THEN 1 ELSE 0)))

\* A referable item: behind the marker, a reference or a length.
ReadReferable(r, type) ==
    Then(ReadInteger(r), LAMBDA u :
        LET size == u.num \div 2
        IN IF u.num % 2 = 0 THEN GetPointer(u, type)
           ELSE CASE type \in Texts   -> ReadText(u, type, size)
                  [] type \in Vectors -> ReadVector(u, type, size)
                  [] type = "date"    -> ReadDate(u)
                  [] type = "array"   -> ReadArray(u, size)
                  [] type = "object"  -> ReadObject(u)
                  [] type = "vectorObject" -> ReadObjectVector(u, size)
                  [] type = "dictionary"   -> ReadDictionary(u, size))

\* Deserializer::deserialize: the marker chooses the class.
ReadMarked(m) ==
    LET known == {t \in DOMAIN Marker : <<Marker[t]>> = m.str}
        type  == CHOOSE t \in known : TRUE
        Result(u, value) == Return(u, [Item EXCEPT !.type = type, !.value = value])
    IN IF known = {} THEN Refuse(m)
       ELSE CASE type \in {"undefined", "null", "false", "true"} -> Result(m, <<>>)
              [] type = "integer" -> Then(ReadInteger(m), LAMBDA u : Result(u, <<u.num>>))
              [] type = "string"  -> Then(ReadString(m), LAMBDA u : Result(u, u.str))
              [] type = "double"  -> Then(ReadBytes(m, 8), LAMBDA u : Result(u, u.str))
              [] OTHER -> ReadReferable(m, type)

Deserialize(r) == Then(ReadBytes(r, 1), ReadMarked)

\* Names and values until the empty name
ReadMember(r) ==
    Then(ReadString(r), LAMBDA n :
        [n EXCEPT !.stack[Len(r.stack)].wants =
            IF n.str = <<>> THEN Tail(@) ELSE Want("member", n.str, 1) \o @])

\* The next thing that the innermost container wants; what wants nothing more is
\* itself the item that was read.
ReadStep(r) ==
    LET depth == Len(r.stack)
    IN IF Wants(r) = <<>>
       THEN Return([r EXCEPT !.stack = Front(@)], r.objects[r.stack[depth].slot])
       ELSE IF Head(Wants(r)).op = "members" THEN ReadMember(r)
       ELSE Deserialize(r)

Finished(r) == r.thrown \/ r.stack = <<>>

ReadOn(r) == IF Finished(r) THEN r ELSE ReadStep(r)

\* Eight steps at a time keep the recursion flat.
ReadSome(r) ==
    LET on[i \in 0 .. 8] == IF i = 0 THEN r ELSE ReadOn(on[i - 1])
    IN IF Finished(r) THEN r ELSE on[8]

\* Each step reads a byte or leaves a container, for which one was read.
DeserializeItem(r) ==
    LET run[k \in 0 .. Left(r) \div 4 + 1] ==
            IF k = 0 THEN Deserialize(r) ELSE ReadSome(run[k - 1])
    IN run[Left(r) \div 4 + 1]

-----------------------------------------------------------------------------
(* Packets.                                                                *)

\* read_network, of two or four bytes: what is larger than TLC counts is larger than
\* any wire, and the length of all ones stands for an unknown one.
Number(b) ==
    CASE b = <<255, 255, 255, 255>>     -> 1
      [] Len(b) = 2                     -> b[1] * 256 + b[2]
      [] Len(b) = 4 /\ b[1] < 128       -> b[1] * 16777216 + b[2] * 65536 + b[3] * 256 + b[4]
      [] Len(b) = 4 /\ b[1] >= 128 /\ b # <<255, 255, 255, 255>> -> MaxInt

ReadNumber(r, size) ==
    Then(ReadBytes(r, size), LAMBDA b : [b EXCEPT !.num = Number(b.str)])

ReadName(r) == Then(ReadNumber(r, 2), LAMBDA n : ReadBytes(n, n.num))

\* No byte is left, and the length of the value, 0, is no more than that: the byte
\* behind the last is taken for the type marker.  It is none, and refused.
Stray(r) == [r EXCEPT !.at = @ + 1, !.thrown = TRUE]

\* The length of a value is compared with what is left, and not used further.
ReadTyped(m) ==
    IF m.thrown THEN m ELSE IF m.str # <<17>> THEN Refuse(m) ELSE DeserializeItem(m)

ReadLengthy(n) ==
    IF n.thrown THEN n
    ELSE IF n.num > Left(n) THEN Refuse(n)
    ELSE IF Left(n) = 0 THEN Stray(n)
    ELSE ReadTyped(ReadBytes(n, 1))

ReadValue(r) == ReadLengthy(ReadNumber(r, 4))

\* A name, then the flag of a header or the response of a message, and a value
ReadSecond(n, kind) == IF kind = "header" THEN ReadBytes(n, 1) ELSE ReadName(n)

PartOf(kind, name, second, value) ==
    [Item EXCEPT !.type = kind, !.name = name, !.items = <<value>>,
                 !.flags = IF kind = "header" THEN Flag(second, "mustUnderstand") ELSE {},
                 !.value = IF kind = "message" THEN second.str ELSE <<>>]

EndPart(kind, n, s, v) ==
    IF v.thrown THEN v ELSE [v EXCEPT !.list = Append(@, PartOf(kind, n.str, s, v.item))]

ReadLast(kind, n, s) == IF s.thrown THEN s ELSE EndPart(kind, n, s, ReadValue(s))

ReadRest(kind, n) == IF n.thrown THEN n ELSE ReadLast(kind, n, ReadSecond(n, kind))

ReadPart(r, kind) == ReadRest(kind, ReadName(r))

\* As many as there are said to be.  Here, too, each takes a byte: of more parts
\* than bytes the last looked at is not there.
ReadNext(r, kind) == IF r.thrown THEN r ELSE ReadPart(r, kind)

ReadCounted(n, kind) ==
    LET count == IF n.num > Left(n) THEN Left(n) + 1 ELSE n.num
        read[i \in 0 .. count] == IF i = 0 THEN n ELSE ReadNext(read[i - 1], kind)
    IN IF n.thrown THEN n ELSE read[count]

ReadParts(r, kind) == ReadCounted(ReadNumber(r, 2), kind)

\* AmfPacket::deserialize; `list` is its headers, then its messages.
ReadMessages(h) == IF h.thrown THEN h ELSE ReadParts(h, "message")

ReadBoth(r) == ReadMessages(ReadParts(r, "header"))

EndPacket(p) ==
    IF p.thrown THEN p ELSE [p EXCEPT !.item = [Item EXCEPT !.type = "packet", !.items = p.list]]

ReadVersioned(v) ==
    IF v.thrown THEN v ELSE IF v.str # <<0, 3>> THEN Refuse(v) ELSE EndPacket(ReadBoth(v))

ReadPacket(r) ==
    IF r.at + 5 > Len(r.data) THEN Refuse(r)
    ELSE ReadVersioned(ReadBytes([r EXCEPT !.list = <<>>], 2))

-----------------------------------------------------------------------------
InitDeserializer ==
    /\ wire = <<>>
    /\ reader = NewReader
    /\ got = <<>>

\* Deserializer::deserialize, or AmfPacket::deserialize where the caller expects a
\* packet
Call(packet, r) == IF packet THEN ReadPacket(r) ELSE DeserializeItem(r)

Accept(r) == /\ reader' = Settled(r)
             /\ got' = IF r.thrown THEN got ELSE Append(got, r.item)

\* The byte behind the last may be a type marker, whatever it is there for.  Then
\* reading goes on behind the bytes, and nothing is said of what comes of it.
Lose(r) == /\ r.at > Len(r.data) + 1
           /\ reader' = [Settled(r) EXCEPT !.thrown = FALSE]
           /\ UNCHANGED got

\* One call, on what has arrived.
Read(packet) ==
    /\ ~reader.thrown
    /\ reader.at <= Len(wire)
    /\ LET r == Call(packet, [reader EXCEPT !.data = wire]) IN Accept(r) \/ Lose(r)
    /\ UNCHANGED wire

\* More of the bytes arrive, and the caller goes on with them.
Provide(bytes) ==
    /\ wire' = bytes
    /\ UNCHANGED <<reader, got>>

\* After an exception: clearContext, and once more from the first byte, when
\* all of them are there.
Restart(bytes) ==
    /\ reader.thrown
    /\ wire' = bytes
    /\ reader' = NewReader
    /\ got' = <<>>
=============================================================================
