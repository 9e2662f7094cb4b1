------------------------------- MODULE MCAMF3 -------------------------------
(***************************************************************************)
(* AMF3 for TLC: items of every class, lengths and integers at the limits  *)
(* of their bytes, tables that are just full, items that share others, and *)
(* items that are refused.                                                 *)
(***************************************************************************)
EXTENDS AMF3, TLC

A == <<97>>
B == <<98>>
C == <<99>>

Of(type, value)   == [Item EXCEPT !.type = type, !.value = value]
Array(items)      == [Item EXCEPT !.type = "array", !.items = items]
IntItem(v)        == Of("integer", <<v>>)
Str(s)            == Of("string", s)
Dynamic(members)  == [Item EXCEPT !.type = "object", !.flags = {"dynamic"}, !.members = members]
External(c, b)    == [Item EXCEPT !.type = "object", !.name = c,
                                  !.flags = {"externalizable"}, !.value = b]
Class(attrs, s)   == [Item EXCEPT !.type = "object", !.name = C, !.attrs = attrs, !.sealed = s]
Dictionary(f, p)  == [Item EXCEPT !.type = "dictionary", !.flags = f, !.pairs = p]
Part(kind, o)     == [Item EXCEPT !.type = kind, !.name = A, !.items = <<o>>]
Packet(parts)     == [Item EXCEPT !.type = "packet", !.items = parts]

Zero  == [i \in 1..8 |-> 0]
One   == <<63, 240, 0, 0, 0, 0, 0, 0>>

\* 0, 1 and 2^53 + 1 milliseconds, the last of which no double is.  2^53 is the
\* nearest, and all other doubles that are read as dates are less than 1.
Tick     == <<0, 0, 0, 0, 0, 0, 0, 1>>
Far      == <<0, 32, 0, 0, 0, 0, 0, 1>>
FarLess  == <<0, 32, 0, 0, 0, 0, 0, 0>>
Far53    == <<67, 64, 0, 0, 0, 0, 0, 0>>
MCAsDouble(v) == CASE v = Zero -> Zero [] v = Tick -> One [] v = Far -> Far53
MCAsLong(b)   == CASE b = One -> Tick [] b = Far53 -> FarLess [] OTHER -> Zero
MCDoubleOf == (2^28 :> <<65, 176, 0, 0, 0, 0, 0, 0>>)
MCDecimal  == (<<7>> :> <<55>>) @@ (Zero :> <<48>>)
MCRegistered == {<<101>>}

Ints == {-(2^28), -1, 127, 128, 16383, 16384, 2097151, 2097152, 2^28 - 1, 2^28}

\* Distinct strings w1, w2, ... and dynamic objects t1, t2, ... of distinct
\* classes: arrays of as many as a reference has room for, and of one more,
\* with something at the end that refers to the last.
Word(i)  == "w" \o ToString(i)
Thing(i) == "t" \o ToString(i)
Words(n)  == [i \in 1..n |-> Word(i)] \o <<Word(n)>>
Things(n) == [i \in 1..n |-> Thing(i)] \o <<"x" \o ToString(n)>>
Member(i, m) == [Dynamic(m) EXCEPT !.name = <<i>>]

Named ==
    ("null" :> Of("null", <<>>)) @@ ("true" :> Of("true", <<>>))
    @@ ("undefined" :> Of("undefined", <<>>)) @@ ("false" :> Of("false", <<>>))
    @@ ("zero" :> Of("double", Zero)) @@ ("one" :> Of("double", One))
    @@ ("seven" :> IntItem(7)) @@ ("text7" :> Str(<<55>>))
    @@ ("a" :> Str(A)) @@ ("s" :> Str(A)) @@ ("empty" :> Str(<<>>))
    @@ ("long" :> Str([i \in 1..70 |-> 1]))
    @@ ("xml" :> Of("xml", A)) @@ ("xmldoc" :> Of("xmldoc", A))
    @@ ("bytes" :> Of("bytearray", A))
    @@ ("day0" :> Of("date", Zero)) @@ ("day1" :> Of("date", Tick))
    @@ ("dayFar" :> Of("date", Far))
    @@ ("vecInt" :> [Of("vectorInt", <<0, 0, 0, 1, 255, 255, 255, 254>>) EXCEPT !.flags = {"fixed"}])
    @@ ("vecUint" :> Of("vectorUint", <<0, 0, 1, 0>>)) @@ ("vecDouble" :> Of("vectorDouble", One))
    @@ ("scalars" :> Array(<<"null", "undefined", "true", "false", "zero", "empty",
                             "i-268435456", "i-1", "i127", "i128", "i16383", "i16384",
                             "i2097151", "i2097152", "i268435455">>))
    @@ ("doubles" :> Array(<<"one", "day1", "i268435456", "day1">>))
    @@ ("flat" :> Array(<<"xml", "xmldoc", "bytes", "xml", "day0", "day0",
                          "vecInt", "vecUint", "vecDouble", "vecUint">>))
    @@ ("box" :> [Array(<<"s">>) EXCEPT !.members = (A :> "s") @@ (B :> "a")])
    @@ ("outer" :> Array(<<"box", "xml", "box">>))
    @@ ("point" :> Class(<<B, A>>, (A :> "a") @@ (B :> "null")))
    @@ ("other" :> Class(<<B, A>>, (A :> "null") @@ (B :> "point")))
    @@ ("points" :> [Item EXCEPT !.type = "vectorObject", !.name = C,
                                 !.items = <<"other", "point", "other">>])
    @@ ("dynamic" :> Dynamic((A :> "box") @@ (B :> "point")))
    @@ ("external" :> External(<<101>>, <<5>>)) @@ ("unset" :> External(<<101>>, <<>>))
    @@ ("stranger" :> External(C, <<5>>))
    @@ ("missing" :> Class(<<A>>, <<>>))
    @@ ("unnamed" :> [Array(<<"undefined", "undefined">>) EXCEPT
                          !.members = (<<>> :> "undefined") @@ (<<0>> :> "true")])
    @@ ("lookup" :> Dictionary({"weak"}, {<<"a", "box">>, <<"point", "a">>}))
    @@ ("worded" :> Dictionary({"asString"}, {<<"seven", "a">>, <<"zero", "null">>,
                                              <<"true", "null">>, <<"a", "null">>}))
    @@ ("clash" :> Dictionary({"asString"}, {<<"seven", "a">>, <<"text7", "null">>}))
    @@ ("header" :> [Part("header", "box") EXCEPT !.flags = {"mustUnderstand"}])
    @@ ("message" :> [Part("message", "point") EXCEPT !.value = B])
    @@ ("packet" :> Packet(<<"header", "message", "message">>)) @@ ("nothing" :> Packet(<<>>))
    @@ ("words" :> Array(Words(64))) @@ ("manyWords" :> Array(Words(65)))
    @@ ("things" :> Array(Things(32))) @@ ("manyThings" :> Array(Things(33)))
    @@ ("x32" :> Member(32, (A :> "null"))) @@ ("x33" :> Member(33, (A :> "null")))

Program ==
    Named @@ [o \in {"i" \o ToString(v) : v \in Ints} |->
                IntItem(CHOOSE v \in Ints : o = "i" \o ToString(v))]
          @@ [o \in {Word(i) : i \in 1..65} |-> Str(<<CHOOSE i \in 1..65 : o = Word(i)>>)]
          @@ [o \in {Thing(i) : i \in 1..33} |-> Member(CHOOSE i \in 1..33 : o = Thing(i), <<>>)]

MCHeap == LET program == Program IN program

\* How deep an item is, before and after a change of what it points to.
HeightIn(program) ==
    LET height[o \in DOMAIN program] ==
            LET inside == {height[p] : p \in PointsTo(program[o])}
            IN IF inside = {} THEN 0
               ELSE 1 + CHOOSE h \in inside : \A g \in inside : g <= h
    IN [o \in DOMAIN program |-> height[o]]

MCHeight == CHOOSE f \in {HeightIn(program) : program \in {Program}} : TRUE

MCRoots == {"scalars", "doubles", "flat", "day0", "dayFar", "vecUint", "long", "box", "outer", "point", "points",
            "dynamic", "external", "unset", "stranger", "missing", "unnamed", "lookup",
            "worded", "clash", "packet", "nothing", "words", "manyWords", "things",
            "manyThings"}

MCAlone == {"words", "manyWords", "things", "manyThings"}

MCChanges == {<<"s", Str(B)>>, <<"box", [Program["box"] EXCEPT !.items = <<"s", "xml">>]>>}
=============================================================================
