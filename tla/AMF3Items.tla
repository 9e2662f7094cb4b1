----------------------------- MODULE AMF3Items -----------------------------
(***************************************************************************)
(* What the serializer and the deserializer of the AMF3 library share: the *)
(* type markers, the fields of the classes derived from AmfItem, and the   *)
(* order of std::map and std::set.  A string is the sequence of its bytes. *)
(***************************************************************************)
EXTENDS Integers, Sequences, FiniteSets, SequencesExt

CONSTANTS
    Registered,    \* class names with an entry in externalDeserializers
    AsDouble(_),   \* static_cast<double> of a long long, which may round it
    AsLong(_)      \* static_cast<long long> of a double, which cuts its fraction

\* enum AmfMarker
Marker ==
    [undefined |-> 0, null |-> 1, false |-> 2, true |-> 3, integer |-> 4, double |-> 5,
     string |-> 6, xmldoc |-> 7, date |-> 8, array |-> 9, object |-> 10, xml |-> 11,
     bytearray |-> 12, vectorInt |-> 13, vectorUint |-> 14, vectorDouble |-> 15,
     vectorObject |-> 16, dictionary |-> 17]

\* The classes whose instances go into the table of objects.
Referable == {"xmldoc", "date", "array", "object", "xml", "bytearray", "vectorInt",
              "vectorUint", "vectorDouble", "vectorObject", "dictionary"}

Texts   == {"xml", "xmldoc", "bytearray"}
Vectors == {"vectorInt", "vectorUint", "vectorDouble"}

\* VectorProperties<T>::size
Stride == [vectorInt |-> 4, vectorUint |-> 4, vectorDouble |-> 8]

(***************************************************************************)
(* An item, with every class's fields; each type uses some of them:        *)
(*   value    a string's, text's or vector's bytes, the eight of a double, *)
(*            those of the long long of a date (all in network order), the *)
(*            number of an integer, what the externalizer writes, the      *)
(*            response of a message                                        *)
(*   name     class name, type of a vector, name of a header, target       *)
(*   flags    which of its bools are set                                   *)
(*   attrs    traits.attributes                                            *)
(*   sealed   sealedProperties                                             *)
(*   members  dynamicProperties, or the associative part of an array       *)
(*   items    dense part, values of a vector, parts of a packet, the value *)
(*            of a header or message                                       *)
(*   pairs    a dictionary's values                                        *)
(* In the serializer the items inside are the names of shared objects, in  *)
(* the deserializer and in the history the items themselves.               *)
(***************************************************************************)
Item == [type |-> "null", value |-> <<>>, name |-> <<>>, flags |-> {}, attrs |-> <<>>,
         sealed |-> <<>>, members |-> <<>>, items |-> <<>>, pairs |-> {}]

\* Which fields the class of an item has.
Uses ==
    LET none == {} IN
    [undefined |-> none, null |-> none, false |-> none, true |-> none,
     integer |-> {"value"}, double |-> {"value"}, string |-> {"value"}, date |-> {"value"},
     xml |-> {"value"}, xmldoc |-> {"value"}, bytearray |-> {"value"},
     vectorInt |-> {"value", "flags"}, vectorUint |-> {"value", "flags"},
     vectorDouble |-> {"value", "flags"}, vectorObject |-> {"name", "flags", "items"},
     array |-> {"members", "items"}, dictionary |-> {"flags", "pairs"},
     object |-> {"value", "name", "flags", "attrs", "sealed", "members"},
     header |-> {"name", "flags", "items"}, message |-> {"value", "name", "items"},
     packet |-> {"items"}]

\* The bools of each class; an object has traits of one of three kinds.
FlagsOf(type) ==
    CASE type \in Vectors \cup {"vectorObject"} -> {{}, {"fixed"}}
      [] type = "dictionary" -> SUBSET {"weak", "asString"}
      [] type = "object"     -> {{}, {"dynamic"}, {"externalizable"}}
      [] type = "header"     -> {{}, {"mustUnderstand"}}
      [] OTHER               -> {{}}

\* What can be inside of others, and what a packet is made of
ValueTypes == DOMAIN Marker
PartTypes  == {"header", "message"}

Traits(n) == [name |-> n.name, flags |-> n.flags, attrs |-> n.attrs]

\* std::string's order, by which std::map and std::set are walked.
Before(s, t) ==
    \E i \in 1..Len(t) :
        /\ \A j \in 1..(i - 1) : j <= Len(s) /\ s[j] = t[j]
        /\ Len(s) < i \/ s[i] < t[i]

Sorted(names) ==
    CHOOSE s \in [1 .. Cardinality(names) -> names] :
        \A i, j \in DOMAIN s : i < j => Before(s[i], s[j])

\* The largest number that TLC counts to; no wire is as long.
MaxInt == 2147483647

\* The types of key that AmfDictionary::serializeKey turns into a string.
Worded == {"integer", "double", "false", "true", "undefined", "null"}

\* The words for those that are no numbers, cut to their initials.
Wording == [false |-> <<102>>, true |-> <<116>>, undefined |-> <<117>>, null |-> <<110>>]
=============================================================================
