--------------------------- MODULE MCAMF0Decoder ---------------------------
(***************************************************************************)
(* AMF0Decoder for TLC: all packets of up to three values from samples of  *)
(* every type, with a chunk header anywhere in the first bytes.            *)
(***************************************************************************)
EXTENDS AMF0Decoder

CONSTANTS
    MaxValues,   \* bound: the values of a packet
    MaxCut       \* bound: the place of the chunk header

Value(type, data) == [type |-> type, data |-> data]

\* 1.0, and a number that ends with the byte of a chunk header.
One    == Value("number", <<63, 240, 0, 0, 0, 0, 0, 0>>)
Ending == Value("number", <<64, 0, 0, 0, 0, 0, 0, 195>>)

Under(key, value) == [key |-> key, value |-> value]

\* One key twice, a boolean between others, a null, and no pair at all.
Objects == {<<Under(<<97>>, Value("string", <<98>>)), Under(<<97>>, One)>>,
            <<Under(<<97>>, Value("boolean", <<1>>)), Under(<<98>>, Value("string", <<>>))>>,
            <<Under(<<97>>, Value("null", <<>>)), Under(<<98>>, Ending)>>,
            <<>>}

Samples == {One, Ending, Value("boolean", <<1>>), Value("string", <<99>>),
            Value("null", <<>>), Value("undefined", <<>>)}
             \cup {Value("object", pairs) : pairs \in Objects}

MCPackets == UNION {[1 .. n -> Samples] : n \in 0 .. MaxValues}
MCCuts    == 0 .. MaxCut
MCBehind  == {<<>>, <<4, 0>>}
=============================================================================
