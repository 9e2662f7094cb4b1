----------------------------- MODULE MCBuffers -----------------------------
(***************************************************************************)
(* Buffers for TLC: every header there is to ask for, packets with and     *)
(* without each of their parts, the replies, and reads.                    *)
(***************************************************************************)
EXTENDS Buffers, TLC

Under(key, encoder) == [key |-> key, encoder |-> encoder]
Str(n)  == Fn("string", n)
Double  == Fn("double", 0)
Boolean == Fn("boolean", 0)

\* Sizes of strings: zero, ones that grow when their bytes are swapped, one
\* that does not change.
MCObjects == {<<>>,
              <<Under(1, Str(200)), Under(257, Double)>>,
              <<Under(1, Double), Under(1, Boolean)>>}

PacketArgs == [command : {None, 0, 7}, transaction_id : BOOLEAN,
               objects : {<<>>} \cup {<<o>> : o \in MCObjects} \cup {<<o, <<>>>> : o \in MCObjects}]

MCCalls ==
    {Fn("build_rtmp_header", h) : h \in Requests}
      \cup {Fn("BlockEncoder", p) : p \in PacketArgs}
      \cup {Fn("reply", 4), Fn("reply", 5), Fn("result", 0)}
      \cup {Fn("receive", r) : r \in {r \in [size : {-1, 0, 40}, chunks : 0 .. 2] : r.chunks > 0 => r.size > 0}}

Symmetric == Permutations(Cells)
=============================================================================
