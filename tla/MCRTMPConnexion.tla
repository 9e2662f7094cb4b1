-------------------------- MODULE MCRTMPConnexion --------------------------
(***************************************************************************)
(* RTMPConnexion for TLC: every stream of up to MaxMessages messages from  *)
(* a few kinds, laid out one after the other.                              *)
(***************************************************************************)
EXTENDS RTMPConnexion

CONSTANT MaxMessages   \* bound: the messages a client sends

Message(kind, body, extra, error) ==
    [kind |-> kind, at |-> 0, head |-> 2, body |-> body, extra |-> extra, error |-> error]

\* A connect in one chunk and in two, the second with and without the decoder
\* noticing; a number that ends like a chunk header; and the rest.
Samples == {Message("connect", 2, 0, 0), Message("connect", 2, 1, 1),
            Message("connect", 2, 1, 0), Message("command", 1, 0, 1),
            Message("chunk_size", 1, 0, 0), Message("control", 1, 0, 0),
            Message("bare", 1, 0, 0)}

\* The same messages, one after the other.
Laid(s) ==
    LET at[k \in DOMAIN s] == IF k = 1 THEN 0 ELSE at[k - 1] + End(s[k - 1])
    IN  [k \in DOMAIN s |-> [s[k] EXCEPT !.at = at[k]]]

MCStreams == {Laid(s) : s \in UNION {[1 .. n -> Samples] : n \in 0 .. MaxMessages}}
=============================================================================
