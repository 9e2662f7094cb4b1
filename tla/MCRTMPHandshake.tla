-------------------------- MODULE MCRTMPHandshake --------------------------
(***************************************************************************)
(* RTMPHandshake for TLC.  The buffers keep their layout (a version byte,  *)
(* eight bytes of head, random bytes up to N - 3 and two that are never    *)
(* filled) with few random bytes.                                          *)
(***************************************************************************)
EXTENDS RTMPHandshake, TLC

\* A part of the message, and all of it.  Any other length is refused like a
\* part, after it has overwritten as many bytes.
MCC1Sizes == {3, N - 1}

\* All but the last byte, and all.
MCC2Sizes == {N - 3, N - 2}

\* A failed read, the part of the answer before its last random byte, and all.
MCC2SizesFailing == {-1, 9, N - 2}

\* The first byte and the last that is compared.
MCWrongAt == {0, N - 3}

\* The version and the last number drawn are what other workers put into these
\* two places; the third is in nobody's greeting.
MCWrongBytes == {Version, Byte("rand", 1), Other}

Symmetry == Permutations(Workers) \cup Permutations(Clients)
=============================================================================
