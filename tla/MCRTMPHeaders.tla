--------------------------- MODULE MCRTMPHeaders ---------------------------
(***************************************************************************)
(* RTMPHeaders for TLC: ids at the limits of the three basic headers and   *)
(* one whose byte is the text of a number, numbers with a different byte   *)
(* in every place, and the default arguments.                              *)
(***************************************************************************)
EXTENDS RTMPHeaders

MCChunkStreams == {1, 2, 63, 64, 113, 319, 320, 65599}
MCTimestamps   == {0, 66051, NotGiven}
MCLengths      == {4, 131844, NotGiven}
MCTypeIds      == {0, 5, 20}
MCStreamIds    == {<<0, 0, 0, 0>>, <<1, 2, 3, 4>>}
MCBodies       == {<<>>, <<49, 50, 0>>}
MCStacks       == {0, 255}
=============================================================================
