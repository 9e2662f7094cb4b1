---------------------------- MODULE MCRTMPServer ----------------------------
(***************************************************************************)
(* RTMPServer for TLC.  Workers and descriptors are model values; the runs *)
(* check liveness and use no symmetry.                                     *)
(***************************************************************************)
EXTENDS RTMPServer
=============================================================================
