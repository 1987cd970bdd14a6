--------------------------- MODULE MCReadSessions ---------------------------
(***************************************************************************)
(* Instances of ReadSessions.                                              *)
(***************************************************************************)
EXTENDS ReadSessions
=============================================================================
