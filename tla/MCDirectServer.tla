---------------------------- MODULE MCDirectServer ----------------------------
(* Instances of DirectServer for TLC. *)
EXTENDS DirectServer, TLC
=============================================================================
