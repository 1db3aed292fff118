--------------------------- MODULE MCPortableCapture ---------------------------
(* Instances of PortableCapture for TLC. *)
EXTENDS PortableCapture, TLC
=============================================================================
