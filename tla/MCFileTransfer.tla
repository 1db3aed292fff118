--------------------------- MODULE MCFileTransfer ---------------------------
(* Instances of FileTransfer: one job of two files, or two jobs.           *)
EXTENDS FileTransfer
MCSize == [f \in 0 .. NFiles - 1 |-> 1]
MCSizeTwo == [f \in 0 .. NFiles - 1 |-> IF f = 0 THEN 1 ELSE 2]
============================================================================
