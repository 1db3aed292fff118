------------------------- MODULE MCTerminalService -------------------------
(* Instance of TerminalService: its connections are interchangeable.       *)
EXTENDS TerminalService, TLC

Symmetry == Permutations(Conns)
=============================================================================
