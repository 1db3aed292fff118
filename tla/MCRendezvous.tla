--------------------------- MODULE MCRendezvous ---------------------------
(* Model-checking instances of Rendezvous. *)
EXTENDS Rendezvous, TLC

CONSTANTS a, b, i0, i1, k0, k1

MCOnePrefix == [h \in Hosts |-> "rs"]
Symmetry == Permutations(Hosts)
=============================================================================
