---------------------------- MODULE MCConnRegistry ----------------------------
(* Instances of ConnRegistry for TLC. *)
EXTENDS ConnRegistry, TLC

\* Connections and session keys are interchangeable.
RegistrySymmetry == Permutations(Conns) \cup Permutations(Keys)
=============================================================================
