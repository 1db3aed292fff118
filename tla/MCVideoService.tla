---------------------------- MODULE MCVideoService ----------------------------
(* Instances of VideoService for TLC. *)
EXTENDS VideoService, TLC

\* The connections are interchangeable: sound for the safety runs.
ConnSymmetry == Permutations(Conns)
=============================================================================
