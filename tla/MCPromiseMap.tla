---------------------------- MODULE MCPromiseMap ----------------------------
(* Small instances of PromiseMap for TLC. *)
EXTENDS PromiseMap, TLC

Symmetry == Permutations(Requests) \cup Permutations(Keys)
=============================================================================
