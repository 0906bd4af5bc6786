--------------------------- MODULE MCServerVersion ---------------------------
(* Instances of ServerVersion for TLC. *)
EXTENDS ServerVersion, TLC

Symmetry == Permutations(Runs) \cup Permutations(Builds) \cup Permutations(Servers)
=============================================================================
