----------------------------- MODULE MCOutputs -----------------------------
(* Instances of Outputs for TLC. *)
EXTENDS Outputs, TLC

Symmetry == Permutations(Runs) \cup Permutations(Formats)
=============================================================================
