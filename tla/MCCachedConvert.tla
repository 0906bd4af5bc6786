-------------------------- MODULE MCCachedConvert --------------------------
(* Instances of CachedConvert for TLC. *)
EXTENDS CachedConvert, TLC

\* The files have one name, in directories of their own.
OneName == [p \in Paths |-> CHOOSE n \in Names : TRUE]

\* Every file has a name of its own.
OwnNames == [p \in Paths |-> p]

Symmetry ==
  Permutations(Runs) \cup Permutations(Bodies) \cup Permutations(Builds)
    \cup Permutations(Servers) \cup Permutations(URLs)
    \cup Permutations(Options) \cup Permutations(Paths)
=============================================================================
