----------------------------- MODULE MCTargets -----------------------------
(* Targets for TLC: its aliases and its requests are interchangeable.      *)
EXTENDS Targets, TLC

Symmetry == Permutations(Aliases) \cup Permutations(Requests)
=============================================================================
