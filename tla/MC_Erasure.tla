----------------------------- MODULE MC_Erasure -----------------------------
(* Small instances of Erasure for TLC: see the README for the bounds.      *)
EXTENDS Erasure, TLC

Symmetry == Permutations(Tx) \cup Permutations(Human)
=============================================================================
