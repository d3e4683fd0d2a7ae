---------------------------- MODULE MC_Referrals ----------------------------
(* Small instances of Referrals for TLC: see the README for the bounds.    *)
EXTENDS Referrals, TLC

Symmetry == Permutations(Tx) \cup Permutations(Human \ (Referrer \cup Leaver)) \cup Permutations(Code)
=============================================================================
