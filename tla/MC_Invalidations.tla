-------------------------- MODULE MC_Invalidations --------------------------
(* A small instance of Invalidations for TLC: see the README for the bounds. *)
EXTENDS Invalidations

\* A block invalidates nobody, or everybody.
MC_Blocks == {{}, Nullifier}
=============================================================================
