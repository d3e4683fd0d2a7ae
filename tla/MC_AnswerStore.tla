-------------------------- MODULE MC_AnswerStore ----------------------------
(* Small instances of AnswerStore for TLC: see the README for the bounds.  *)
EXTENDS AnswerStore, TLC

\* Questions, humans and request slots are interchangeable; answers are not
\* (an opinion and a no-signal answer are counted differently).
Symmetry ==
  Permutations(Tx) \cup Permutations(Human) \cup Permutations(Question)
=============================================================================
