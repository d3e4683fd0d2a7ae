--------------------------- MODULE MC_AnswerWaits ---------------------------
(* Small instances of AnswerWaits for TLC; no symmetry, as the run checks  *)
(* a liveness property.                                                    *)
EXTENDS AnswerWaits
=============================================================================
