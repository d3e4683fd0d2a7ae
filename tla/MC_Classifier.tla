---------------------------- MODULE MC_Classifier ----------------------------
(* Small instances of Classifier for TLC: see the README for the bounds.     *)
EXTENDS Classifier

CONSTANTS q1, q2, q3

\* q1 may be tagged in two ways; about q2 the model never says anything usable.
MCReplies ==
  [q \in Question |->
     CASE q = q1 -> {<<"philosophy", "philosophy">>, <<"religion", "junk">>}
       [] q = q2 -> {<<"junk">>}
       [] q = q3 -> {<<"other">>}]
=============================================================================
