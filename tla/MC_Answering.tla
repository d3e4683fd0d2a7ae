---------------------------- MODULE MC_Answering ----------------------------
(* Small instances of Answering for TLC: see the README for the bounds.    *)
EXTENDS Answering, TLC

CONSTANTS q1

\* One option is the beginning of another; the user says more than either,
\* the cron's agent has no view.
MCOption == {<<"new">>, <<"new", "york">>}
MCSaid == [p \in Proc |-> IF p = Cron THEN {NoSignal} ELSE {<<"new", "york", "pizza">>}]

\* The question may be tagged in two ways, one of them a blocked topic.
MCReplies == [q \in Question |-> {<<"philosophy", "philosophy">>, <<"religion", "junk">>}]

\* A crossover question: two tokens, one of them sensitive.
MCCrossover == [q \in Question |-> {<<"philosophy", "religion">>}]

MCFile == [block |-> {<<"religion">>}, cap |-> 1, auto |-> TRUE]

\* A file that only blocks; everything else is the default.
MCBlockFile == [block |-> {<<"religion">>}]

Symmetry == Permutations(Worker)
=============================================================================
