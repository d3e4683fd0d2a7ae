------------------------------- MODULE Tally --------------------------------
(***************************************************************************)
(* What the broker publishes about one question, and what it keeps about   *)
(* one person, as functions of the stored answers.                         *)
(*                                                                         *)
(* An Answer stands for the stored content of an envelope row: the         *)
(* canonical option label together with the disclosed predicates of the    *)
(* token, or the empty no-signal answer.  by_predicate, no_signal_total    *)
(* and no_signal_by_predicate of packages/broker/src/aggregates.ts are     *)
(* counts of rows by content, so one count per Answer stands for all of    *)
(* them; total_answers is a column of its own and stays one.               *)
(***************************************************************************)
EXTENDS Integers, FiniteSets

CONSTANTS Question,   \* questions
          Human,      \* nullifiers: one per verified human
          Answer,     \* stored contents of an envelope
          Signal,     \* those that carry an opinion (no_signal = false)
          NoRow       \* the absence of a database row

Aggregate    == [total : Nat, by : [Answer -> Nat]]
Registration == [live : BOOLEAN, answers : Nat, signals : Nat]
Credit       == [answers : Nat, signals : Nat]   \* the counters of a registration

ASSUME TallyAssumption ==
  /\ IsFiniteSet(Question)
  /\ IsFiniteSet(Human)
  /\ Signal \subseteq Answer
  /\ NoRow \notin Answer \cup Aggregate \cup Registration \cup Credit

-----------------------------------------------------------------------------
(* Rows of one question: a function from Human to Answer \cup {NoRow}.     *)

Voters(rows)      == {u \in Human : rows[u] # NoRow}
VotersFor(rows, a) == {u \in Human : rows[u] = a}

\* recomputeAggregate: the whole table read again; no rows, no aggregate row.
TallyOf(rows) ==
  IF Voters(rows) = {}
  THEN NoRow
  ELSE [total |-> Cardinality(Voters(rows)),
        by    |-> [a \in Answer |-> Cardinality(VotersFor(rows, a))]]

\* incrementAggregate: one more answer, merged into the stored row ...
Bump(agg, a) ==
  [total |-> agg.total + 1,
   by    |-> [agg.by EXCEPT ![a] = @ + 1]]

\* ... or the row of a question's first answer.
FirstAnswer(a) ==
  [total |-> 1,
   by    |-> [b \in Answer |-> IF b = a THEN 1 ELSE 0]]

-----------------------------------------------------------------------------
(* The per-person counters, as the number of that person's rows.  table is *)
(* a function from Question to rows.                                       *)

Answered(table, u)  == {q \in Question : table[q][u] # NoRow}
Signalled(table, u) == {q \in Question : table[q][u] \in Signal}

\* 1 for an answer that carries an opinion, 0 for a no-signal answer.
SignalWeight(a) == IF a \in Signal THEN 1 ELSE 0

\* GREATEST(n, 0)
AtLeastZero(n) == IF n < 0 THEN 0 ELSE n

=============================================================================
