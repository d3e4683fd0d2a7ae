---------------------------- MODULE AnswerWaits -----------------------------
(***************************************************************************)
(* Who waits for whom in the answer store, and that nobody waits for ever. *)
(* Postgres queues the transactions that wait for a lock, so one that can  *)
(* go on again and again does go on (strong fairness of Step); a cycle of  *)
(* waiting transactions is found by the deadlock detector, which rolls one *)
(* of them back (weak fairness of its Abort).  Nothing else is fair: no    *)
(* human has to answer, no question has to close, no statement has to      *)
(* fail.                                                                   *)
(***************************************************************************)
EXTENDS AnswerStore

\* The transactions whose end the next statement of t waits for.
Blockers(t) ==
  LET q == req[t].question
      u == req[t].human
      writersOfRow == {s \in Tx \ {t} : envWrite[s][q] # Untouched
                                          /\ req[s].human = u}
      writersOfAggregate == {s \in Tx \ {t} : aggWrite[s][q] # Untouched}
      writersOfRegistration == {s \in Tx \ {t} : regWrite[s] # Untouched
                                                   /\ req[s].human = u}
  IN CASE pc[t] \in {"insert", "retryInsert"} -> writersOfRow
       [] pc[t] \in {"override", "delete"} /\ envelopes[q][u] # NoRow -> writersOfRow
       [] pc[t] \in {"lockIncrement", "lockOverride", "lockRevoke"} ->
            {lock[q]} \ {NoTx, t}
       [] pc[t] = "readAggregate" /\ aggregates[q] # NoRow -> writersOfAggregate
       [] pc[t] = "writeAggregate" /\ aggWrite[t][q] = Untouched -> writersOfAggregate
       [] pc[t] = "rebuild" /\ ~(snapshot[t] = NoRow /\ aggregates[q] = NoRow) ->
            writersOfAggregate
       [] pc[t] \in {"countInsert", "countOverride", "countRevoke"}
            /\ registrations[u] # NoRow -> writersOfRegistration
       [] OTHER -> {}

\* The transactions that t waits for in a chain of any length: those in every
\* set that holds its blockers and, with a transaction, the blockers of that one.
Closed(C) == \A s \in C : Blockers(s) \subseteq C
Waits(t) ==
  {s \in Tx : \A C \in SUBSET Tx : Blockers(t) \subseteq C /\ Closed(C) => s \in C}

Deadlocked(t) == t \in Waits(t)

FairSpec ==
  /\ Spec
  /\ \A t \in Tx : SF_vars(Step(t)) /\ WF_vars(Deadlocked(t) /\ Abort(t))

\* Every request that is admitted is answered, with a result or an error: the
\* lock order of the handlers lets nobody wait for ever.
RequestsFinish == \A t \in Tx : pc[t] # "idle" ~> pc[t] = "idle"

\* The order row, question lock, aggregate, registration is the same in every
\* handler; the only way out of it, and so the only deadlock, is the second
\* INSERT of a submit whose row was withdrawn, made while it holds the lock.
OnlyTheRetryDeadlocks ==
  \A t \in Tx :
    Deadlocked(t) =>
      \E s \in Tx : pc[s] = "retryInsert" /\ s \in Waits(t) /\ t \in Waits(s)

\* Why: who holds the lock of a question has asked for it, for its own question.
\* So every wait but the retry's, and for another than a retry, goes down the
\* order of the locks.
HoldersAsked ==
  \A q \in Question : lock[q] # NoTx =>
    /\ pc[lock[q]] \notin {"idle", "insert"}
    /\ req[lock[q]].question = q

LockStage  == {"lockIncrement", "lockOverride", "lockRevoke"}
CountStage == {"countInsert", "countOverride", "countRevoke"}

WaitRank(t) ==
  CASE pc[t] = "insert" -> 3
    [] pc[t] \in LockStage /\ lock[req[t].question] # t -> 2
    [] pc[t] \in CountStage -> 1
    [] OTHER -> 0

WaitsGoDown ==
  \A t \in Tx : \A s \in Blockers(t) :
    WaitRank(s) < WaitRank(t) \/ "retryInsert" \in {pc[s], pc[t]}

WaitInvariant == StoreInvariant /\ HoldersAsked
=============================================================================
