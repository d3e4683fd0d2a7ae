---------------------------- MODULE AnswerStore -----------------------------
(***************************************************************************)
(* The broker's answer store: POST /v1/envelopes and                       *)
(* POST /v1/envelopes/revoke (packages/broker/src/routes/envelopes.ts,     *)
(* routes/revocations.ts) and the statements of queries.ts they run, on    *)
(* Postgres at READ COMMITTED.                                             *)
(*                                                                         *)
(* A request is a transaction slot t \in Tx that moves through the         *)
(* statements of its handler, one action per statement.  A statement sees  *)
(* the committed tables and the writes of its own transaction; what a      *)
(* transaction writes is kept in envWrite, aggWrite and regWrite until     *)
(* Commit applies it or Abort drops it, and until then the written row is  *)
(* locked: a statement of another transaction that wants to write it       *)
(* waits.  An INSERT .. ON CONFLICT also waits for an uncommitted row with *)
(* the same key; a SELECT or a DELETE does not see such a row.             *)
(*                                                                         *)
(* lock is pg_advisory_xact_lock(hashtextextended(question_id)), held      *)
(* until the transaction ends.                                             *)
(***************************************************************************)
EXTENDS Tally

CONSTANTS Tx,          \* concurrent requests (pooled connections)
          NoTx,        \* nobody holds the lock
          Untouched,   \* no write to this row in this transaction
          NoRequest    \* the slot serves nobody

ASSUME StoreAssumption ==
  /\ NoTx \notin Tx
  /\ Untouched \notin Answer \cup Aggregate \cup Registration \cup {NoRow}

VARIABLES
  open,            \* open[q]: the question accepts answers
  envelopes,       \* envelopes[q][u]: committed row, keyed by the voter tag of u on q
  aggregates,      \* aggregates[q]: committed published counts
  registrations,   \* registrations[u]: committed registration row
  lock,            \* lock[q]: holder of the advisory lock of q
  pc, req,         \* where the request of slot t is, and what it asks
  envWrite, aggWrite, regWrite,   \* uncommitted writes of t
  snapshot         \* what recomputeAggregate's SELECT of t returned

tables == <<envelopes, aggregates, registrations>>
writes == <<envWrite, aggWrite, regWrite, snapshot>>
vars   == <<open, tables, lock, pc, req, writes>>

Request ==
       [op : {"submit"}, question : Question, human : Human, answer : Answer]
  \cup [op : {"revoke"}, question : Question, human : Human, answer : {NoRow}]

Stage == {"idle", "insert", "lockIncrement", "readAggregate", "writeAggregate",
          "lockOverride", "override", "retryInsert", "conflicted",
          "lockRevoke", "delete", "snapshot", "rebuild",
          "countInsert", "countOverride", "countRevoke", "commit"}

TypeOK ==
  /\ open \in [Question -> BOOLEAN]
  /\ envelopes \in [Question -> [Human -> Answer \cup {NoRow}]]
  /\ aggregates \in [Question -> Aggregate \cup {NoRow}]
  /\ registrations \in [Human -> Registration \cup {NoRow}]
  /\ lock \in [Question -> Tx \cup {NoTx}]
  /\ pc \in [Tx -> Stage]
  /\ req \in [Tx -> Request \cup {NoRequest}]
  /\ \A t \in Tx : pc[t] # "idle" => req[t] \in Request
  /\ envWrite \in [Tx -> [Question -> Answer \cup {NoRow, Untouched}]]
  /\ aggWrite \in [Tx -> [Question -> Aggregate \cup {NoRow, Untouched}]]
  /\ regWrite \in [Tx -> Registration \cup {NoRow, Untouched}]
  /\ snapshot \in [Tx -> Aggregate \cup {NoRow, Untouched}]

Init ==
  /\ open = [q \in Question |-> TRUE]
  /\ envelopes = [q \in Question |-> [u \in Human |-> NoRow]]
  /\ aggregates = [q \in Question |-> NoRow]
  /\ registrations = [u \in Human |-> NoRow]
  /\ lock = [q \in Question |-> NoTx]
  /\ pc = [t \in Tx |-> "idle"]
  /\ req = [t \in Tx |-> NoRequest]
  /\ envWrite = [t \in Tx |-> [q \in Question |-> Untouched]]
  /\ aggWrite = [t \in Tx |-> [q \in Question |-> Untouched]]
  /\ regWrite = [t \in Tx |-> Untouched]
  /\ snapshot = [t \in Tx |-> Untouched]

-----------------------------------------------------------------------------
(* What a statement sees and what it waits for.                            *)

Live(u) == registrations[u] # NoRow /\ registrations[u].live

\* Another transaction holds an uncommitted write of the row.
RowBusy(t, q, u) ==
  \E s \in Tx \ {t} : envWrite[s][q] # Untouched /\ req[s].human = u
AggregateBusy(t, q) ==
  \E s \in Tx \ {t} : aggWrite[s][q] # Untouched
RegistrationBusy(t, u) ==
  \E s \in Tx \ {t} : regWrite[s] # Untouched /\ req[s].human = u

\* The rows of q as transaction t sees them.
VisibleRows(t, q) ==
  [u \in Human |->
     IF envWrite[t][q] # Untouched /\ req[t].human = u
     THEN envWrite[t][q]
     ELSE envelopes[q][u]]

\* The aggregate of q as transaction t sees it, and as its commit leaves it.
VisibleAggregate(t, q) ==
  IF aggWrite[t][q] # Untouched THEN aggWrite[t][q] ELSE aggregates[q]

Goto(t, stage) == pc' = [pc EXCEPT ![t] = stage]

\* (faulty variant, for a mutant: the lock is taken for the session)
ReleaseKeepingLock(t) ==
  /\ Goto(t, "idle")
  /\ req' = [req EXCEPT ![t] = NoRequest]
  /\ envWrite' = [envWrite EXCEPT ![t] = [q \in Question |-> Untouched]]
  /\ aggWrite' = [aggWrite EXCEPT ![t] = [q \in Question |-> Untouched]]
  /\ regWrite' = [regWrite EXCEPT ![t] = Untouched]
  /\ snapshot' = [snapshot EXCEPT ![t] = Untouched]
  /\ UNCHANGED lock

\* The transaction of t is over: its locks and its workspace are gone.
Release(t) ==
  /\ Goto(t, "idle")
  /\ req' = [req EXCEPT ![t] = NoRequest]
  /\ lock' = [q \in Question |-> IF lock[q] = t THEN NoTx ELSE lock[q]]
  /\ envWrite' = [envWrite EXCEPT ![t] = [q \in Question |-> Untouched]]
  /\ aggWrite' = [aggWrite EXCEPT ![t] = [q \in Question |-> Untouched]]
  /\ regWrite' = [regWrite EXCEPT ![t] = Untouched]
  /\ snapshot' = [snapshot EXCEPT ![t] = Untouched]

-----------------------------------------------------------------------------
(* Outside a transaction: a question closes, a human registers.            *)

\* closes_at passes, or the status leaves "open".
Close(q) ==
  /\ open[q]
  /\ open' = [open EXCEPT ![q] = FALSE]
  /\ UNCHANGED <<tables, lock, pc, req, writes>>

\* (faulty variants: no column defaults; a refresh that starts from zero)
UpsertedWithoutDefaults(reg) ==
  IF reg = NoRow
  THEN [live |-> TRUE, answers |-> NoRow, signals |-> NoRow]
  ELSE [reg EXCEPT !.live = TRUE]
UpsertedFromZero(reg) == [live |-> TRUE, answers |-> 0, signals |-> 0]

\* upsertRegistration: a new row starts from zero, a refresh keeps the
\* counters and clears revoked_at.
Upserted(reg) ==
  IF reg = NoRow
  THEN [live |-> TRUE, answers |-> 0, signals |-> 0]
  ELSE [reg EXCEPT !.live = TRUE]

Register(u) ==
  /\ ~ \E s \in Tx : regWrite[s] # Untouched /\ req[s].human = u
  /\ registrations' = [registrations EXCEPT ![u] = Upserted(@)]
  /\ UNCHANGED <<open, envelopes, aggregates, lock, pc, req, writes>>

\* (faulty variant: the status of the question is not looked at)
SubmitOnAnyQuestion(t, u, q, a) ==
  /\ pc[t] = "idle"
  /\ Live(u)
  /\ req' = [req EXCEPT ![t] = [op |-> "submit", question |-> q,
                                human |-> u, answer |-> a]]
  /\ Goto(t, "insert")
  /\ UNCHANGED <<open, tables, lock, writes>>

\* The checks of the submit handler before its transaction.  The registration
\* is read before the question; a question closes once and for good, so one
\* that is open at the second read was open at the first.
Submit(t, u, q, a) ==
  /\ pc[t] = "idle"
  /\ Live(u)
  /\ open[q]
  /\ req' = [req EXCEPT ![t] = [op |-> "submit", question |-> q,
                                human |-> u, answer |-> a]]
  /\ Goto(t, "insert")
  /\ UNCHANGED <<open, tables, lock, writes>>

\* The checks of the revoke handler; a closed question may be revoked on.
Revoke(t, u, q) ==
  /\ pc[t] = "idle"
  /\ Live(u)
  /\ req' = [req EXCEPT ![t] = [op |-> "revoke", question |-> q,
                                human |-> u, answer |-> NoRow]]
  /\ Goto(t, "lockRevoke")
  /\ UNCHANGED <<open, tables, lock, writes>>

-----------------------------------------------------------------------------
(* The statements of a transaction.  q and u are the question and the      *)
(* human of the request of t.                                              *)

\* (faulty variant: ON CONFLICT DO UPDATE, a row lock before the question lock)
InsertThatLocksTheRow(t, q, u) ==
  /\ pc[t] = "insert"
  /\ ~RowBusy(t, q, u)
  /\ envWrite' = [envWrite EXCEPT ![t][q] = req[t].answer]
  /\ Goto(t, IF envelopes[q][u] = NoRow THEN "lockIncrement" ELSE "lockOverride")
  /\ UNCHANGED <<open, tables, lock, req, aggWrite, regWrite, snapshot>>

\* insertEnvelope: INSERT .. ON CONFLICT DO NOTHING, no lock taken yet.
InsertEnvelope(t, q, u) ==
  /\ pc[t] = "insert"
  /\ ~RowBusy(t, q, u)
  /\ IF envelopes[q][u] = NoRow
     THEN /\ envWrite' = [envWrite EXCEPT ![t][q] = req[t].answer]
          /\ Goto(t, "lockIncrement")
     ELSE /\ Goto(t, "lockOverride")
          /\ UNCHANGED envWrite
  /\ UNCHANGED <<open, tables, lock, req, aggWrite, regWrite, snapshot>>

LockThen == [lockIncrement |-> "readAggregate",
             lockOverride  |-> "override",
             lockRevoke    |-> "delete"]

\* (faulty variant: pg_try_advisory_xact_lock with its result ignored)
AcquireLockOrGoOn(t, q) ==
  /\ pc[t] \in {"lockIncrement", "lockOverride", "lockRevoke"}
  /\ lock' = IF lock[q] = NoTx THEN [lock EXCEPT ![q] = t] ELSE lock
  /\ Goto(t, LockThen[pc[t]])
  /\ UNCHANGED <<open, tables, req, writes>>

\* pg_advisory_xact_lock of the question; the holder may take it again.
AcquireLock(t, q) ==
  /\ pc[t] \in {"lockIncrement", "lockOverride", "lockRevoke"}
  /\ lock[q] \in {NoTx, t}
  /\ lock' = [lock EXCEPT ![q] = t]
  /\ Goto(t, LockThen[pc[t]])
  /\ UNCHANGED <<open, tables, req, writes>>

\* incrementAggregate, SELECT .. FOR UPDATE: an existing row is locked by
\* writing it as it is; there is nothing to lock when it does not exist.
ReadAggregate(t, q) ==
  /\ pc[t] = "readAggregate"
  /\ IF aggregates[q] = NoRow
     THEN UNCHANGED aggWrite
     ELSE /\ ~AggregateBusy(t, q)
          /\ aggWrite' = [aggWrite EXCEPT ![t][q] = aggregates[q]]
  /\ Goto(t, "writeAggregate")
  /\ UNCHANGED <<open, tables, lock, req, envWrite, regWrite, snapshot>>

\* incrementAggregate: UPDATE the row just locked ...
BumpAggregate(t, q) ==
  /\ pc[t] = "writeAggregate"
  /\ aggWrite[t][q] # Untouched
  /\ aggWrite' = [aggWrite EXCEPT ![t][q] = Bump(@, req[t].answer)]
  /\ Goto(t, "countInsert")
  /\ UNCHANGED <<open, tables, lock, req, envWrite, regWrite, snapshot>>

\* ... or INSERT the first one (a plain INSERT: if a row was committed
\* since the SELECT it fails, and the transaction can only Abort).
CreateAggregate(t, q) ==
  /\ pc[t] = "writeAggregate"
  /\ aggWrite[t][q] = Untouched
  /\ ~AggregateBusy(t, q)
  /\ aggregates[q] = NoRow
  /\ aggWrite' = [aggWrite EXCEPT ![t][q] = FirstAnswer(req[t].answer)]
  /\ Goto(t, "countInsert")
  /\ UNCHANGED <<open, tables, lock, req, envWrite, regWrite, snapshot>>

\* (faulty variant: the lock is given back when the row is not found)
OverrideThatUnlocks(t, q, u) ==
  /\ pc[t] = "override"
  /\ IF envelopes[q][u] = NoRow
     THEN /\ Goto(t, "retryInsert")
          /\ lock' = [lock EXCEPT ![q] = NoTx]
          /\ UNCHANGED envWrite
     ELSE /\ ~RowBusy(t, q, u)
          /\ envWrite' = [envWrite EXCEPT ![t][q] = req[t].answer]
          /\ Goto(t, "snapshot")
          /\ UNCHANGED lock
  /\ UNCHANGED <<open, tables, req, aggWrite, regWrite, snapshot>>

\* overrideEnvelope: SELECT .. FOR UPDATE and, if the row is there, UPDATE.
\* The row stays locked from the first to the second.
OverrideEnvelope(t, q, u) ==
  /\ pc[t] = "override"
  /\ IF envelopes[q][u] = NoRow
     THEN /\ Goto(t, "retryInsert")
          /\ UNCHANGED envWrite
     ELSE /\ ~RowBusy(t, q, u)
          /\ envWrite' = [envWrite EXCEPT ![t][q] = req[t].answer]
          /\ Goto(t, "snapshot")
  /\ UNCHANGED <<open, tables, lock, req, aggWrite, regWrite, snapshot>>

\* The second INSERT of a submit whose row vanished, under the lock.
RetryInsert(t, q, u) ==
  /\ pc[t] = "retryInsert"
  /\ ~RowBusy(t, q, u)
  /\ IF envelopes[q][u] = NoRow
     THEN /\ envWrite' = [envWrite EXCEPT ![t][q] = req[t].answer]
          /\ Goto(t, "lockIncrement")
     ELSE /\ Goto(t, "conflicted")
          /\ UNCHANGED envWrite
  /\ UNCHANGED <<open, tables, lock, req, aggWrite, regWrite, snapshot>>

\* deleteOneEnvelopeAndRecompute: DELETE .. RETURNING no_signal; no row, done.
DeleteEnvelope(t, q, u) ==
  /\ pc[t] = "delete"
  /\ IF envelopes[q][u] = NoRow
     THEN /\ Goto(t, "commit")
          /\ UNCHANGED envWrite
     ELSE /\ ~RowBusy(t, q, u)
          /\ envWrite' = [envWrite EXCEPT ![t][q] = NoRow]
          /\ Goto(t, "countRevoke")
  /\ UNCHANGED <<open, tables, lock, req, aggWrite, regWrite, snapshot>>

\* recomputeAggregate: SELECT the remaining envelopes of the question ...
SnapshotEnvelopes(t, q) ==
  /\ pc[t] = "snapshot"
  /\ snapshot' = [snapshot EXCEPT ![t] = TallyOf(VisibleRows(t, q))]
  /\ Goto(t, "rebuild")
  /\ UNCHANGED <<open, tables, lock, req, envWrite, aggWrite, regWrite>>

\* (faulty variant: the weight of the answer that is replaced is forgotten)
SignalDeltaOfNewAnswer(t, q, u) ==
  IF pc[t] = "countRevoke" THEN - SignalWeight(envelopes[q][u])
                           ELSE SignalWeight(req[t].answer)

\* How the signal counter moves: the new answer's weight, less the old one's.
SignalDelta(t, q, u) ==
  CASE pc[t] = "countInsert" -> SignalWeight(req[t].answer)
    [] pc[t] = "countRevoke" -> - SignalWeight(envelopes[q][u])
    [] OTHER -> SignalWeight(req[t].answer) - SignalWeight(envelopes[q][u])

\* ... and DELETE the aggregate row, or upsert it.
RebuildAggregate(t, q, u) ==
  /\ pc[t] = "rebuild"
  /\ IF snapshot[t] = NoRow /\ aggregates[q] = NoRow
     THEN UNCHANGED aggWrite
     ELSE /\ ~AggregateBusy(t, q)
          /\ aggWrite' = [aggWrite EXCEPT ![t][q] = snapshot[t]]
  /\ Goto(t, IF req[t].op = "submit" /\ SignalDelta(t, q, u) # 0
             THEN "countOverride" ELSE "commit")
  /\ UNCHANGED <<open, tables, lock, req, envWrite, regWrite, snapshot>>

AnswerDelta == [countInsert |-> 1, countOverride |-> 0, countRevoke |-> -1]
CountThen   == [countInsert |-> "commit", countOverride |-> "commit",
                countRevoke |-> "snapshot"]

\* adjustAnswerCounters: UPDATE the registration, if there is one.
AdjustAnswerCounters(t, q, u) ==
  /\ pc[t] \in {"countInsert", "countOverride", "countRevoke"}
  /\ IF registrations[u] = NoRow
     THEN UNCHANGED regWrite
     ELSE /\ ~RegistrationBusy(t, u)
          /\ regWrite' = [regWrite EXCEPT ![t] =
               [live    |-> registrations[u].live,
                answers |-> AtLeastZero(registrations[u].answers
                                          + AnswerDelta[pc[t]]),
                signals |-> AtLeastZero(registrations[u].signals
                                          + SignalDelta(t, q, u))]]
  /\ Goto(t, CountThen[pc[t]])
  /\ UNCHANGED <<open, tables, lock, req, envWrite, aggWrite, snapshot>>

\* COMMIT: the workspace becomes visible, then the locks are released.
Commit(t) ==
  /\ pc[t] \in {"commit", "conflicted"}
  /\ envelopes' = [q \in Question |-> VisibleRows(t, q)]
  /\ aggregates' = [q \in Question |-> VisibleAggregate(t, q)]
  /\ registrations' = [u \in Human |->
                         IF regWrite[t] # Untouched /\ req[t].human = u
                         THEN regWrite[t] ELSE registrations[u]]
  /\ Release(t)
  /\ UNCHANGED open

\* ROLLBACK at any point: a statement fails, the connection or the process
\* dies, or Postgres picks this transaction to break a deadlock.
Abort(t) ==
  /\ pc[t] # "idle"
  /\ Release(t)
  /\ UNCHANGED <<open, tables>>

-----------------------------------------------------------------------------
Statement(t, q, u) ==
  \/ InsertEnvelope(t, q, u)
  \/ AcquireLock(t, q)
  \/ ReadAggregate(t, q)
  \/ BumpAggregate(t, q)
  \/ CreateAggregate(t, q)
  \/ OverrideEnvelope(t, q, u)
  \/ RetryInsert(t, q, u)
  \/ DeleteEnvelope(t, q, u)
  \/ SnapshotEnvelopes(t, q)
  \/ RebuildAggregate(t, q, u)
  \/ AdjustAnswerCounters(t, q, u)

\* One step of the request of t.
Step(t) ==
  /\ pc[t] # "idle"
  /\ \/ Statement(t, req[t].question, req[t].human)
     \/ Commit(t)

Next ==
  \/ \E q \in Question : Close(q)
  \/ \E u \in Human : Register(u)
  \/ \E t \in Tx, u \in Human, q \in Question :
        \/ \E a \in Answer : Submit(t, u, q, a)
        \/ Revoke(t, u, q)
  \/ \E t \in Tx : Step(t) \/ Abort(t)

Spec == Init /\ [][Next]_vars

-----------------------------------------------------------------------------
(* Properties.                                                             *)

\* The published counts of a question are those of its stored answers, in
\* every committed state: "Steps 7-8 in a transaction so aggregates +
\* per-person counters can't drift from envelopes" (routes/envelopes.ts).
AggregatesExact ==
  \A q \in Question : aggregates[q] = TallyOf(envelopes[q])

\* The counters that unlock asking are the number of the human's answers,
\* and of those that carry an opinion: nothing drifts and GREATEST(.., 0) of
\* adjustAnswerCounters never hides a lost increment.
CountersExact ==
  \A u \in Human :
    registrations[u] # NoRow =>
      /\ registrations[u].answers = Cardinality(Answered(envelopes, u))
      /\ registrations[u].signals = Cardinality(Signalled(envelopes, u))

\* The slot serves a submit or a revoke.
Answering(t) == pc[t] \in Stage \ {"idle"} /\ req[t] \in Request

\* Why the counts are exact.  A transaction writes on its own question only ...
WritesOwnQuestion ==
  \A t \in Tx, q \in Question :
    pc[t] = "idle" \/ q # req[t].question =>
      envWrite[t][q] = Untouched /\ aggWrite[t][q] = Untouched

\* ... no two write the same row ...
OneWriterPerRow ==
  \A s, t \in Tx, q \in Question :
    s # t /\ envWrite[s][q] # Untouched /\ envWrite[t][q] # Untouched =>
      req[s].human # req[t].human

\* ... and each is, at every stage, where the comments of its handler say it
\* is: what it holds and has written (RowOnCourse), and what the counts it has
\* in hand are worth (TallyOnCourse).
Inserting == {"lockIncrement", "readAggregate", "writeAggregate", "countInsert"}
BeforeRow == {"insert", "lockOverride", "override", "retryInsert",
              "lockRevoke", "delete"}
Counted   == {"countInsert", "countOverride", "commit"}
Holding   == Stage \ {"idle", "insert", "lockIncrement", "lockOverride", "lockRevoke"}

RowOnCourse(t, q, u) ==
  /\ pc[t] # "conflicted"
  /\ pc[t] \in Holding => lock[q] = t
  /\ pc[t] \in BeforeRow => envWrite[t][q] = Untouched
  /\ pc[t] \in Inserting \cup (BeforeRow \ {"lockRevoke", "delete"}) =>
       req[t].op = "submit"
  /\ pc[t] \in Inserting =>
       envWrite[t][q] = req[t].answer /\ envelopes[q][u] = NoRow
  /\ req[t].op = "revoke" => envWrite[t][q] \in {Untouched, NoRow}
  /\ pc[t] = "retryInsert" => envelopes[q][u] = NoRow
  /\ pc[t] \notin Counted \cup {"writeAggregate"} => aggWrite[t][q] = Untouched
  /\ pc[t] = "writeAggregate" => aggWrite[t][q] # NoRow

TallyOnCourse(t, q) ==
  /\ pc[t] = "writeAggregate" =>
       aggWrite[t][q] = IF aggregates[q] = NoRow THEN Untouched ELSE aggregates[q]
  /\ pc[t] = "rebuild" => snapshot[t] = TallyOf(VisibleRows(t, q))
  /\ pc[t] \in Counted => VisibleAggregate(t, q) = TallyOf(VisibleRows(t, q))

OnCourse(t, q, u) == RowOnCourse(t, q, u) /\ TallyOnCourse(t, q)

RequestsOnCourse ==
  \A t \in Tx : pc[t] # "idle" => OnCourse(t, req[t].question, req[t].human)

TallyInvariant ==
  /\ TypeOK
  /\ AggregatesExact
  /\ WritesOwnQuestion
  /\ OneWriterPerRow
  /\ RequestsOnCourse

\* Why the counters are exact.  What the commit of t adds to the counters of
\* its human ...
AnswerWeight(row) == IF row = NoRow THEN 0 ELSE 1
AnswerShift(t, q, u) ==
  AnswerWeight(VisibleRows(t, q)[u]) - AnswerWeight(envelopes[q][u])
SignalShift(t, q, u) ==
  SignalWeight(VisibleRows(t, q)[u]) - SignalWeight(envelopes[q][u])

\* ... no two transactions are about to add to the counters of one human ...
OneCounterWriterPerHuman ==
  /\ \A s, t \in Tx :
       s # t /\ regWrite[s] # Untouched /\ regWrite[t] # Untouched =>
         req[s].human # req[t].human
  /\ \A t \in Tx : pc[t] = "idle" => regWrite[t] = Untouched

\* ... and each knows at every stage which row it replaces, with what, and
\* whether that is counted yet.
Replacing == {"snapshot", "rebuild", "countOverride", "countRevoke"}
AfterCount == {"snapshot", "rebuild", "commit"}

CountedOnCourse(t, q, u) ==
  /\ registrations[u] # NoRow
  /\ envWrite[t][q] = NoRow => envelopes[q][u] # NoRow
  /\ pc[t] \in {"lockRevoke", "delete", "countRevoke"} => req[t].op = "revoke"
  /\ pc[t] = "countOverride" => req[t].op = "submit"
  /\ pc[t] \in Replacing => envWrite[t][q] = req[t].answer /\ envelopes[q][u] # NoRow
  /\ pc[t] \in {"snapshot", "rebuild"} =>
       (regWrite[t] = Untouched <=> req[t].op = "submit")
  /\ pc[t] \notin AfterCount => regWrite[t] = Untouched
  /\ pc[t] = "commit" /\ regWrite[t] = Untouched =>
       AnswerShift(t, q, u) = 0 /\ SignalShift(t, q, u) = 0
  /\ regWrite[t] # Untouched =>
       /\ regWrite[t] # NoRow
       /\ regWrite[t].answers = registrations[u].answers + AnswerShift(t, q, u)
       /\ regWrite[t].signals = registrations[u].signals + SignalShift(t, q, u)

CountsOnCourse ==
  \A t \in Tx : pc[t] # "idle" => CountedOnCourse(t, req[t].question, req[t].human)

\* Registrations are never deleted here, and nobody answers without one.
RowsOfRegistered ==
  \A q \in Question, u \in Human :
    registrations[u] = NoRow => envelopes[q][u] = NoRow

CounterInvariant ==
  /\ CountersExact
  /\ RowsOfRegistered
  /\ OneCounterWriterPerHuman
  /\ CountsOnCourse

StoreInvariant == TallyInvariant /\ CounterInvariant

\* The retried INSERT never finds a committed row, so the DUPLICATE answer of
\* the submit handler is never given.
DuplicateNeverReturned == \A t \in Tx : pc[t] # "conflicted"

\* A question is settled once it is closed and the answers admitted before
\* have been dealt with.
Settled(q) ==
  /\ ~open[q]
  /\ \A t \in Tx : pc[t] # "idle" /\ req[t].op = "submit" => req[t].question # q

\* A settled question stays settled and its stored answers only shrink: what
\* the asker then sees can lose answers to revocations but gains none and
\* changes none.
SettledOnlyShrinks ==
  [][\A q \in Question :
       Settled(q) => /\ Settled(q)'
                     /\ \A u \in Human :
                          envelopes'[q][u] \in {envelopes[q][u], NoRow}]_vars

\* The requests of the store, each made of many statements, are together the
\* ballot box: every answer is cast or withdrawn at one instant, and the
\* published counts and the counters of that instant are the exact ones.
Box == INSTANCE BallotBox WITH
         ballots <- envelopes,
         tally   <- aggregates,
         credit  <- [u \in Human |->
                       IF registrations[u] = NoRow THEN NoRow
                       ELSE [answers |-> registrations[u].answers,
                             signals |-> registrations[u].signals]]
ImplementsBallotBox == Box!Spec
=============================================================================
