------------------------- MODULE AnswerStore_proofs -------------------------
(***************************************************************************)
(* Proofs about the answer store, for every number of questions, humans,   *)
(* answers and concurrent requests.                                        *)
(*                                                                         *)
(* The argument.  AggregatesExact is not inductive: a commit publishes     *)
(* counts that were computed several statements earlier.  TallyInvariant   *)
(* says what those counts were worth all along.  A transaction that has    *)
(* come past its lock statement holds the lock of its question, so nobody  *)
(* else commits rows or counts of that question under it; before that, the *)
(* row it has inserted is its own.  Hence the counts in its workspace are  *)
(* those of the rows its commit leaves.                                    *)
(*                                                                         *)
(* CountersExact is not inductive either, and no advisory lock protects    *)
(* it: one human may have requests on many questions at once.              *)
(* CounterInvariant says that the row of the registration is the lock.  A  *)
(* request that has written the counters has written the committed ones    *)
(* plus what its own row adds, nobody else writes or refreshes them until  *)
(* it ends, and a request that commits without writing them has replaced   *)
(* an answer by one that weighs the same.                                  *)
(*                                                                         *)
(* Together they give the refinement: every commit is one cast or          *)
(* withdrawal of the ballot box, and no other step moves the box.          *)
(***************************************************************************)
EXTENDS AnswerStore, FiniteSetTheorems, TLAPS

-----------------------------------------------------------------------------
(* Counting: the type of the published counts, that incrementAggregate     *)
(* arrives by one merge where recomputeAggregate arrives by reading the    *)
(* whole table, and how one row moves a person's counters.                 *)

Rows == [Human -> Answer \cup {NoRow}]

\* The rows of a question form a finite set, and so do those with one content.
LEMMA VotersFinite ==
  ASSUME NEW rows
  PROVE  /\ IsFiniteSet(Voters(rows))
         /\ Cardinality(Voters(rows)) \in Nat
         /\ \A a : /\ IsFiniteSet(VotersFor(rows, a))
                   /\ Cardinality(VotersFor(rows, a)) \in Nat
<1>1. /\ Voters(rows) \in SUBSET Human
      /\ \A a : VotersFor(rows, a) \in SUBSET Human
  BY DEF Voters, VotersFor
<1>2. IsFiniteSet(Human)
  BY TallyAssumption
<1>3. ASSUME NEW S \in SUBSET Human
      PROVE  IsFiniteSet(S) /\ Cardinality(S) \in Nat
  BY <1>2, FS_Subset, FS_CardinalityType
<1> QED
  BY <1>1, <1>3

\* What the rebuild publishes is an aggregate row or none.
LEMMA TallyType ==
  ASSUME NEW rows
  PROVE  TallyOf(rows) \in Aggregate \cup {NoRow}
BY VotersFinite DEF TallyOf, Aggregate

\* There is an aggregate row exactly when the question has an answer.
LEMMA TallyOfNoRow ==
  ASSUME NEW rows
  PROVE  TallyOf(rows) = NoRow <=> Voters(rows) = {}
<1>1. CASE Voters(rows) # {}
  <2>1. TallyOf(rows) \in Aggregate
    BY <1>1, VotersFinite DEF TallyOf, Aggregate
  <2> QED
    BY <1>1, <2>1, TallyAssumption
<1>2. CASE Voters(rows) = {}
  BY <1>2 DEF TallyOf
<1> QED
  BY <1>1, <1>2

\* incrementAggregate on an existing row, for a human without one of the rows,
\* publishes what a rebuild would.
LEMMA BumpIsTally ==
  ASSUME NEW rows \in Rows, NEW u \in Human, rows[u] = NoRow, NEW a \in Answer,
         TallyOf(rows) # NoRow
  PROVE  Bump(TallyOf(rows), a) = TallyOf([rows EXCEPT ![u] = a])
<1> SUFFICES ASSUME NEW more \in Rows, more = [rows EXCEPT ![u] = a]
             PROVE  Bump(TallyOf(rows), a) = TallyOf(more)
  BY DEF Rows
<1>1. /\ Voters(more) = Voters(rows) \cup {u} /\ u \notin Voters(rows)
      /\ VotersFor(more, a) = VotersFor(rows, a) \cup {u}
      /\ u \notin VotersFor(rows, a)
      /\ \A b \in Answer : b # a => VotersFor(more, b) = VotersFor(rows, b)
  BY TallyAssumption DEF Voters, VotersFor, Rows
<1>2. Cardinality(Voters(more)) = Cardinality(Voters(rows)) + 1
  BY <1>1, VotersFinite, FS_AddElement
<1>3. Cardinality(VotersFor(more, a)) = Cardinality(VotersFor(rows, a)) + 1
  BY <1>1, VotersFinite, FS_AddElement
<1>4. \A b \in Answer :
        Cardinality(VotersFor(more, b)) =
          IF b = a THEN Cardinality(VotersFor(rows, a)) + 1
                   ELSE Cardinality(VotersFor(rows, b))
  BY <1>1, <1>3
<1>5. Voters(rows) # {} /\ Voters(more) # {}
  BY <1>1, TallyOfNoRow
<1>6. TallyOf(more) = [total |-> Cardinality(Voters(rows)) + 1,
                       by    |-> [b \in Answer |->
                                   IF b = a THEN Cardinality(VotersFor(rows, a)) + 1
                                   ELSE Cardinality(VotersFor(rows, b))]]
  BY <1>2, <1>4, <1>5 DEF TallyOf
<1>7. TallyOf(rows) = [total |-> Cardinality(Voters(rows)),
                       by    |-> [b \in Answer |-> Cardinality(VotersFor(rows, b))]]
  BY <1>5 DEF TallyOf
<1>8. [[b \in Answer |-> Cardinality(VotersFor(rows, b))] EXCEPT ![a] = @ + 1]
        = [b \in Answer |-> IF b = a THEN Cardinality(VotersFor(rows, a)) + 1
                            ELSE Cardinality(VotersFor(rows, b))]
  OBVIOUS
<1> QED
  BY <1>6, <1>7, <1>8 DEF Bump

\* incrementAggregate on a question without answers publishes what a rebuild
\* would.
LEMMA FirstAnswerIsTally ==
  ASSUME NEW rows \in Rows, NEW u \in Human, rows[u] = NoRow, NEW a \in Answer,
         TallyOf(rows) = NoRow
  PROVE  FirstAnswer(a) = TallyOf([rows EXCEPT ![u] = a])
<1> SUFFICES ASSUME NEW more \in Rows, more = [rows EXCEPT ![u] = a]
             PROVE  FirstAnswer(a) = TallyOf(more)
  BY DEF Rows
<1>1. /\ Voters(more) = Voters(rows) \cup {u}
      /\ VotersFor(more, a) = VotersFor(rows, a) \cup {u}
      /\ \A b \in Answer : b # a => VotersFor(more, b) = VotersFor(rows, b)
  BY TallyAssumption DEF Voters, VotersFor, Rows
<1>2. Voters(rows) = {} /\ \A b \in Answer : VotersFor(rows, b) = {}
  <2>1. Voters(rows) = {}
    BY TallyOfNoRow
  <2> QED
    BY <2>1, TallyAssumption DEF Voters, VotersFor
<1>3. Voters(more) = {u} /\ VotersFor(more, a) = {u}
      /\ \A b \in Answer : b # a => VotersFor(more, b) = {}
  BY <1>1, <1>2
<1>4. Cardinality(Voters(more)) = 1 /\ Voters(more) # {}
  BY <1>3, FS_Singleton
<1>5. \A b \in Answer :
        Cardinality(VotersFor(more, b)) = IF b = a THEN 1 ELSE 0
  BY <1>3, FS_Singleton, FS_EmptySet
<1> QED
  BY <1>4, <1>5 DEF TallyOf, FirstAnswer

\* Two sets of questions that agree but for one differ by that one.
LEMMA ElementCounts ==
  ASSUME NEW S \in SUBSET Question, NEW T \in SUBSET Question, NEW q \in Question,
         \A p \in Question \ {q} : p \in S <=> p \in T
  PROVE  /\ Cardinality(S) \in Nat /\ Cardinality(T) \in Nat
         /\ Cardinality(T) = Cardinality(S) + (IF q \in T THEN 1 ELSE 0)
                                            - (IF q \in S THEN 1 ELSE 0)
<1>1. /\ IsFiniteSet(S) /\ IsFiniteSet(T)
      /\ Cardinality(S) \in Nat /\ Cardinality(T) \in Nat
  BY TallyAssumption, FS_Subset, FS_CardinalityType
<1>2. CASE q \in S <=> q \in T
  <2>1. S = T
    BY <1>2
  <2> QED
    BY <1>1, <1>2, <2>1
<1>3. CASE q \in T /\ q \notin S
  <2>1. T = S \cup {q}
    BY <1>3
  <2> QED
    BY <1>1, <1>3, <2>1, FS_AddElement
<1>4. CASE q \in S /\ q \notin T
  <2>1. S = T \cup {q}
    BY <1>4
  <2>2. Cardinality(S) = Cardinality(T) + 1
    BY <1>1, <1>4, <2>1, FS_AddElement
  <2> QED
    BY <1>1, <1>4, <2>2
<1> QED
  BY <1>2, <1>3, <1>4

-----------------------------------------------------------------------------
(* Rows and workspaces.                                                    *)

\* The marks for "no row" and "not written" are no values of a row.
LEMMA Marks ==
  /\ Untouched # NoRow
  /\ \A a \in Answer : a # NoRow /\ a # Untouched
  /\ \A g \in Aggregate : g # NoRow /\ g # Untouched
  /\ \A r \in Registration : r # NoRow /\ r # Untouched
BY TallyAssumption, StoreAssumption

\* The types of the tables, the locks and the workspaces, whatever else than
\* answering the slots may be doing.
Typed ==
  /\ open \in [Question -> BOOLEAN]
  /\ envelopes \in [Question -> [Human -> Answer \cup {NoRow}]]
  /\ aggregates \in [Question -> Aggregate \cup {NoRow}]
  /\ registrations \in [Human -> Registration \cup {NoRow}]
  /\ lock \in [Question -> Tx \cup {NoTx}]
  /\ pc = [t \in Tx |-> pc[t]]
  /\ req = [t \in Tx |-> req[t]]
  /\ envWrite \in [Tx -> [Question -> Answer \cup {NoRow, Untouched}]]
  /\ aggWrite \in [Tx -> [Question -> Aggregate \cup {NoRow, Untouched}]]
  /\ regWrite \in [Tx -> Registration \cup {NoRow, Untouched}]
  /\ snapshot \in [Tx -> Aggregate \cup {NoRow, Untouched}]

\* TypeOK says more: what each slot is doing.
LEMMA TypedParts == TypeOK => Typed
BY DEF TypeOK, Typed

\* The rows a transaction sees are rows, and its own write is among them.
LEMMA VisibleRowsType ==
  ASSUME Typed, NEW t \in Tx, NEW q \in Question
  PROVE  VisibleRows(t, q) \in Rows
BY DEF VisibleRows, Rows, Typed

\* A counter that moves stays a natural number.
LEMMA CounterType ==
  ASSUME NEW n \in Int
  PROVE  AtLeastZero(n) \in Nat
BY DEF AtLeastZero

\* A statement that writes at most the row, or the aggregate, of its question
\* keeps the type of the workspace.
WritesRow(t, q) ==
  \/ envWrite' = envWrite
  \/ \E x \in Answer \cup {NoRow} : envWrite' = [envWrite EXCEPT ![t][q] = x]

WritesAggregate(t, q) ==
  \/ aggWrite' = aggWrite
  \/ \E x \in Aggregate \cup {NoRow, Untouched} :
       aggWrite' = [aggWrite EXCEPT ![t][q] = x]

\* Writing one row of each table in one workspace keeps the workspaces typed.
LEMMA WriteType ==
  ASSUME Typed, NEW t \in Tx, NEW q \in Question
  PROVE  /\ WritesRow(t, q) =>
              envWrite' \in [Tx -> [Question -> Answer \cup {NoRow, Untouched}]]
         /\ WritesAggregate(t, q) =>
              aggWrite' \in [Tx -> [Question -> Aggregate \cup {NoRow, Untouched}]]
<1>1. WritesRow(t, q) =>
        envWrite' \in [Tx -> [Question -> Answer \cup {NoRow, Untouched}]]
  <2> SUFFICES ASSUME NEW x \in Answer \cup {NoRow},
                      envWrite' = [envWrite EXCEPT ![t][q] = x]
               PROVE  envWrite' \in [Tx -> [Question -> Answer \cup {NoRow, Untouched}]]
    BY DEF WritesRow, Typed
  <2>1. [envWrite[t] EXCEPT ![q] = x] \in [Question -> Answer \cup {NoRow, Untouched}]
    BY DEF Typed
  <2> QED
    BY <2>1 DEF Typed
<1>2. WritesAggregate(t, q) =>
        aggWrite' \in [Tx -> [Question -> Aggregate \cup {NoRow, Untouched}]]
  <2> SUFFICES ASSUME NEW x \in Aggregate \cup {NoRow, Untouched},
                      aggWrite' = [aggWrite EXCEPT ![t][q] = x]
               PROVE  aggWrite' \in [Tx -> [Question -> Aggregate \cup {NoRow, Untouched}]]
    BY DEF WritesAggregate, Typed
  <2>1. [aggWrite[t] EXCEPT ![q] = x] \in [Question -> Aggregate \cup {NoRow, Untouched}]
    BY DEF Typed
  <2> QED
    BY <2>1 DEF Typed
<1> QED
  BY <1>1, <1>2

-----------------------------------------------------------------------------
(* The initial states.                                                     *)

\* The empty store satisfies the invariant.
LEMMA TallyInit == Init => TallyInvariant
<1> SUFFICES ASSUME Init
             PROVE  TallyInvariant
  OBVIOUS
<1>1. TypeOK
  BY DEF Init, TypeOK, Stage
<1>2. AggregatesExact
  <2>1. \A q \in Question : Voters(envelopes[q]) = {}
    BY DEF Init, Voters
  <2> QED
    BY <2>1 DEF Init, AggregatesExact, TallyOf
<1>3. WritesOwnQuestion /\ OneWriterPerRow /\ RequestsOnCourse
  BY DEF Init, WritesOwnQuestion, OneWriterPerRow, RequestsOnCourse
<1> QED
  BY <1>1, <1>2, <1>3 DEF TallyInvariant

-----------------------------------------------------------------------------
(* Type correctness of a step.                                             *)

\* A transaction that ends leaves a well-typed state behind.
LEMMA ReleaseTyped ==
  ASSUME Typed, NEW t \in Tx, Release(t),
         open' \in [Question -> BOOLEAN],
         envelopes' \in [Question -> [Human -> Answer \cup {NoRow}]],
         aggregates' \in [Question -> Aggregate \cup {NoRow}],
         registrations' \in [Human -> Registration \cup {NoRow}]
  PROVE  Typed'
<1> USE DEF Release, Goto, Typed
<1>1. lock' \in [Question -> Tx \cup {NoTx}]
  OBVIOUS
<1>2. pc' = [s \in Tx |-> pc'[s]] /\ req' = [s \in Tx |-> req'[s]]
  OBVIOUS
<1>4. /\ envWrite' \in [Tx -> [Question -> Answer \cup {NoRow, Untouched}]]
      /\ aggWrite' \in [Tx -> [Question -> Aggregate \cup {NoRow, Untouched}]]
  OBVIOUS
<1>5. /\ regWrite' \in [Tx -> Registration \cup {NoRow, Untouched}]
      /\ snapshot' \in [Tx -> Aggregate \cup {NoRow, Untouched}]
  OBVIOUS
<1> QED
  BY <1>1, <1>2, <1>4, <1>5

\* The slot it leaves is idle, and the others are as they were.
LEMMA ReleaseType ==
  ASSUME TypeOK, NEW t \in Tx, Release(t),
         open' \in [Question -> BOOLEAN],
         envelopes' \in [Question -> [Human -> Answer \cup {NoRow}]],
         aggregates' \in [Question -> Aggregate \cup {NoRow}],
         registrations' \in [Human -> Registration \cup {NoRow}]
  PROVE  TypeOK'
<1>1. Typed'
  BY TypedParts, ReleaseTyped
<1>2. \A s \in Tx : /\ pc'[s] \in Stage
                    /\ req'[s] \in Request \cup {NoRequest}
                    /\ pc'[s] # "idle" => req'[s] \in Request
  BY DEF Release, Goto, TypeOK, Stage
<1>3. pc' \in [Tx -> Stage] /\ req' \in [Tx -> Request \cup {NoRequest}]
  BY <1>1, <1>2 DEF Typed
<1> QED
  BY <1>1, <1>2, <1>3 DEF Typed, TypeOK

\* A statement of an open transaction keeps the types.
LEMMA StatementTyped ==
  ASSUME Typed, NEW t \in Tx, Answering(t),
         NEW q \in Question, NEW u \in Human, RowOnCourse(t, q, u), Statement(t, q, u)
  PROVE  Typed' /\ Answering(t)'
<1>0. req[t] \in Request /\ req[t].answer \in Answer \cup {NoRow}
  BY DEF Answering, Request
<1>a. /\ Answering(t)'
      /\ pc' = [s \in Tx |-> pc'[s]]
  <2>1. /\ req' = req /\ pc'[t] \in Stage \ {"idle"}
        /\ pc' = [s \in Tx |-> pc'[s]]
    BY DEF Statement, InsertEnvelope, AcquireLock, ReadAggregate, BumpAggregate,
           CreateAggregate, OverrideEnvelope, RetryInsert, DeleteEnvelope,
           SnapshotEnvelopes, RebuildAggregate, AdjustAnswerCounters, LockThen,
           CountThen, Goto, Typed, Stage
  <2> QED
    BY <2>1, <1>0 DEF Answering
<1>1. CASE InsertEnvelope(t, q, u)
  <2>1. WritesRow(t, q)
    BY <1>0, <1>1 DEF InsertEnvelope, WritesRow
  <2> QED
    BY <1>1, <1>a, <2>1, WriteType DEF InsertEnvelope, Typed, tables
<1>2. CASE AcquireLock(t, q)
  BY <1>a, <1>2 DEF AcquireLock, LockThen, Goto, Typed, tables, writes
<1>3. CASE ReadAggregate(t, q)
  <2>1. WritesAggregate(t, q)
    BY <1>3 DEF ReadAggregate, WritesAggregate, Typed
  <2> QED
    BY <1>3, <1>a, <2>1, WriteType DEF ReadAggregate, Typed, tables
<1>4. CASE BumpAggregate(t, q)
  <2>0. req[t].answer \in Answer
    <3>1. req[t].op = "submit"
      BY <1>4 DEF BumpAggregate, RowOnCourse, Inserting
    <3> QED
      BY <1>0, <3>1 DEF Request
  <2>1. aggWrite[t][q] \in Aggregate
    <3>1. aggWrite[t][q] # Untouched /\ aggWrite[t][q] # NoRow
      BY <1>4 DEF BumpAggregate, RowOnCourse
    <3> QED
      BY <3>1 DEF Typed
  <2>2. Bump(aggWrite[t][q], req[t].answer) \in Aggregate
    <3>1. /\ aggWrite[t][q].total + 1 \in Nat
          /\ aggWrite[t][q].by \in [Answer -> Nat]
      BY <2>1 DEF Aggregate
    <3>2. ASSUME NEW f \in [Answer -> Nat], NEW a \in Answer
          PROVE  [f EXCEPT ![a] = @ + 1] \in [Answer -> Nat]
      OBVIOUS
    <3>3. [aggWrite[t][q].by EXCEPT ![req[t].answer] = @ + 1] \in [Answer -> Nat]
      BY <2>0, <3>1, <3>2
    <3> QED
      BY <3>1, <3>3 DEF Bump, Aggregate
  <2> QED
    BY <1>a, <1>4, <2>2 DEF BumpAggregate, Goto, Typed, tables
<1>5. CASE CreateAggregate(t, q)
  <2>1. FirstAnswer(req[t].answer) \in Aggregate
    BY DEF FirstAnswer, Aggregate
  <2> QED
    BY <1>a, <1>5, <2>1 DEF CreateAggregate, Goto, Typed, tables
<1>6. CASE OverrideEnvelope(t, q, u)
  <2>1. WritesRow(t, q)
    BY <1>0, <1>6 DEF OverrideEnvelope, WritesRow
  <2> QED
    BY <1>6, <1>a, <2>1, WriteType DEF OverrideEnvelope, Typed, tables
<1>7. CASE RetryInsert(t, q, u)
  <2>1. WritesRow(t, q)
    BY <1>0, <1>7 DEF RetryInsert, WritesRow
  <2> QED
    BY <1>7, <1>a, <2>1, WriteType DEF RetryInsert, Typed, tables
<1>8. CASE DeleteEnvelope(t, q, u)
  <2>1. WritesRow(t, q)
    BY <1>0, <1>8 DEF DeleteEnvelope, WritesRow
  <2> QED
    BY <1>8, <1>a, <2>1, WriteType DEF DeleteEnvelope, Typed, tables
<1>9. CASE SnapshotEnvelopes(t, q)
  BY <1>a, <1>9, TallyType DEF SnapshotEnvelopes, Goto, Typed, tables
<1>10. CASE RebuildAggregate(t, q, u)
  <2>1. WritesAggregate(t, q)
    BY <1>10 DEF RebuildAggregate, WritesAggregate, Typed
  <2> QED
    BY <1>10, <1>a, <2>1, WriteType DEF RebuildAggregate, Typed, tables
<1>11. CASE AdjustAnswerCounters(t, q, u)
  <2>1. AnswerDelta[pc[t]] \in Int /\ CountThen[pc[t]] \in Stage
    BY <1>11 DEF AdjustAnswerCounters, AnswerDelta, CountThen, Stage
  <2>2. SignalDelta(t, q, u) \in Int
    BY DEF SignalDelta, SignalWeight
  <2>3. regWrite' \in [Tx -> Registration \cup {NoRow, Untouched}]
    <3>1. CASE registrations[u] = NoRow
      BY <1>11, <3>1 DEF AdjustAnswerCounters, Typed
    <3>2. CASE registrations[u] # NoRow
      <4>1. registrations[u] \in Registration
        BY <3>2 DEF Typed
      <4>2. /\ AtLeastZero(registrations[u].answers + AnswerDelta[pc[t]]) \in Nat
            /\ AtLeastZero(registrations[u].signals + SignalDelta(t, q, u)) \in Nat
        BY <2>1, <2>2, <4>1, CounterType DEF Registration
      <4>3. registrations[u].live \in BOOLEAN
        BY <4>1 DEF Registration
      <4> DEFINE new == [live    |-> registrations[u].live,
                         answers |-> AtLeastZero(registrations[u].answers
                                                   + AnswerDelta[pc[t]]),
                         signals |-> AtLeastZero(registrations[u].signals
                                                   + SignalDelta(t, q, u))]
      <4>4. new \in Registration
        BY <4>2, <4>3 DEF Registration
      <4>5. regWrite' = [regWrite EXCEPT ![t] = new]
        BY <1>11, <3>2 DEF AdjustAnswerCounters
      <4> HIDE DEF new
      <4> QED
        BY <4>4, <4>5 DEF Typed
    <3> QED
      BY <3>1, <3>2
  <2> QED
    BY <1>a, <1>11, <2>1, <2>3 DEF AdjustAnswerCounters, Goto, Typed, tables
<1> QED
  BY <1>a, <1>1, <1>2, <1>3, <1>4, <1>5, <1>6, <1>7, <1>8, <1>9, <1>10, <1>11
     DEF Statement

-----------------------------------------------------------------------------
(* What a statement leaves alone.                                          *)

\* A statement of t changes the place, the workspace and the locks of t, no
\* table, and nothing of another request.
OnlyOf(t) ==
  /\ UNCHANGED <<open, envelopes, aggregates, registrations, req>>
  /\ \A s \in Tx \ {t} : /\ pc'[s] = pc[s]
                         /\ envWrite'[s] = envWrite[s]
                         /\ aggWrite'[s] = aggWrite[s]
                         /\ snapshot'[s] = snapshot[s]
  /\ \A p \in Question : lock[p] \in Tx \ {t} => lock'[p] = lock[p]
  /\ \A p \in Question \ {req[t].question} : /\ envWrite'[t][p] = envWrite[t][p]
                                             /\ aggWrite'[t][p] = aggWrite[t][p]

\* A statement writes in its own workspace only, on its own question, moves no
\* other request, and takes no lock but a free one or its own.
LEMMA StatementFrame ==
  ASSUME Typed, NEW t \in Tx, NEW q \in Question, NEW u \in Human,
         q = req[t].question, Statement(t, q, u)
  PROVE  OnlyOf(t)
<1> USE DEF OnlyOf, Goto, Typed, tables, writes
<1>1. CASE InsertEnvelope(t, q, u)
  BY <1>1 DEF InsertEnvelope
<1>2. CASE AcquireLock(t, q)
  BY <1>2, StoreAssumption DEF AcquireLock
<1>3. CASE ReadAggregate(t, q)
  BY <1>3 DEF ReadAggregate
<1>4. CASE BumpAggregate(t, q)
  BY <1>4 DEF BumpAggregate
<1>5. CASE CreateAggregate(t, q)
  BY <1>5 DEF CreateAggregate
<1>6. CASE OverrideEnvelope(t, q, u)
  BY <1>6 DEF OverrideEnvelope
<1>7. CASE RetryInsert(t, q, u)
  BY <1>7 DEF RetryInsert
<1>8. CASE DeleteEnvelope(t, q, u)
  BY <1>8 DEF DeleteEnvelope
<1>9. CASE SnapshotEnvelopes(t, q)
  BY <1>9 DEF SnapshotEnvelopes
<1>10. CASE RebuildAggregate(t, q, u)
  BY <1>10 DEF RebuildAggregate
<1>11. CASE AdjustAnswerCounters(t, q, u)
  BY <1>11 DEF AdjustAnswerCounters
<1> QED
  BY <1>1, <1>2, <1>3, <1>4, <1>5, <1>6, <1>7, <1>8, <1>9, <1>10, <1>11
     DEF Statement

\* A request stays on course with its row when its own state is unchanged, its
\* row did not appear, and it has kept the lock of its question.
LEMMA UndisturbedRow ==
  ASSUME NEW s \in Tx, NEW q \in Question, NEW u \in Human, RowOnCourse(s, q, u),
         pc'[s] = pc[s], req'[s] = req[s],
         envWrite'[s] = envWrite[s], aggWrite'[s] = aggWrite[s],
         pc[s] \in Inserting \cup {"retryInsert"} /\ envelopes[q][u] = NoRow =>
           envelopes'[q][u] = NoRow,
         pc[s] \in Holding => lock'[q] = lock[q]
  PROVE  RowOnCourse(s, q, u)'
BY DEF RowOnCourse

\* The counts it has in hand keep their worth when, as long as it holds the lock
\* of its question, the rows and the counts of that question stay.
LEMMA UndisturbedTally ==
  ASSUME NEW s \in Tx, NEW q \in Question, TallyOnCourse(s, q),
         pc'[s] = pc[s], req'[s] = req[s], snapshot'[s] = snapshot[s],
         envWrite'[s] = envWrite[s], aggWrite'[s] = aggWrite[s],
         pc[s] \in Holding => /\ envelopes'[q] = envelopes[q]
                              /\ aggregates'[q] = aggregates[q]
  PROVE  TallyOnCourse(s, q)'
<1>1. pc[s] \in Holding => /\ VisibleRows(s, q)' = VisibleRows(s, q)
                           /\ VisibleAggregate(s, q)' = VisibleAggregate(s, q)
  BY DEF VisibleRows, VisibleAggregate
<1>2. pc[s] \in Counted \cup {"rebuild", "writeAggregate"} => pc[s] \in Holding
  BY DEF Counted, Holding, Stage
<1>5. pc[s] = "rebuild" => snapshot'[s] = TallyOf(VisibleRows(s, q)')
  BY <1>1, <1>2 DEF TallyOnCourse
<1>6. pc[s] \in Counted => VisibleAggregate(s, q)' = TallyOf(VisibleRows(s, q)')
  BY <1>1, <1>2 DEF TallyOnCourse
<1> QED
  BY <1>2, <1>5, <1>6 DEF TallyOnCourse

\* Both together.
LEMMA UndisturbedOnCourse ==
  ASSUME NEW s \in Tx, NEW q \in Question, NEW u \in Human,
         OnCourse(s, q, u),
         pc'[s] = pc[s], req'[s] = req[s], snapshot'[s] = snapshot[s],
         envWrite'[s] = envWrite[s], aggWrite'[s] = aggWrite[s],
         pc[s] = "lockIncrement" => envelopes'[q][u] = envelopes[q][u],
         pc[s] \in Holding => /\ lock'[q] = lock[q]
                              /\ envelopes'[q] = envelopes[q]
                              /\ aggregates'[q] = aggregates[q]
  PROVE  OnCourse(s, q, u)'
<1>1. pc[s] \in Inserting \cup {"retryInsert"} => pc[s] = "lockIncrement" \/ pc[s] \in Holding
  BY DEF Inserting, Holding, Stage
<1> QED
  BY <1>1, UndisturbedRow, UndisturbedTally DEF OnCourse

-----------------------------------------------------------------------------
(* A statement keeps its own request on course.                            *)

\* When the row of a submit is written for the first time, what its
\* transaction sees is the committed rows and the new one.
LEMMA RowsWithInsert ==
  ASSUME Typed, NEW t \in Tx, NEW q \in Question, NEW u \in Human,
         u = req[t].human, envWrite[t][q] # Untouched
  PROVE  VisibleRows(t, q) = [envelopes[q] EXCEPT ![u] = envWrite[t][q]]
BY DEF VisibleRows, Typed

\* Without a write of its own it sees the committed rows.
LEMMA RowsWithoutWrite ==
  ASSUME Typed, NEW t \in Tx, NEW q \in Question, envWrite[t][q] = Untouched
  PROVE  VisibleRows(t, q) = envelopes[q]
BY DEF VisibleRows, Typed

\* A statement leaves its own request on course with its row: each stage
\* establishes what the next one relies on.
LEMMA OwnRow ==
  ASSUME Typed, NEW t \in Tx, Answering(t),
         NEW q \in Question, NEW u \in Human, RowOnCourse(t, q, u), Statement(t, q, u)
  PROVE  RowOnCourse(t, q, u)'
<1>0. req[t] \in Request
  BY DEF Answering
<1>s. req[t].op = "submit" => req[t].answer \in Answer
  BY <1>0 DEF Request
<1> USE <1>0 DEF Goto, tables, writes
<1>1. CASE InsertEnvelope(t, q, u)
  BY <1>1 DEF InsertEnvelope, RowOnCourse, Typed, Inserting, BeforeRow, Counted, Holding, Stage
<1>2. CASE AcquireLock(t, q)
  BY <1>2 DEF AcquireLock, LockThen, RowOnCourse, Typed, Inserting, BeforeRow, Counted, Holding, Stage
<1>3. CASE ReadAggregate(t, q)
  BY <1>3, Marks DEF ReadAggregate, RowOnCourse, Typed, Inserting, BeforeRow, Counted, Holding, Stage
<1>4. CASE BumpAggregate(t, q)
  <2>1. pc[t] = "writeAggregate" /\ pc'[t] = "countInsert"
    BY <1>4 DEF BumpAggregate, Typed
  <2> QED
    BY <1>4, <2>1 DEF BumpAggregate, RowOnCourse, Inserting, BeforeRow, Counted, Holding, Stage
<1>5. CASE CreateAggregate(t, q)
  BY <1>5 DEF CreateAggregate, RowOnCourse, Typed, Inserting, BeforeRow, Counted, Holding, Stage
<1>6. CASE OverrideEnvelope(t, q, u)
  BY <1>6 DEF OverrideEnvelope, RowOnCourse, Typed, Inserting, BeforeRow, Counted, Holding, Stage
<1>7. CASE RetryInsert(t, q, u)
  BY <1>7 DEF RetryInsert, RowOnCourse, Typed, Inserting, BeforeRow, Counted, Holding, Stage
<1>8. CASE DeleteEnvelope(t, q, u)
  BY <1>8 DEF DeleteEnvelope, RowOnCourse, Typed, Inserting, BeforeRow, Counted, Holding, Stage
<1>9. CASE SnapshotEnvelopes(t, q)
  BY <1>9 DEF SnapshotEnvelopes, RowOnCourse, Typed, Inserting, BeforeRow, Counted, Holding, Stage
<1>10. CASE RebuildAggregate(t, q, u)
  <2>1. pc'[t] \in {"countOverride", "commit"}
    BY <1>10 DEF RebuildAggregate, Typed
  <2> QED
    BY <1>10, <2>1 DEF RebuildAggregate, RowOnCourse, Inserting, BeforeRow, Counted, Holding, Stage
<1>11. CASE AdjustAnswerCounters(t, q, u)
  <2>1. \/ pc[t] \in {"countInsert", "countOverride"} /\ pc'[t] = "commit"
        \/ pc[t] = "countRevoke" /\ pc'[t] = "snapshot"
    BY <1>11 DEF AdjustAnswerCounters, CountThen, Typed
  <2> QED
    BY <1>11, <2>1 DEF AdjustAnswerCounters, RowOnCourse, Inserting, BeforeRow, Counted, Holding, Stage
<1> QED
  BY <1>1, <1>2, <1>3, <1>4, <1>5, <1>6, <1>7, <1>8, <1>9, <1>10, <1>11
     DEF Statement

\* As long as the published counts of its question are exact, it leaves the
\* counts in its hands worth what its commit will publish (the heart of the
\* argument, one case per statement).
LEMMA OwnTally ==
  ASSUME Typed, NEW t \in Tx, Answering(t),
         NEW q \in Question, NEW u \in Human, u = req[t].human,
         RowOnCourse(t, q, u), TallyOnCourse(t, q),
         aggregates[q] = TallyOf(envelopes[q]), Statement(t, q, u)
  PROVE  TallyOnCourse(t, q)'
<1>0. req[t] \in Request
  BY DEF Answering
<1>s. req[t].op = "submit" => req[t].answer \in Answer
  BY <1>0 DEF Request
<1> USE <1>0 DEF Goto, tables, writes
<1>1. CASE InsertEnvelope(t, q, u)
  BY <1>1 DEF InsertEnvelope, RowOnCourse, TallyOnCourse, Typed, Inserting, BeforeRow, Counted, Holding, Stage
<1>2. CASE AcquireLock(t, q)
  BY <1>2 DEF AcquireLock, LockThen, RowOnCourse, TallyOnCourse, Typed, Inserting, BeforeRow, Counted, Holding, Stage
<1>3. CASE ReadAggregate(t, q)
  BY <1>3 DEF ReadAggregate, RowOnCourse, TallyOnCourse, Typed, Inserting, BeforeRow, Counted, Holding, Stage
<1>6. CASE OverrideEnvelope(t, q, u)
  BY <1>6 DEF OverrideEnvelope, RowOnCourse, TallyOnCourse, Typed, Inserting, BeforeRow, Counted, Holding, Stage
<1>7. CASE RetryInsert(t, q, u)
  BY <1>7 DEF RetryInsert, RowOnCourse, TallyOnCourse, Typed, Inserting, BeforeRow, Counted, Holding, Stage
<1>9. CASE SnapshotEnvelopes(t, q)
  <2>1. VisibleRows(t, q)' = VisibleRows(t, q)
    BY <1>9 DEF SnapshotEnvelopes, VisibleRows
  <2> QED
    BY <1>9, <2>1 DEF SnapshotEnvelopes, RowOnCourse, TallyOnCourse, Typed, Inserting, BeforeRow, Counted, Holding, Stage
<1>4. CASE BumpAggregate(t, q)
  <2>1. /\ envWrite[t][q] = req[t].answer /\ envelopes[q][u] = NoRow
        /\ req[t].answer \in Answer
        /\ aggWrite[t][q] = aggregates[q] /\ aggregates[q] # NoRow
    BY <1>4, <1>s DEF BumpAggregate, RowOnCourse, TallyOnCourse, Inserting
  <2>2. VisibleRows(t, q)' = [envelopes[q] EXCEPT ![u] = req[t].answer]
    <3>1. VisibleRows(t, q) = [envelopes[q] EXCEPT ![u] = req[t].answer]
      BY <2>1, RowsWithInsert, Marks
    <3> QED
      BY <1>4, <3>1 DEF BumpAggregate, VisibleRows
  <2>3. aggWrite'[t][q] = Bump(aggregates[q], req[t].answer)
    BY <1>4, <2>1 DEF BumpAggregate, Typed
  <2>4. envelopes[q] \in Rows
    BY DEF Typed, Rows
  <2>5. aggWrite'[t][q] = TallyOf(VisibleRows(t, q)')
    BY <2>1, <2>2, <2>3, <2>4, BumpIsTally
  <2>6. aggWrite'[t][q] # Untouched
    BY <2>5, TallyType, Marks
  <2>7. VisibleAggregate(t, q)' = TallyOf(VisibleRows(t, q)')
    BY <2>5, <2>6 DEF VisibleAggregate
  <2> QED
    BY <1>4, <2>7 DEF BumpAggregate, RowOnCourse, TallyOnCourse, Typed, Inserting, BeforeRow, Counted, Holding, Stage
<1>5. CASE CreateAggregate(t, q)
  <2>1. /\ envWrite[t][q] = req[t].answer /\ envelopes[q][u] = NoRow
        /\ req[t].answer \in Answer
        /\ aggregates[q] = NoRow
    BY <1>5, <1>s DEF CreateAggregate, RowOnCourse, TallyOnCourse, Inserting
  <2>2. VisibleRows(t, q)' = [envelopes[q] EXCEPT ![u] = req[t].answer]
    <3>1. VisibleRows(t, q) = [envelopes[q] EXCEPT ![u] = req[t].answer]
      BY <2>1, RowsWithInsert, Marks
    <3> QED
      BY <1>5, <3>1 DEF CreateAggregate, VisibleRows
  <2>3. aggWrite'[t][q] = FirstAnswer(req[t].answer)
    BY <1>5 DEF CreateAggregate, Typed
  <2>4. envelopes[q] \in Rows
    BY DEF Typed, Rows
  <2>5. aggWrite'[t][q] = TallyOf(VisibleRows(t, q)')
    <3>1. TallyOf(envelopes[q]) = NoRow
      BY <2>1
    <3>2. FirstAnswer(req[t].answer)
            = TallyOf([envelopes[q] EXCEPT ![u] = req[t].answer])
      BY <2>1, <2>4, <3>1, FirstAnswerIsTally, Zenon
    <3> QED
      BY <2>2, <2>3, <3>2
  <2>6. aggWrite'[t][q] # Untouched
    BY <2>5, TallyType, Marks
  <2>7. VisibleAggregate(t, q)' = TallyOf(VisibleRows(t, q)')
    BY <2>5, <2>6 DEF VisibleAggregate
  <2> QED
    BY <1>5, <2>7 DEF CreateAggregate, RowOnCourse, TallyOnCourse, Typed, Inserting, BeforeRow, Counted, Holding, Stage
<1>8. CASE DeleteEnvelope(t, q, u)
  <2>1. CASE envelopes[q][u] = NoRow
    <3>1. envWrite'[t][q] = Untouched /\ aggWrite'[t][q] = Untouched
      BY <1>8, <2>1 DEF DeleteEnvelope, RowOnCourse, TallyOnCourse, BeforeRow, Counted
    <3>2. VisibleRows(t, q)' = envelopes[q] /\ VisibleAggregate(t, q)' = aggregates[q]
      BY <1>8, <3>1 DEF DeleteEnvelope, VisibleRows, VisibleAggregate, Typed
    <3> QED
      BY <1>8, <2>1, <3>2 DEF DeleteEnvelope, RowOnCourse, TallyOnCourse, Typed, Inserting, BeforeRow, Counted, Holding, Stage
  <2>2. CASE envelopes[q][u] # NoRow
    BY <1>8, <2>2 DEF DeleteEnvelope, RowOnCourse, TallyOnCourse, Typed, Inserting, BeforeRow, Counted, Holding, Stage
  <2> QED
    BY <2>1, <2>2
<1>10. CASE RebuildAggregate(t, q, u)
  <2>1. snapshot[t] = TallyOf(VisibleRows(t, q)) /\ aggWrite[t][q] = Untouched
    BY <1>10 DEF RebuildAggregate, RowOnCourse, TallyOnCourse, Counted
  <2>2. VisibleRows(t, q)' = VisibleRows(t, q)
    BY <1>10 DEF RebuildAggregate, VisibleRows
  <2>3. VisibleAggregate(t, q)' = snapshot[t]
    <3>1. CASE snapshot[t] = NoRow /\ aggregates[q] = NoRow
      BY <1>10, <2>1, <3>1 DEF RebuildAggregate, VisibleAggregate
    <3>2. CASE ~(snapshot[t] = NoRow /\ aggregates[q] = NoRow)
      <4>1. aggWrite'[t][q] = snapshot[t]
        BY <1>10, <3>2 DEF RebuildAggregate, Typed
      <4>2. snapshot[t] # Untouched
        BY <2>1, TallyType, Marks
      <4> QED
        BY <4>1, <4>2 DEF VisibleAggregate
    <3> QED
      BY <3>1, <3>2
  <2>4. VisibleAggregate(t, q)' = TallyOf(VisibleRows(t, q)')
    BY <2>1, <2>2, <2>3
  <2>5. pc'[t] \in {"countOverride", "commit"}
    BY <1>10 DEF RebuildAggregate, Typed
  <2> QED
    BY <1>10, <2>4, <2>5 DEF RebuildAggregate, RowOnCourse, TallyOnCourse, Typed, Inserting, BeforeRow, Counted, Holding, Stage
<1>11. CASE AdjustAnswerCounters(t, q, u)
  <2>1. /\ VisibleRows(t, q)' = VisibleRows(t, q)
        /\ VisibleAggregate(t, q)' = VisibleAggregate(t, q)
    BY <1>11 DEF AdjustAnswerCounters, VisibleRows, VisibleAggregate
  <2>2. \/ pc[t] \in {"countInsert", "countOverride"} /\ pc'[t] = "commit"
        \/ pc[t] = "countRevoke" /\ pc'[t] = "snapshot"
    BY <1>11 DEF AdjustAnswerCounters, CountThen, Typed
  <2> QED
    BY <1>11, <2>1, <2>2 DEF AdjustAnswerCounters, RowOnCourse, TallyOnCourse, Typed, Inserting, BeforeRow, Counted, Holding, Stage
<1> QED
  BY <1>1, <1>2, <1>3, <1>4, <1>5, <1>6, <1>7, <1>8, <1>9, <1>10, <1>11
     DEF Statement

\* Both together.
LEMMA OwnCourse ==
  ASSUME TallyInvariant, NEW t \in Tx, pc[t] # "idle",
         NEW q \in Question, NEW u \in Human,
         q = req[t].question, u = req[t].human, Statement(t, q, u)
  PROVE  OnCourse(t, q, u)'
<1>1. /\ Typed /\ Answering(t) /\ RowOnCourse(t, q, u) /\ TallyOnCourse(t, q)
      /\ aggregates[q] = TallyOf(envelopes[q])
  BY TypedParts DEF TallyInvariant, RequestsOnCourse, AggregatesExact, OnCourse, Answering, TypeOK
<1> QED
  BY <1>1, OwnRow, OwnTally DEF OnCourse

\* A statement keeps the types of the answer store.
LEMMA StatementType ==
  ASSUME TallyInvariant, NEW t \in Tx, pc[t] # "idle",
         NEW q \in Question, NEW u \in Human,
         q = req[t].question, u = req[t].human, Statement(t, q, u)
  PROVE  TypeOK'
<1>1. TypeOK /\ Typed /\ Answering(t) /\ RowOnCourse(t, q, u)
  BY TypedParts DEF TallyInvariant, RequestsOnCourse, OnCourse, Answering, TypeOK
<1>2. Typed' /\ Answering(t)' /\ OnlyOf(t)
  BY <1>1, StatementTyped, StatementFrame
<1>3. \A s \in Tx : pc'[s] \in Stage /\ (pc'[s] # "idle" => req'[s] \in Request)
  BY <1>1, <1>2 DEF OnlyOf, Answering, TypeOK
<1>4. pc' \in [Tx -> Stage] /\ req' = req
  BY <1>2, <1>3 DEF Typed, OnlyOf
<1> QED
  BY <1>1, <1>2, <1>3, <1>4 DEF Typed, TypeOK

-----------------------------------------------------------------------------
(* The invariant is kept by each kind of step.                             *)

\* A row is written only when no other transaction has written it.
LEMMA WrittenRowWasFree ==
  ASSUME Typed, NEW t \in Tx, NEW q \in Question, NEW u \in Human,
         u = req[t].human, Statement(t, q, u)
  PROVE  envWrite'[t][q] # envWrite[t][q] => ~RowBusy(t, q, u)
BY DEF Statement, InsertEnvelope, AcquireLock, ReadAggregate, BumpAggregate,
       CreateAggregate, OverrideEnvelope, RetryInsert, DeleteEnvelope,
       SnapshotEnvelopes, RebuildAggregate, AdjustAnswerCounters, writes

\* A statement keeps the invariant: its own request by OwnCourse, the others
\* because it does not disturb them.
LEMMA StatementKeeps ==
  ASSUME TallyInvariant, NEW t \in Tx, pc[t] # "idle",
         NEW q \in Question, NEW u \in Human,
         q = req[t].question, u = req[t].human, Statement(t, q, u)
  PROVE  TallyInvariant'
<1>1. TypeOK /\ TypeOK' /\ OnlyOf(t)
  BY StatementType, TypedParts, StatementFrame DEF TallyInvariant
<1>2. AggregatesExact'
  BY <1>1 DEF OnlyOf, TallyInvariant, AggregatesExact
<1>3. WritesOwnQuestion'
  <2> SUFFICES ASSUME NEW s \in Tx, NEW p \in Question,
                      pc'[s] = "idle" \/ p # req'[s].question
               PROVE  envWrite'[s][p] = Untouched /\ aggWrite'[s][p] = Untouched
    BY DEF WritesOwnQuestion
  <2>1. CASE s # t
    BY <1>1, <2>1 DEF OnlyOf, TallyInvariant, WritesOwnQuestion
  <2>2. CASE s = t
    <3>1. pc'[t] # "idle"
      BY <1>1 DEF Statement, InsertEnvelope, AcquireLock, ReadAggregate,
           BumpAggregate, CreateAggregate, OverrideEnvelope, RetryInsert,
           DeleteEnvelope, SnapshotEnvelopes, RebuildAggregate,
           AdjustAnswerCounters, LockThen, CountThen, Goto, TypeOK
    <3> QED
      BY <1>1, <2>2, <3>1 DEF OnlyOf, TallyInvariant, WritesOwnQuestion
  <2> QED
    BY <2>1, <2>2
<1>4. OneWriterPerRow'
  <2>1. ASSUME NEW s \in Tx \ {t}, NEW p \in Question,
               envWrite'[s][p] # Untouched, envWrite'[t][p] # Untouched
        PROVE  req'[s].human # req'[t].human
    <3>1. req' = req /\ envWrite[s][p] # Untouched
      BY <1>1, <2>1 DEF OnlyOf
    <3>2. CASE envWrite[t][p] # Untouched
      BY <3>1, <3>2 DEF TallyInvariant, OneWriterPerRow
    <3>3. CASE envWrite[t][p] = Untouched
      <4>1. p = q
        BY <1>1, <2>1, <3>3 DEF OnlyOf
      <4>2. ~RowBusy(t, q, u)
        BY <1>1, <2>1, <3>3, <4>1, TypedParts, WrittenRowWasFree
      <4> QED
        BY <3>1, <4>1, <4>2 DEF RowBusy
    <3> QED
      BY <3>2, <3>3
  <2> QED
    BY <1>1, <2>1 DEF OnlyOf, TallyInvariant, OneWriterPerRow
<1>5. RequestsOnCourse'
  <2> SUFFICES ASSUME NEW s \in Tx, pc'[s] # "idle"
               PROVE  OnCourse(s, req[s].question, req[s].human)'
    BY DEF RequestsOnCourse
  <2>1. CASE s = t
    BY <1>1, <2>1, OwnCourse DEF OnlyOf
  <2>2. CASE s # t
    <3>1. /\ pc[s] # "idle" /\ pc'[s] = pc[s] /\ req' = req
          /\ envWrite'[s] = envWrite[s] /\ aggWrite'[s] = aggWrite[s]
          /\ snapshot'[s] = snapshot[s]
          /\ envelopes' = envelopes /\ aggregates' = aggregates
      BY <1>1, <2>2 DEF OnlyOf
    <3>2. req[s].question \in Question /\ req[s].human \in Human
      BY <1>1, <3>1 DEF TypeOK, Request
    <3>3. OnCourse(s, req[s].question, req[s].human)
      BY <3>1 DEF TallyInvariant, RequestsOnCourse
    <3>4. pc[s] \in Holding => lock'[req[s].question] = lock[req[s].question]
      BY <1>1, <2>2, <3>2, <3>3 DEF OnlyOf, OnCourse, RowOnCourse, TallyOnCourse
    <3> DEFINE p == req[s].question
               v == req[s].human
    <3>5. p \in Question /\ v \in Human
      BY <3>2
    <3>6. OnCourse(s, p, v)'
      BY <1>1, <3>1, <3>3, <3>4, <3>5, UndisturbedOnCourse
    <3> QED
      BY <3>1, <3>6
  <2> QED
    BY <2>1, <2>2
<1> QED
  BY <1>1, <1>2, <1>3, <1>4, <1>5 DEF TallyInvariant

\* When a transaction ends, nothing of another request changes and none of its
\* locks is lost.
LEMMA ReleaseFrame ==
  ASSUME Typed, NEW t \in Tx, Release(t)
  PROVE  /\ \A s \in Tx \ {t} : /\ pc'[s] = pc[s] /\ req'[s] = req[s]
                                /\ envWrite'[s] = envWrite[s]
                                /\ aggWrite'[s] = aggWrite[s]
                                /\ snapshot'[s] = snapshot[s]
         /\ \A p \in Question : lock[p] # t => lock'[p] = lock[p]
         /\ pc'[t] = "idle"
         /\ \A p \in Question : envWrite'[t][p] = Untouched /\ aggWrite'[t][p] = Untouched
BY DEF Release, Goto, Typed

\* The parts of the invariant that only speak of open transactions survive the
\* end of one, as long as the rows and counts others rely on do.
LEMMA ReleaseKeeps ==
  ASSUME TallyInvariant, NEW t \in Tx, Release(t),
         \A s \in Tx \ {t} : pc[s] # "idle" =>
           LET q == req[s].question
               u == req[s].human
           IN /\ pc[s] = "lockIncrement" => envelopes'[q][u] = envelopes[q][u]
              /\ pc[s] \in Holding => /\ envelopes'[q] = envelopes[q]
                                      /\ aggregates'[q] = aggregates[q]
  PROVE  WritesOwnQuestion' /\ OneWriterPerRow' /\ RequestsOnCourse'
<1>1. TypeOK
  BY DEF TallyInvariant
<1>2. /\ \A s \in Tx \ {t} : /\ pc'[s] = pc[s] /\ req'[s] = req[s]
                             /\ envWrite'[s] = envWrite[s]
                             /\ aggWrite'[s] = aggWrite[s]
                             /\ snapshot'[s] = snapshot[s]
      /\ \A p \in Question : lock[p] # t => lock'[p] = lock[p]
      /\ pc'[t] = "idle"
      /\ \A p \in Question : envWrite'[t][p] = Untouched /\ aggWrite'[t][p] = Untouched
  BY <1>1, TypedParts, ReleaseFrame
<1>3. WritesOwnQuestion'
  BY <1>2 DEF TallyInvariant, WritesOwnQuestion
<1>4. OneWriterPerRow'
  BY <1>2 DEF TallyInvariant, OneWriterPerRow
<1>5. RequestsOnCourse'
  <2> SUFFICES ASSUME NEW s \in Tx, pc'[s] # "idle"
               PROVE  OnCourse(s, req[s].question, req[s].human)'
    BY DEF RequestsOnCourse
  <2>1. s # t
    BY <1>2
  <2> DEFINE p == req[s].question
             v == req[s].human
  <2>2. pc[s] # "idle" /\ pc'[s] = pc[s] /\ req'[s] = req[s]
    BY <1>2, <2>1
  <2>3. p \in Question /\ v \in Human
    BY <1>1, <2>2 DEF TypeOK, Request
  <2>4. OnCourse(s, p, v)
    BY <2>2 DEF TallyInvariant, RequestsOnCourse
  <2>5. pc[s] \in Holding => lock'[p] = lock[p]
    BY <1>2, <2>1, <2>3, <2>4 DEF OnCourse, RowOnCourse, TallyOnCourse
  <2>6. OnCourse(s, p, v)'
    BY <1>1, <1>2, <2>1, <2>2, <2>3, <2>4, <2>5, UndisturbedOnCourse
  <2> QED
    BY <2>2, <2>6
<1> QED
  BY <1>3, <1>4, <1>5

\* COMMIT keeps the invariant: the counts it publishes are those of the rows it
\* publishes, and no other request holds the lock of its question.
LEMMA CommitKeeps ==
  ASSUME TallyInvariant, NEW t \in Tx, Commit(t)
  PROVE  TallyInvariant'
<1> DEFINE q == req[t].question
           u == req[t].human
<1>1. TypeOK /\ Release(t) /\ pc[t] # "idle"
  BY DEF TallyInvariant, Commit
<1>2. q \in Question /\ u \in Human
  BY <1>1 DEF TypeOK, Request
<1>3. OnCourse(t, q, u)
  BY <1>1 DEF TallyInvariant, RequestsOnCourse
<1>4. pc[t] = "commit" /\ lock[q] = t
      /\ VisibleAggregate(t, q) = TallyOf(VisibleRows(t, q))
  BY <1>3 DEF Commit, OnCourse, RowOnCourse, TallyOnCourse, Holding, Counted, Stage
<1>5. \A p \in Question \ {q} : envelopes'[p] = envelopes[p]
                                /\ aggregates'[p] = aggregates[p]
  <2> TAKE p \in Question \ {q}
  <2>1. envWrite[t][p] = Untouched /\ aggWrite[t][p] = Untouched
    BY DEF TallyInvariant, WritesOwnQuestion
  <2> QED
    BY <1>1, <2>1, TypedParts, RowsWithoutWrite DEF Commit, VisibleAggregate
<1>6. envelopes'[q] = VisibleRows(t, q) /\ aggregates'[q] = VisibleAggregate(t, q)
  BY <1>2 DEF Commit
<1>7. AggregatesExact'
  BY <1>4, <1>5, <1>6 DEF TallyInvariant, AggregatesExact
<1>8. TypeOK'
  <2>1. envelopes' \in [Question -> [Human -> Answer \cup {NoRow}]]
    <3>1. \A p \in Question : VisibleRows(t, p) \in [Human -> Answer \cup {NoRow}]
      BY <1>1, TypedParts, VisibleRowsType DEF Rows
    <3> QED
      BY <3>1 DEF Commit
  <2>2. aggregates' \in [Question -> Aggregate \cup {NoRow}]
    <3>1. \A p \in Question : VisibleAggregate(t, p) \in Aggregate \cup {NoRow}
      BY <1>1 DEF VisibleAggregate, TypeOK
    <3> QED
      BY <3>1 DEF Commit
  <2>3. registrations' \in [Human -> Registration \cup {NoRow}]
    BY <1>1 DEF Commit, TypeOK
  <2> QED
    BY <1>1, <2>1, <2>2, <2>3, ReleaseType DEF Commit, TypeOK
<1>9. ASSUME NEW s \in Tx \ {t}, pc[s] # "idle"
      PROVE  LET p == req[s].question
                 v == req[s].human
             IN /\ pc[s] = "lockIncrement" => envelopes'[p][v] = envelopes[p][v]
                /\ pc[s] \in Holding => /\ envelopes'[p] = envelopes[p]
                                        /\ aggregates'[p] = aggregates[p]
  <2> DEFINE p == req[s].question
             v == req[s].human
  <2>1. p \in Question /\ v \in Human
    BY <1>1, <1>9 DEF TypeOK, Request
  <2>2. OnCourse(s, p, v)
    BY <1>9 DEF TallyInvariant, RequestsOnCourse
  <2>3. pc[s] \in Holding => p # q
    BY <1>4, <2>2 DEF OnCourse, RowOnCourse, TallyOnCourse
  <2>4. ASSUME pc[s] = "lockIncrement"
        PROVE  envelopes'[p][v] = envelopes[p][v]
    <3>1. CASE p # q
      BY <1>5, <2>1, <3>1
    <3>2. CASE p = q
      <4>1. envWrite[s][q] # Untouched
        <5>1. envWrite[s][p] = req[s].answer /\ req[s].op = "submit"
          BY <2>2, <2>4 DEF OnCourse, RowOnCourse, TallyOnCourse, Inserting
        <5>2. req[s].answer \in Answer
          BY <1>1, <1>9, <5>1 DEF TypeOK, Request
        <5> QED
          BY <3>2, <5>1, <5>2, Marks
      <4>2. envWrite[t][q] = Untouched \/ v # u
        BY <1>2, <4>1 DEF TallyInvariant, OneWriterPerRow
      <4> QED
        BY <1>6, <2>1, <3>2, <4>2 DEF VisibleRows
    <3> QED
      BY <3>1, <3>2
  <2> QED
    BY <1>5, <2>1, <2>3, <2>4
<1>10. WritesOwnQuestion' /\ OneWriterPerRow' /\ RequestsOnCourse'
  BY <1>1, <1>9, ReleaseKeeps
<1> QED
  BY <1>7, <1>8, <1>10 DEF TallyInvariant

\* ROLLBACK keeps the invariant: no committed row changes.
LEMMA AbortKeeps ==
  ASSUME TallyInvariant, NEW t \in Tx, Abort(t)
  PROVE  TallyInvariant'
<1>1. TypeOK /\ Release(t) /\ UNCHANGED <<open, envelopes, aggregates, registrations>>
  BY DEF TallyInvariant, Abort, tables
<1>2. TypeOK' /\ AggregatesExact'
  BY <1>1, ReleaseType DEF TypeOK, TallyInvariant, AggregatesExact
<1>3. WritesOwnQuestion' /\ OneWriterPerRow' /\ RequestsOnCourse'
  BY <1>1, ReleaseKeeps
<1> QED
  BY <1>2, <1>3 DEF TallyInvariant

\* A new request starts with an empty workspace, on course.
LEMMA BeginKeeps ==
  ASSUME TallyInvariant, NEW t \in Tx, pc[t] = "idle",
         NEW r \in Request, NEW stage \in {"insert", "lockRevoke"},
         stage = "insert" => r.op = "submit",
         req' = [req EXCEPT ![t] = r], Goto(t, stage),
         UNCHANGED <<open, tables, lock, writes>>
  PROVE  TallyInvariant'
<1>1. TypeOK /\ UNCHANGED <<open, envelopes, aggregates, registrations, lock,
                            envWrite, aggWrite, regWrite, snapshot>>
  BY DEF TallyInvariant, tables, writes
<1>2. /\ pc'[t] = stage /\ req'[t] = r
      /\ \A s \in Tx \ {t} : pc'[s] = pc[s] /\ req'[s] = req[s]
  BY <1>1 DEF Goto, TypeOK
<1>3. \A p \in Question : envWrite[t][p] = Untouched /\ aggWrite[t][p] = Untouched
  BY DEF TallyInvariant, WritesOwnQuestion
<1>4. TypeOK'
  <2>1. pc' \in [Tx -> Stage] /\ req' \in [Tx -> Request \cup {NoRequest}]
    BY <1>1 DEF Goto, TypeOK, Stage
  <2>2. \A s \in Tx : pc'[s] # "idle" => req'[s] \in Request
    BY <1>1, <1>2 DEF TypeOK
  <2> QED
    BY <1>1, <2>1, <2>2 DEF TypeOK
<1>5. AggregatesExact'
  BY <1>1 DEF TallyInvariant, AggregatesExact
<1>6. WritesOwnQuestion'
  BY <1>1, <1>2, <1>3 DEF TallyInvariant, WritesOwnQuestion
<1>7. OneWriterPerRow'
  BY <1>1, <1>2, <1>3 DEF TallyInvariant, OneWriterPerRow
<1>8. RequestsOnCourse'
  <2> SUFFICES ASSUME NEW s \in Tx, pc'[s] # "idle"
               PROVE  OnCourse(s, req[s].question, req[s].human)'
    BY DEF RequestsOnCourse
  <2>1. CASE s = t
    <3>1. r.question \in Question
      BY DEF Request
    <3> QED
      BY <1>1, <1>2, <1>3, <2>1, <3>1
         DEF OnCourse, RowOnCourse, TallyOnCourse, Inserting, BeforeRow, Counted, Holding
  <2>2. CASE s # t
    <3> DEFINE p == req[s].question
               v == req[s].human
    <3>1. pc[s] # "idle" /\ pc'[s] = pc[s] /\ req'[s] = req[s]
      BY <1>2, <2>2
    <3>2. p \in Question /\ v \in Human /\ OnCourse(s, p, v)
      BY <1>1, <3>1 DEF TallyInvariant, RequestsOnCourse, TypeOK, Request
    <3>3. OnCourse(s, p, v)'
      BY <1>1, <3>1, <3>2, UndisturbedOnCourse
    <3> QED
      BY <3>1, <3>3
  <2> QED
    BY <2>1, <2>2
<1> QED
  BY <1>4, <1>5, <1>6, <1>7, <1>8 DEF TallyInvariant

\* A registration, the end of a question, and a step of something else entirely
\* touch nothing the invariant speaks of but the types.
LEMMA OutsideKeeps ==
  ASSUME TallyInvariant, open' \in [Question -> BOOLEAN],
         registrations' \in [Human -> Registration \cup {NoRow}],
         UNCHANGED <<envelopes, aggregates, lock, pc, req, writes>>
  PROVE  TallyInvariant'
<1>1. UNCHANGED <<envWrite, aggWrite, regWrite, snapshot>>
  BY DEF writes
<1>2. TypeOK' /\ AggregatesExact' /\ WritesOwnQuestion' /\ OneWriterPerRow'
  BY <1>1 DEF TallyInvariant, TypeOK, AggregatesExact, WritesOwnQuestion, OneWriterPerRow
<1>3. RequestsOnCourse'
  BY <1>1 DEF TallyInvariant, RequestsOnCourse, OnCourse, RowOnCourse, TallyOnCourse, VisibleRows, VisibleAggregate
<1> QED
  BY <1>2, <1>3 DEF TallyInvariant

\* Every step of the answer store keeps the invariant.
LEMMA TallyStep == TallyInvariant /\ [Next]_vars => TallyInvariant'
<1> SUFFICES ASSUME TallyInvariant, [Next]_vars
             PROVE  TallyInvariant'
  OBVIOUS
<1>0. TypeOK
  BY DEF TallyInvariant
<1>1. ASSUME NEW q \in Question, Close(q)
      PROVE  TallyInvariant'
  BY <1>0, <1>1, OutsideKeeps DEF Close, TypeOK, tables
<1>2. ASSUME NEW u \in Human, Register(u)
      PROVE  TallyInvariant'
  <2>1. Upserted(registrations[u]) \in Registration
    BY <1>0 DEF Upserted, Registration, TypeOK
  <2> QED
    BY <1>0, <1>2, <2>1, OutsideKeeps DEF Register, TypeOK
<1>3. ASSUME NEW t \in Tx, NEW u \in Human, NEW q \in Question, NEW a \in Answer,
             Submit(t, u, q, a)
      PROVE  TallyInvariant'
  <2> DEFINE r == [op |-> "submit", question |-> q, human |-> u, answer |-> a]
  <2>1. r \in Request /\ r.op = "submit"
    BY DEF Request
  <2> QED
    BY <1>3, <2>1, BeginKeeps DEF Submit
<1>4. ASSUME NEW t \in Tx, NEW u \in Human, NEW q \in Question, Revoke(t, u, q)
      PROVE  TallyInvariant'
  <2> DEFINE r == [op |-> "revoke", question |-> q, human |-> u, answer |-> NoRow]
  <2>1. r \in Request
    BY DEF Request
  <2> QED
    BY <1>4, <2>1, BeginKeeps DEF Revoke
<1>5. ASSUME NEW t \in Tx, Step(t)
      PROVE  TallyInvariant'
  <2>1. req[t].question \in Question /\ req[t].human \in Human
    BY <1>0, <1>5 DEF Step, TypeOK, Request
  <2> QED
    BY <1>5, <2>1, StatementKeeps, CommitKeeps DEF Step
<1>6. ASSUME NEW t \in Tx, Abort(t)
      PROVE  TallyInvariant'
  BY <1>6, AbortKeeps
<1>7. CASE UNCHANGED vars
  BY <1>0, <1>7, OutsideKeeps DEF vars, tables, TypeOK
<1> QED
  BY <1>1, <1>2, <1>3, <1>4, <1>5, <1>6, <1>7 DEF Next

-----------------------------------------------------------------------------
(* The counters.                                                           *)

\* Replacing one row of a human moves the numbers of that human's rows by the
\* weights of the two rows.
LEMMA RowCounts ==
  ASSUME NEW table \in [Question -> Rows], NEW new \in [Question -> Rows],
         NEW q \in Question, NEW u \in Human,
         \A p \in Question \ {q} : new[p][u] = table[p][u]
  PROVE  /\ Cardinality(Answered(new, u)) \in Nat
         /\ Cardinality(Answered(new, u)) =
              Cardinality(Answered(table, u)) + (AnswerWeight(new[q][u])
                                                   - AnswerWeight(table[q][u]))
         /\ Cardinality(Signalled(new, u)) \in Nat
         /\ Cardinality(Signalled(new, u)) =
              Cardinality(Signalled(table, u)) + (SignalWeight(new[q][u])
                                                    - SignalWeight(table[q][u]))
<1>1. /\ Answered(table, u) \in SUBSET Question
      /\ Answered(new, u) \in SUBSET Question
      /\ \A p \in Question \ {q} : p \in Answered(table, u) <=> p \in Answered(new, u)
      /\ q \in Answered(table, u) <=> table[q][u] # NoRow
      /\ q \in Answered(new, u) <=> new[q][u] # NoRow
  BY DEF Answered
<1>2. /\ Signalled(table, u) \in SUBSET Question
      /\ Signalled(new, u) \in SUBSET Question
      /\ \A p \in Question \ {q} : p \in Signalled(table, u) <=> p \in Signalled(new, u)
      /\ q \in Signalled(table, u) <=> table[q][u] \in Signal
      /\ q \in Signalled(new, u) <=> new[q][u] \in Signal
  BY DEF Signalled
<1>3. /\ Cardinality(Answered(table, u)) \in Nat
      /\ Cardinality(Answered(new, u)) \in Nat
      /\ Cardinality(Answered(new, u)) = Cardinality(Answered(table, u))
           + (IF q \in Answered(new, u) THEN 1 ELSE 0)
           - (IF q \in Answered(table, u) THEN 1 ELSE 0)
  BY <1>1, ElementCounts
<1>4. /\ Cardinality(Signalled(table, u)) \in Nat
      /\ Cardinality(Signalled(new, u)) \in Nat
      /\ Cardinality(Signalled(new, u)) = Cardinality(Signalled(table, u))
           + (IF q \in Signalled(new, u) THEN 1 ELSE 0)
           - (IF q \in Signalled(table, u) THEN 1 ELSE 0)
  BY <1>2, ElementCounts
<1>5. Cardinality(Answered(new, u)) =
        Cardinality(Answered(table, u)) + (AnswerWeight(new[q][u])
                                             - AnswerWeight(table[q][u]))
  BY <1>1, <1>3 DEF AnswerWeight
<1>6. Cardinality(Signalled(new, u)) =
        Cardinality(Signalled(table, u)) + (SignalWeight(new[q][u])
                                              - SignalWeight(table[q][u]))
  BY <1>2, <1>4 DEF SignalWeight
<1> QED
  BY <1>3, <1>4, <1>5, <1>6

\* The counters of a human whose rows stay where they are stay exact.
LEMMA SameRowsSameCounts ==
  ASSUME NEW table, NEW new, NEW u \in Human,
         \A p \in Question : new[p][u] = table[p][u]
  PROVE  Answered(new, u) = Answered(table, u) /\ Signalled(new, u) = Signalled(table, u)
BY DEF Answered, Signalled

\* The counters of one human are exact.
ExactFor(u) ==
  /\ registrations[u].answers = Cardinality(Answered(envelopes, u))
  /\ registrations[u].signals = Cardinality(Signalled(envelopes, u))

\* What the commit of t adds to exact counters never takes them below zero, so
\* GREATEST(n, 0) has nothing to hide.
LEMMA CounterRoom ==
  ASSUME Typed, NEW t \in Tx, NEW q \in Question, NEW u \in Human,
         registrations[u] # NoRow, ExactFor(u)
  PROVE  /\ registrations[u].answers \in Nat /\ registrations[u].signals \in Nat
         /\ AnswerShift(t, q, u) \in Int /\ SignalShift(t, q, u) \in Int
         /\ registrations[u].answers + AnswerShift(t, q, u) \in Nat
         /\ registrations[u].signals + SignalShift(t, q, u) \in Nat
<1> DEFINE new == [envelopes EXCEPT ![q] = VisibleRows(t, q)]
<1>1. envelopes \in [Question -> Rows] /\ VisibleRows(t, q) \in Rows
  BY VisibleRowsType DEF Typed, Rows
<1>2. /\ new \in [Question -> Rows]
      /\ new[q][u] = VisibleRows(t, q)[u]
      /\ \A p \in Question \ {q} : new[p][u] = envelopes[p][u]
  BY <1>1
<1> HIDE DEF new
<1>3. /\ Cardinality(Answered(new, u)) \in Nat
      /\ Cardinality(Answered(new, u)) =
           Cardinality(Answered(envelopes, u)) + AnswerShift(t, q, u)
      /\ Cardinality(Signalled(new, u)) \in Nat
      /\ Cardinality(Signalled(new, u)) =
           Cardinality(Signalled(envelopes, u)) + SignalShift(t, q, u)
  BY <1>1, <1>2, RowCounts DEF AnswerShift, SignalShift
<1>4. /\ registrations[u].answers = Cardinality(Answered(envelopes, u))
      /\ registrations[u].signals = Cardinality(Signalled(envelopes, u))
  BY DEF ExactFor
<1>5. registrations[u].answers \in Nat /\ registrations[u].signals \in Nat
  BY DEF Typed, Registration
<1>6. AnswerShift(t, q, u) \in Int /\ SignalShift(t, q, u) \in Int
  BY DEF AnswerShift, SignalShift, AnswerWeight, SignalWeight
<1> QED
  BY <1>3, <1>4, <1>5, <1>6

\* A statement writes the counters in its own workspace only, when no other
\* transaction has written those of its human, and never touches the tables.
LEMMA StatementCounterFrame ==
  ASSUME Typed, NEW t \in Tx, NEW q \in Question, NEW u \in Human,
         u = req[t].human, Statement(t, q, u)
  PROVE  /\ \A s \in Tx \ {t} : regWrite'[s] = regWrite[s]
         /\ regWrite'[t] # regWrite[t] => ~RegistrationBusy(t, u)
<1>1. CASE AdjustAnswerCounters(t, q, u)
  BY <1>1 DEF AdjustAnswerCounters, Typed
<1>2. CASE ~AdjustAnswerCounters(t, q, u)
  BY <1>2 DEF Statement, InsertEnvelope, AcquireLock, ReadAggregate, BumpAggregate,
       CreateAggregate, OverrideEnvelope, RetryInsert, DeleteEnvelope,
       SnapshotEnvelopes, RebuildAggregate, writes
<1> QED
  BY <1>1, <1>2

\* A request's account of its own row stays true when its own state is
\* unchanged, and so are the row and the counters that it has written.
LEMMA UndisturbedCounted ==
  ASSUME NEW s \in Tx, Answering(s), NEW q \in Question, NEW u \in Human,
         CountedOnCourse(s, q, u),
         pc'[s] = pc[s], req'[s] = req[s],
         envWrite'[s] = envWrite[s], regWrite'[s] = regWrite[s],
         envWrite[s][q] # Untouched => envelopes'[q][u] = envelopes[q][u],
         registrations'[u] # NoRow,
         regWrite[s] # Untouched =>
           /\ registrations'[u].answers = registrations[u].answers
           /\ registrations'[u].signals = registrations[u].signals
  PROVE  CountedOnCourse(s, q, u)'
<1>1. /\ AnswerShift(s, q, u)' = AnswerShift(s, q, u)
      /\ SignalShift(s, q, u)' = SignalShift(s, q, u)
  <2>1. CASE envWrite[s][q] # Untouched
    BY <2>1 DEF VisibleRows, AnswerShift, SignalShift
  <2>2. CASE envWrite[s][q] = Untouched
    BY <2>2 DEF VisibleRows, AnswerShift, SignalShift, AnswerWeight, SignalWeight
  <2> QED
    BY <2>1, <2>2
<1>2. ASSUME pc[s] \in Replacing
      PROVE  envWrite'[s][q] = req'[s].answer /\ envelopes'[q][u] # NoRow
  <2>1. envWrite[s][q] = req[s].answer /\ envelopes[q][u] # NoRow
    BY <1>2 DEF CountedOnCourse
  <2>2. req[s].answer # Untouched
    BY Marks DEF Answering, Request
  <2> QED
    BY <2>1, <2>2
<1> QED
  BY <1>1, <1>2, Marks DEF CountedOnCourse

\* A statement keeps its own request's account of its row and of the counters
\* true: what adjustAnswerCounters adds is what the commit adds.
LEMMA OwnCount ==
  ASSUME Typed, NEW t \in Tx, Answering(t),
         NEW q \in Question, NEW u \in Human, q = req[t].question, u = req[t].human,
         RowOnCourse(t, q, u), CountedOnCourse(t, q, u), ExactFor(u), Statement(t, q, u)
  PROVE  CountedOnCourse(t, q, u)'
<1>0. req[t] \in Request
  BY DEF Answering
<1>1. /\ req' = req /\ envelopes' = envelopes /\ registrations' = registrations
      /\ registrations[u] # NoRow
  BY StatementFrame DEF OnlyOf, CountedOnCourse
<1>2. /\ req[t].op = "submit" => req[t].answer \in Answer
      /\ req[t].op = "revoke" => req[t].answer = NoRow
      /\ req[t].op \in {"submit", "revoke"}
  BY <1>0 DEF Request
<1>s. ASSUME envWrite'[t] = envWrite[t]
      PROVE  /\ AnswerShift(t, q, u)' = AnswerShift(t, q, u)
             /\ SignalShift(t, q, u)' = SignalShift(t, q, u)
  BY <1>1, <1>s DEF AnswerShift, SignalShift, VisibleRows
<1>w. \A x \in Answer \cup {NoRow} :
        envWrite[t][q] = x =>
          /\ AnswerShift(t, q, u) = AnswerWeight(x) - AnswerWeight(envelopes[q][u])
          /\ SignalShift(t, q, u) = SignalWeight(x) - SignalWeight(envelopes[q][u])
  BY Marks DEF AnswerShift, SignalShift, VisibleRows
<1>n. envWrite[t][q] = Untouched => AnswerShift(t, q, u) = 0 /\ SignalShift(t, q, u) = 0
  BY DEF AnswerShift, SignalShift, VisibleRows, AnswerWeight, SignalWeight
<1> USE <1>0, <1>1, <1>2 DEF Goto
<1>3. CASE InsertEnvelope(t, q, u)
  BY <1>3, Marks DEF InsertEnvelope, RowOnCourse, CountedOnCourse, Typed, Inserting, BeforeRow, Replacing, AfterCount
<1>4. CASE AcquireLock(t, q)
  BY <1>4, Marks DEF AcquireLock, LockThen, writes, RowOnCourse, CountedOnCourse, Typed, Inserting, BeforeRow, Replacing, AfterCount
<1>5. CASE ReadAggregate(t, q)
  BY <1>5, Marks DEF ReadAggregate, RowOnCourse, CountedOnCourse, Typed, Inserting, BeforeRow, Replacing, AfterCount
<1>6. CASE BumpAggregate(t, q)
  BY <1>6, Marks DEF BumpAggregate, RowOnCourse, CountedOnCourse, Typed, Inserting, BeforeRow, Replacing, AfterCount
<1>7. CASE CreateAggregate(t, q)
  BY <1>7, Marks DEF CreateAggregate, RowOnCourse, CountedOnCourse, Typed, Inserting, BeforeRow, Replacing, AfterCount
<1>8. CASE OverrideEnvelope(t, q, u)
  BY <1>8, Marks DEF OverrideEnvelope, RowOnCourse, CountedOnCourse, Typed, Inserting, BeforeRow, Replacing, AfterCount
<1>9. CASE RetryInsert(t, q, u)
  BY <1>9, Marks DEF RetryInsert, RowOnCourse, CountedOnCourse, Typed, Inserting, BeforeRow, Replacing, AfterCount
<1>10. CASE DeleteEnvelope(t, q, u)
  <2>1. CASE envelopes[q][u] = NoRow
    <3>1. /\ envWrite'[t] = envWrite[t] /\ envWrite[t][q] = Untouched
          /\ pc'[t] = "commit" /\ regWrite' = regWrite
      BY <1>10, <2>1 DEF DeleteEnvelope, RowOnCourse, BeforeRow, Typed
    <3>2. AnswerShift(t, q, u)' = 0 /\ SignalShift(t, q, u)' = 0
      BY <3>1, <1>n, <1>s
    <3>3. regWrite'[t] = Untouched
      BY <1>10, <3>1 DEF DeleteEnvelope, CountedOnCourse, AfterCount
    <3> QED
      BY <3>1, <3>2, <3>3, Marks DEF CountedOnCourse, Replacing, AfterCount
  <2>2. CASE envelopes[q][u] # NoRow
    <3>0. /\ pc[t] = "delete" /\ pc'[t] = "countRevoke" /\ regWrite' = regWrite
      BY <1>10, <2>2 DEF DeleteEnvelope, Typed
    <3>e. envWrite' = [envWrite EXCEPT ![t][q] = NoRow]
      BY <1>10, <2>2 DEF DeleteEnvelope
    <3>f. [envWrite[t] EXCEPT ![q] = NoRow][q] = NoRow
      BY DEF Typed
    <3>1. /\ pc[t] = "delete" /\ pc'[t] = "countRevoke" /\ regWrite' = regWrite
          /\ envWrite'[t][q] = NoRow
      BY <3>0, <3>e, <3>f DEF Typed
    <3>2. req[t].op = "revoke" /\ regWrite'[t] = Untouched
      BY <3>1 DEF CountedOnCourse, AfterCount
    <3> QED
      BY <2>2, <3>1, <3>2, Marks DEF CountedOnCourse, Replacing, AfterCount
  <2> QED
    BY <2>1, <2>2
<1>11. CASE SnapshotEnvelopes(t, q)
  <2>1. AnswerShift(t, q, u)' = AnswerShift(t, q, u) /\ SignalShift(t, q, u)' = SignalShift(t, q, u)
    BY <1>11, <1>s DEF SnapshotEnvelopes
  <2> QED
    BY <1>11, <2>1 DEF SnapshotEnvelopes, CountedOnCourse, Typed, Replacing, AfterCount
<1>12. CASE RebuildAggregate(t, q, u)
  <2>1. AnswerShift(t, q, u)' = AnswerShift(t, q, u) /\ SignalShift(t, q, u)' = SignalShift(t, q, u)
    BY <1>12, <1>s DEF RebuildAggregate
  <2>2. /\ pc[t] = "rebuild" /\ envWrite[t][q] = req[t].answer /\ envelopes[q][u] # NoRow
        /\ UNCHANGED <<envWrite, regWrite>>
    BY <1>12 DEF RebuildAggregate, CountedOnCourse, Replacing
  <2>3. pc'[t] = IF req[t].op = "submit" /\ SignalDelta(t, q, u) # 0
                 THEN "countOverride" ELSE "commit"
    BY <1>12 DEF RebuildAggregate, Typed
  <2>4. ASSUME pc'[t] = "commit", regWrite[t] = Untouched
        PROVE  AnswerShift(t, q, u) = 0 /\ SignalShift(t, q, u) = 0
    <3>1. req[t].op = "submit" /\ SignalDelta(t, q, u) = 0
      BY <2>2, <2>3, <2>4 DEF CountedOnCourse
    <3>2. SignalShift(t, q, u) = SignalDelta(t, q, u)
      BY <2>2, <1>w DEF SignalDelta
    <3>3. AnswerShift(t, q, u) = 0
      BY <2>2, <3>1, <1>w, Marks DEF AnswerWeight
    <3> QED
      BY <3>1, <3>2, <3>3
  <2> QED
    BY <2>1, <2>2, <2>3, <2>4 DEF CountedOnCourse, Replacing, AfterCount
<1>13. CASE AdjustAnswerCounters(t, q, u)
  <2>1. AnswerShift(t, q, u)' = AnswerShift(t, q, u) /\ SignalShift(t, q, u)' = SignalShift(t, q, u)
    BY <1>13, <1>s DEF AdjustAnswerCounters
  <2>2. pc[t] = "countInsert" => /\ envWrite[t][q] = req[t].answer /\ envelopes[q][u] = NoRow
                                 /\ req[t].op = "submit"
    BY DEF RowOnCourse, Inserting
  <2>3. pc[t] \in {"countOverride", "countRevoke"} =>
          /\ envWrite[t][q] = req[t].answer /\ envelopes[q][u] # NoRow
          /\ req[t].op = IF pc[t] = "countRevoke" THEN "revoke" ELSE "submit"
    BY DEF CountedOnCourse, Replacing
  <2>4. AnswerDelta[pc[t]] = AnswerShift(t, q, u)
    BY <1>13, <1>w, <2>2, <2>3, Marks DEF AdjustAnswerCounters, AnswerDelta, AnswerWeight
  <2>5. SignalDelta(t, q, u) = SignalShift(t, q, u)
    <3>1. NoRow \notin Signal
      BY TallyAssumption
    <3> QED
      BY <1>13, <1>w, <2>2, <2>3, <3>1 DEF AdjustAnswerCounters, SignalDelta, SignalWeight
  <2>6. /\ registrations[u].answers + AnswerShift(t, q, u) \in Nat
        /\ registrations[u].signals + SignalShift(t, q, u) \in Nat
    BY CounterRoom
  <2>7. /\ AtLeastZero(registrations[u].answers + AnswerDelta[pc[t]])
              = registrations[u].answers + AnswerShift(t, q, u)
        /\ AtLeastZero(registrations[u].signals + SignalDelta(t, q, u))
              = registrations[u].signals + SignalShift(t, q, u)
    BY <2>4, <2>5, <2>6 DEF AtLeastZero
  <2> DEFINE live == registrations[u].live
             new == [live    |-> live,
                     answers |-> registrations[u].answers + AnswerShift(t, q, u),
                     signals |-> registrations[u].signals + SignalShift(t, q, u)]
  <2>8. regWrite'[t] = new
    BY <1>13, <2>7 DEF AdjustAnswerCounters, Typed
  <2>9. /\ new.answers = registrations[u].answers + AnswerShift(t, q, u)
        /\ new.signals = registrations[u].signals + SignalShift(t, q, u)
    OBVIOUS
  <2>10. new \in Registration
    <3>1. live \in BOOLEAN
      BY DEF Typed, Registration
    <3> HIDE DEF live
    <3> QED
      BY <2>6, <3>1 DEF Registration
  <2> HIDE DEF new
  <2>11. new # NoRow /\ new # Untouched
    BY <2>10, Marks
  <2>12. /\ pc'[t] = IF pc[t] = "countRevoke" THEN "snapshot" ELSE "commit"
         /\ envWrite' = envWrite /\ pc[t] \in {"countInsert", "countOverride", "countRevoke"}
    BY <1>13 DEF AdjustAnswerCounters, CountThen, Typed
  <2> QED
    BY <2>1, <2>2, <2>3, <2>8, <2>9, <2>11, <2>12
       DEF CountedOnCourse, Replacing, AfterCount
<1> QED
  BY <1>3, <1>4, <1>5, <1>6, <1>7, <1>8, <1>9, <1>10, <1>11, <1>12, <1>13
     DEF Statement

\* A statement keeps the counters exact and every request's account true.
LEMMA StatementCounts ==
  ASSUME TallyInvariant, CounterInvariant, NEW t \in Tx, pc[t] # "idle",
         NEW q \in Question, NEW u \in Human,
         q = req[t].question, u = req[t].human, Statement(t, q, u)
  PROVE  CounterInvariant'
<1>1. TypeOK /\ OnlyOf(t)
  BY TypedParts, StatementFrame DEF TallyInvariant
<1>2. UNCHANGED <<envelopes, registrations, req>>
  BY <1>1 DEF OnlyOf
<1>3. /\ \A s \in Tx \ {t} : regWrite'[s] = regWrite[s]
      /\ regWrite'[t] # regWrite[t] => ~RegistrationBusy(t, u)
  BY <1>1, TypedParts, StatementCounterFrame
<1>4. CountersExact' /\ RowsOfRegistered'
  BY <1>2 DEF CounterInvariant, CountersExact, RowsOfRegistered
<1>5. OneCounterWriterPerHuman'
  <2>1. ASSUME NEW s \in Tx \ {t}, regWrite'[s] # Untouched, regWrite'[t] # Untouched
        PROVE  req[s].human # req[t].human
    BY <1>3, <2>1 DEF RegistrationBusy, CounterInvariant, OneCounterWriterPerHuman
  <2>2. pc'[t] # "idle"
    BY <1>1 DEF Statement, InsertEnvelope, AcquireLock, ReadAggregate,
         BumpAggregate, CreateAggregate, OverrideEnvelope, RetryInsert,
         DeleteEnvelope, SnapshotEnvelopes, RebuildAggregate,
         AdjustAnswerCounters, LockThen, CountThen, Goto, TypeOK
  <2> QED
    BY <1>1, <1>2, <1>3, <2>1, <2>2 DEF OnlyOf, CounterInvariant, OneCounterWriterPerHuman
<1>6. CountsOnCourse'
  <2> SUFFICES ASSUME NEW s \in Tx, pc'[s] # "idle"
               PROVE  CountedOnCourse(s, req[s].question, req[s].human)'
    BY DEF CountsOnCourse
  <2>1. CASE s = t
    <3>1. Typed /\ Answering(t) /\ RowOnCourse(t, q, u) /\ CountedOnCourse(t, q, u)
      BY TypedParts DEF TallyInvariant, RequestsOnCourse, OnCourse, Answering, TypeOK,
                        CounterInvariant, CountsOnCourse
    <3>2. ExactFor(u)
      BY <3>1 DEF CounterInvariant, CountersExact, ExactFor, CountedOnCourse
    <3> QED
      BY <1>2, <2>1, <3>1, <3>2, OwnCount
  <2>2. CASE s # t
    <3> DEFINE p == req[s].question
               v == req[s].human
    <3>1. /\ pc[s] # "idle" /\ pc'[s] = pc[s] /\ req'[s] = req[s]
          /\ envWrite'[s] = envWrite[s] /\ regWrite'[s] = regWrite[s]
      BY <1>1, <1>2, <1>3, <2>2 DEF OnlyOf
    <3>2. /\ p \in Question /\ v \in Human
          /\ Answering(s) /\ CountedOnCourse(s, p, v)
      BY <1>1, <3>1 DEF TypeOK, Request, Answering, CounterInvariant, CountsOnCourse
    <3>3. registrations'[v] # NoRow
      BY <1>2, <3>2 DEF CountedOnCourse
    <3>4. CountedOnCourse(s, p, v)'
      BY <1>1, <1>2, <3>1, <3>2, <3>3, UndisturbedCounted
    <3> QED
      BY <1>2, <3>4
  <2> QED
    BY <2>1, <2>2
<1> QED
  BY <1>4, <1>5, <1>6 DEF CounterInvariant

\* The end of a transaction leaves what is said of the open ones true, as long
\* as the rows and the counters that others rely on are left alone.
LEMMA ReleaseCounts ==
  ASSUME TallyInvariant, CounterInvariant, NEW t \in Tx, pc[t] # "idle", Release(t),
         \A s \in Tx \ {t} : pc[s] # "idle" =>
           LET p == req[s].question
               v == req[s].human
           IN /\ envWrite[s][p] # Untouched => envelopes'[p][v] = envelopes[p][v]
              /\ registrations'[v] # NoRow
              /\ regWrite[s] # Untouched =>
                   /\ registrations'[v].answers = registrations[v].answers
                   /\ registrations'[v].signals = registrations[v].signals
  PROVE  OneCounterWriterPerHuman' /\ CountsOnCourse'
<1>1. TypeOK
  BY DEF TallyInvariant
<1>2. /\ \A s \in Tx \ {t} : /\ pc'[s] = pc[s] /\ req'[s] = req[s]
                             /\ envWrite'[s] = envWrite[s]
                             /\ regWrite'[s] = regWrite[s]
      /\ pc'[t] = "idle" /\ regWrite'[t] = Untouched
  BY <1>1 DEF Release, Goto, TypeOK
<1>3. OneCounterWriterPerHuman'
  BY <1>2 DEF CounterInvariant, OneCounterWriterPerHuman
<1>4. CountsOnCourse'
  <2> SUFFICES ASSUME NEW s \in Tx, pc'[s] # "idle"
               PROVE  CountedOnCourse(s, req[s].question, req[s].human)'
    BY DEF CountsOnCourse
  <2> DEFINE p == req[s].question
             v == req[s].human
  <2>1. s # t /\ pc[s] # "idle"
    BY <1>2
  <2>2. /\ p \in Question /\ v \in Human
        /\ Answering(s) /\ CountedOnCourse(s, p, v)
    BY <1>1, <2>1 DEF TypeOK, Request, Answering, CounterInvariant, CountsOnCourse
  <2>3. CountedOnCourse(s, p, v)'
    BY <1>1, <1>2, <2>1, <2>2, UndisturbedCounted
  <2> QED
    BY <1>2, <2>1, <2>3
<1> QED
  BY <1>3, <1>4

\* What a commit leaves behind, in the tables and for the others.
LEMMA CommitFrame ==
  ASSUME TallyInvariant, CounterInvariant, NEW t \in Tx, Commit(t),
         NEW q \in Question, NEW u \in Human, q = req[t].question, u = req[t].human
  PROVE  /\ pc[t] = "commit" /\ lock[q] = t
         /\ OnCourse(t, q, u) /\ CountedOnCourse(t, q, u)
         /\ \A p \in Question \ {q} : envelopes'[p] = envelopes[p]
         /\ envelopes'[q] = VisibleRows(t, q)
         /\ \A v \in Human : v # u => envelopes'[q][v] = envelopes[q][v]
         /\ \A v \in Human : v # u => registrations'[v] = registrations[v]
         /\ registrations'[u] = IF regWrite[t] = Untouched THEN registrations[u]
                                 ELSE regWrite[t]
<1>1. TypeOK /\ pc[t] # "idle"
  BY DEF TallyInvariant, Commit
<1>2. OnCourse(t, q, u) /\ CountedOnCourse(t, q, u)
  BY <1>1 DEF TallyInvariant, RequestsOnCourse, CounterInvariant, CountsOnCourse
<1>3. pc[t] = "commit" /\ lock[q] = t
  BY <1>2 DEF Commit, OnCourse, RowOnCourse, TallyOnCourse, Holding, Stage
<1>4. ASSUME NEW p \in Question \ {q}
      PROVE  envelopes'[p] = envelopes[p]
  <2>1. envWrite[t][p] = Untouched
    BY DEF TallyInvariant, WritesOwnQuestion
  <2> QED
    BY <1>1, <2>1, TypedParts, RowsWithoutWrite DEF Commit
<1>5. envelopes'[q] = VisibleRows(t, q)
  BY DEF Commit
<1>6. \A v \in Human : v # u => envelopes'[q][v] = envelopes[q][v]
  BY <1>5 DEF VisibleRows
<1>7. \A v \in Human : registrations'[v] =
        IF regWrite[t] # Untouched /\ u = v THEN regWrite[t] ELSE registrations[v]
  BY DEF Commit
<1> QED
  BY <1>2, <1>3, <1>4, <1>5, <1>6, <1>7

\* A request whose account of its row and of the counters is true leaves exact
\* counters behind exact ones.
LEMMA CommittedCounters ==
  ASSUME Typed, envelopes' \in [Question -> Rows], NEW t \in Tx, pc[t] = "commit",
         NEW q \in Question, NEW u \in Human, CountedOnCourse(t, q, u), ExactFor(u),
         \A p \in Question \ {q} : envelopes'[p][u] = envelopes[p][u],
         envelopes'[q][u] = VisibleRows(t, q)[u],
         registrations'[u] = IF regWrite[t] = Untouched THEN registrations[u]
                             ELSE regWrite[t]
  PROVE  registrations'[u] # NoRow /\ ExactFor(u)'
<1>1. registrations[u] # NoRow /\ registrations'[u] # NoRow
  BY DEF CountedOnCourse
<1>2. /\ registrations'[u].answers = registrations[u].answers + AnswerShift(t, q, u)
      /\ registrations'[u].signals = registrations[u].signals + SignalShift(t, q, u)
  <2>1. registrations[u].answers \in Nat /\ registrations[u].signals \in Nat
    BY <1>1 DEF Typed, Registration
  <2> QED
    BY <2>1 DEF CountedOnCourse
<1>3. envelopes \in [Question -> Rows]
  BY DEF Typed, Rows
<1>4. /\ Cardinality(Answered(envelopes', u)) =
           Cardinality(Answered(envelopes, u)) + AnswerShift(t, q, u)
      /\ Cardinality(Signalled(envelopes', u)) =
           Cardinality(Signalled(envelopes, u)) + SignalShift(t, q, u)
  BY <1>3, RowCounts DEF AnswerShift, SignalShift
<1> QED
  BY <1>1, <1>2, <1>4 DEF ExactFor

\* COMMIT keeps the counters exact: it moves them by what its row weighs.
LEMMA CommitCounts ==
  ASSUME TallyInvariant, CounterInvariant, NEW t \in Tx, Commit(t)
  PROVE  CounterInvariant'
<1>1. TypeOK /\ TypeOK' /\ Release(t) /\ pc[t] # "idle"
  BY CommitKeeps DEF TallyInvariant, Commit
<1>2. req[t].question \in Question /\ req[t].human \in Human
  BY <1>1 DEF TypeOK, Request
<1> PICK q \in Question, u \in Human : q = req[t].question /\ u = req[t].human
  BY <1>2
<1>3. /\ pc[t] = "commit" /\ lock[q] = t
      /\ OnCourse(t, q, u) /\ CountedOnCourse(t, q, u)
      /\ \A p \in Question \ {q} : envelopes'[p] = envelopes[p]
      /\ envelopes'[q] = VisibleRows(t, q)
      /\ \A v \in Human : v # u => envelopes'[q][v] = envelopes[q][v]
      /\ \A v \in Human : v # u => registrations'[v] = registrations[v]
      /\ registrations'[u] = IF regWrite[t] = Untouched THEN registrations[u]
                              ELSE regWrite[t]
  BY <1>2, CommitFrame
<1>4. registrations[u] # NoRow /\ registrations'[u] # NoRow
  BY <1>3 DEF CountedOnCourse
<1>5. ExactFor(u)'
  <2>1. envelopes' \in [Question -> Rows]
    BY <1>1 DEF TypeOK, Rows
  <2>2. ExactFor(u)
    BY <1>2, <1>4 DEF CounterInvariant, CountersExact, ExactFor
  <2>3. Typed /\ CountedOnCourse(t, q, u)
    BY <1>1, <1>3, TypedParts
  <2>4. /\ \A p \in Question \ {q} : envelopes'[p][u] = envelopes[p][u]
        /\ envelopes'[q][u] = VisibleRows(t, q)[u]
    BY <1>3
  <2> QED
    BY <1>2, <1>3, <2>1, <2>2, <2>3, <2>4, CommittedCounters
<1>6. CountersExact'
  <2> SUFFICES ASSUME NEW v \in Human, registrations'[v] # NoRow
               PROVE  /\ registrations'[v].answers = Cardinality(Answered(envelopes', v))
                      /\ registrations'[v].signals = Cardinality(Signalled(envelopes', v))
    BY DEF CountersExact
  <2>1. CASE v # u
    <3>1. \A p \in Question : envelopes'[p][v] = envelopes[p][v]
      BY <1>3, <2>1
    <3>2. /\ Answered(envelopes', v) = Answered(envelopes, v)
          /\ Signalled(envelopes', v) = Signalled(envelopes, v)
      BY <3>1, SameRowsSameCounts, Zenon
    <3>3. registrations'[v] = registrations[v]
      BY <1>3, <2>1
    <3> QED
      BY <3>2, <3>3 DEF CounterInvariant, CountersExact
  <2>2. CASE v = u
    BY <1>5, <2>2 DEF ExactFor
  <2> QED
    BY <2>1, <2>2
<1>7. RowsOfRegistered'
  <2> SUFFICES ASSUME NEW p \in Question, NEW v \in Human, registrations'[v] = NoRow
               PROVE  envelopes'[p][v] = NoRow
    BY DEF RowsOfRegistered
  <2>1. v # u
    BY <1>4
  <2>2. registrations[v] = NoRow /\ envelopes'[p][v] = envelopes[p][v]
    BY <1>3, <2>1
  <2> QED
    BY <2>2 DEF CounterInvariant, RowsOfRegistered
<1>8. OneCounterWriterPerHuman' /\ CountsOnCourse'
  <2>1. ASSUME NEW s \in Tx \ {t}, pc[s] # "idle"
        PROVE  LET p == req[s].question
                   v == req[s].human
               IN /\ envWrite[s][p] # Untouched => envelopes'[p][v] = envelopes[p][v]
                  /\ registrations'[v] # NoRow
                  /\ regWrite[s] # Untouched =>
                       /\ registrations'[v].answers = registrations[v].answers
                       /\ registrations'[v].signals = registrations[v].signals
    <3> DEFINE p == req[s].question
               v == req[s].human
    <3>1. p \in Question /\ v \in Human /\ CountedOnCourse(s, p, v)
      BY <1>1, <2>1 DEF TypeOK, Request, CounterInvariant, CountsOnCourse
    <3>2. envWrite[s][p] # Untouched => envelopes'[p][v] = envelopes[p][v]
      <4>1. CASE p # q
        BY <1>3, <3>1, <4>1
      <4>2. ASSUME p = q, envWrite[s][q] # Untouched
            PROVE  envelopes'[q][v] = envelopes[q][v]
        <5>1. envWrite[t][q] = Untouched \/ v # u
          BY <1>2, <4>2 DEF TallyInvariant, OneWriterPerRow
        <5> QED
          BY <1>3, <3>1, <5>1 DEF VisibleRows
      <4> QED
        BY <4>1, <4>2
    <3>3. registrations'[v] # NoRow
      BY <1>3, <1>4, <3>1 DEF CountedOnCourse
    <3>4. regWrite[s] # Untouched => registrations'[v] = registrations[v]
      <4>1. regWrite[s] # Untouched /\ v = u => regWrite[t] = Untouched
        BY DEF CounterInvariant, OneCounterWriterPerHuman
      <4> QED
        BY <1>3, <3>1, <4>1
    <3> QED
      BY <1>3, <3>1, <3>2, <3>3, <3>4
  <2> QED
    BY <1>1, <2>1, ReleaseCounts
<1> QED
  BY <1>6, <1>7, <1>8 DEF CounterInvariant

\* ROLLBACK keeps the counters exact: no committed row changes.
LEMMA AbortCounts ==
  ASSUME TallyInvariant, CounterInvariant, NEW t \in Tx, Abort(t)
  PROVE  CounterInvariant'
<1>1. TypeOK /\ Release(t) /\ pc[t] # "idle" /\ UNCHANGED <<envelopes, registrations>>
  BY DEF TallyInvariant, Abort, tables
<1>2. CountersExact' /\ RowsOfRegistered'
  BY <1>1 DEF CounterInvariant, CountersExact, RowsOfRegistered
<1>3. \A s \in Tx : pc[s] # "idle" => registrations[req[s].human] # NoRow
  BY DEF CounterInvariant, CountsOnCourse, CountedOnCourse
<1>4. OneCounterWriterPerHuman' /\ CountsOnCourse'
  BY <1>1, <1>3, ReleaseCounts
<1> QED
  BY <1>2, <1>4 DEF CounterInvariant

\* A new request comes from a registered human and has written nothing.
LEMMA BeginCounts ==
  ASSUME TallyInvariant, CounterInvariant, NEW t \in Tx, pc[t] = "idle",
         NEW r \in Request, NEW stage \in {"insert", "lockRevoke"},
         stage = "lockRevoke" => r.op = "revoke",
         registrations[r.human] # NoRow,
         req' = [req EXCEPT ![t] = r], Goto(t, stage),
         UNCHANGED <<open, tables, lock, writes>>
  PROVE  CounterInvariant'
<1>1. TypeOK /\ UNCHANGED <<envelopes, registrations, lock, envWrite, regWrite>>
  BY DEF TallyInvariant, tables, writes
<1>2. /\ pc'[t] = stage /\ req'[t] = r
      /\ \A s \in Tx \ {t} : pc'[s] = pc[s] /\ req'[s] = req[s]
  BY <1>1 DEF Goto, TypeOK
<1>3. /\ \A p \in Question : envWrite[t][p] = Untouched
      /\ regWrite[t] = Untouched
  BY DEF TallyInvariant, WritesOwnQuestion, CounterInvariant, OneCounterWriterPerHuman
<1>4. CountersExact' /\ RowsOfRegistered'
  BY <1>1 DEF CounterInvariant, CountersExact, RowsOfRegistered
<1>5. OneCounterWriterPerHuman'
  BY <1>1, <1>2, <1>3 DEF CounterInvariant, OneCounterWriterPerHuman
<1>6. CountsOnCourse'
  <2> SUFFICES ASSUME NEW s \in Tx, pc'[s] # "idle"
               PROVE  CountedOnCourse(s, req[s].question, req[s].human)'
    BY DEF CountsOnCourse
  <2>1. CASE s = t
    <3>1. r.question \in Question
      BY DEF Request
    <3> QED
      BY <1>1, <1>2, <1>3, <2>1, <3>1, Marks DEF CountedOnCourse, Replacing, AfterCount
  <2>2. CASE s # t
    <3> DEFINE p == req[s].question
               v == req[s].human
    <3>1. pc[s] # "idle" /\ pc'[s] = pc[s] /\ req'[s] = req[s]
      BY <1>2, <2>2
    <3>2. p \in Question /\ v \in Human /\ Answering(s) /\ CountedOnCourse(s, p, v)
      BY <1>1, <3>1 DEF TypeOK, Request, Answering, CounterInvariant, CountsOnCourse
    <3>3. registrations'[v] # NoRow
      BY <1>1, <3>2 DEF CountedOnCourse
    <3>4. CountedOnCourse(s, p, v)'
      BY <1>1, <3>1, <3>2, <3>3, UndisturbedCounted
    <3> QED
      BY <3>1, <3>4
  <2> QED
    BY <2>1, <2>2
<1> QED
  BY <1>4, <1>5, <1>6 DEF CounterInvariant

\* The counters of a human without rows are zero.
LEMMA NoRowsNoCounts ==
  ASSUME NEW table, NEW u \in Human, \A q \in Question : table[q][u] = NoRow
  PROVE  /\ Cardinality(Answered(table, u)) = 0
         /\ Cardinality(Signalled(table, u)) = 0
<1>1. Answered(table, u) = {}
  BY DEF Answered
<1>2. Signalled(table, u) = {}
  BY TallyAssumption DEF Signalled
<1> QED
  BY <1>1, <1>2, FS_EmptySet

\* upsertRegistration keeps the counters exact: a first registration starts from
\* zero because nobody answers before it, a refresh keeps what was there, and
\* neither goes under a counter that is about to be written.
LEMMA RegisterCounts ==
  ASSUME TallyInvariant, CounterInvariant, NEW u \in Human, Register(u)
  PROVE  CounterInvariant'
<1>1. /\ TypeOK /\ UNCHANGED <<envelopes, lock, pc, req, envWrite, regWrite>>
      /\ registrations' = [registrations EXCEPT ![u] = Upserted(registrations[u])]
      /\ \A s \in Tx : regWrite[s] # Untouched => req[s].human # u
  BY DEF TallyInvariant, Register, writes
<1>2. /\ registrations'[u] # NoRow
      /\ registrations'[u].answers = IF registrations[u] = NoRow THEN 0
                                     ELSE registrations[u].answers
      /\ registrations'[u].signals = IF registrations[u] = NoRow THEN 0
                                     ELSE registrations[u].signals
  <2>1. Upserted(registrations[u]) \in Registration
    BY <1>1 DEF Upserted, Registration, TypeOK
  <2>2. registrations'[u] = Upserted(registrations[u])
    BY <1>1 DEF TypeOK
  <2>3. registrations[u] # NoRow =>
          /\ Upserted(registrations[u]).answers = registrations[u].answers
          /\ Upserted(registrations[u]).signals = registrations[u].signals
    BY <1>1 DEF Upserted, TypeOK, Registration
  <2>4. registrations[u] = NoRow =>
          /\ Upserted(registrations[u]).answers = 0
          /\ Upserted(registrations[u]).signals = 0
    BY DEF Upserted
  <2> QED
    BY <2>1, <2>2, <2>3, <2>4, Marks
<1>3. \A v \in Human : v # u => registrations'[v] = registrations[v]
  BY <1>1 DEF TypeOK
<1>4. CountersExact'
  <2> SUFFICES ASSUME NEW v \in Human, registrations'[v] # NoRow
               PROVE  /\ registrations'[v].answers = Cardinality(Answered(envelopes, v))
                      /\ registrations'[v].signals = Cardinality(Signalled(envelopes, v))
    BY <1>1 DEF CountersExact
  <2>1. CASE registrations[v] # NoRow
    BY <1>2, <1>3, <2>1 DEF CounterInvariant, CountersExact
  <2>2. CASE registrations[v] = NoRow
    <3>1. \A q \in Question : envelopes[q][v] = NoRow
      BY <2>2 DEF CounterInvariant, RowsOfRegistered
    <3>2. /\ Cardinality(Answered(envelopes, v)) = 0
          /\ Cardinality(Signalled(envelopes, v)) = 0
      BY <3>1, NoRowsNoCounts
    <3> QED
      BY <1>2, <1>3, <2>2, <3>2
  <2> QED
    BY <2>1, <2>2
<1>5. RowsOfRegistered'
  BY <1>1, <1>2, <1>3 DEF CounterInvariant, RowsOfRegistered
<1>6. OneCounterWriterPerHuman'
  BY <1>1 DEF CounterInvariant, OneCounterWriterPerHuman
<1>7. CountsOnCourse'
  <2> SUFFICES ASSUME NEW s \in Tx, pc'[s] # "idle"
               PROVE  CountedOnCourse(s, req[s].question, req[s].human)'
    BY DEF CountsOnCourse
  <2> DEFINE p == req[s].question
             v == req[s].human
  <2>1. /\ p \in Question /\ v \in Human /\ pc[s] # "idle"
        /\ Answering(s) /\ CountedOnCourse(s, p, v)
    BY <1>1 DEF TypeOK, Request, Answering, CounterInvariant, CountsOnCourse
  <2>2. registrations'[v] # NoRow
    BY <1>2, <1>3, <2>1 DEF CountedOnCourse
  <2>3. regWrite[s] # Untouched => registrations'[v] = registrations[v]
    BY <1>1, <1>3, <2>1
  <2>4. CountedOnCourse(s, p, v)'
    BY <1>1, <2>1, <2>2, <2>3, UndisturbedCounted
  <2> QED
    BY <1>1, <2>4
<1> QED
  BY <1>4, <1>5, <1>6, <1>7 DEF CounterInvariant

\* The empty store has no counters, and so exact ones.
LEMMA CountersInit == Init => CounterInvariant
BY DEF Init, CounterInvariant, CountersExact, RowsOfRegistered,
       OneCounterWriterPerHuman, CountsOnCourse

\* Every step of the answer store keeps the counters exact.
LEMMA CounterStep == TallyInvariant /\ CounterInvariant /\ [Next]_vars => CounterInvariant'
<1> SUFFICES ASSUME TallyInvariant, CounterInvariant, [Next]_vars
             PROVE  CounterInvariant'
  OBVIOUS
<1>0. TypeOK
  BY DEF TallyInvariant
<1>u. ASSUME UNCHANGED <<envelopes, registrations, pc, req, envWrite, regWrite>>
      PROVE  CounterInvariant'
  BY <1>u DEF CounterInvariant, CountersExact, RowsOfRegistered,
       OneCounterWriterPerHuman, CountsOnCourse, CountedOnCourse, AnswerShift,
       SignalShift, VisibleRows
<1>1. ASSUME NEW q \in Question, Close(q)
      PROVE  CounterInvariant'
  BY <1>1, <1>u DEF Close, tables, writes
<1>2. ASSUME NEW u \in Human, Register(u)
      PROVE  CounterInvariant'
  BY <1>2, RegisterCounts
<1>3. ASSUME NEW t \in Tx, NEW u \in Human, NEW q \in Question, NEW a \in Answer,
             Submit(t, u, q, a)
      PROVE  CounterInvariant'
  <2> DEFINE r == [op |-> "submit", question |-> q, human |-> u, answer |-> a]
  <2>1. r \in Request /\ r.human = u
    BY DEF Request
  <2>2. /\ registrations[r.human] # NoRow /\ pc[t] = "idle"
        /\ req' = [req EXCEPT ![t] = r] /\ Goto(t, "insert")
        /\ UNCHANGED <<open, tables, lock, writes>>
    BY <1>3, <2>1 DEF Submit, Live
  <2> HIDE DEF r
  <2> QED
    BY <2>1, <2>2, BeginCounts
<1>4. ASSUME NEW t \in Tx, NEW u \in Human, NEW q \in Question, Revoke(t, u, q)
      PROVE  CounterInvariant'
  <2> DEFINE r == [op |-> "revoke", question |-> q, human |-> u, answer |-> NoRow]
  <2>1. r \in Request /\ r.human = u /\ r.op = "revoke"
    BY DEF Request
  <2>2. /\ registrations[r.human] # NoRow /\ pc[t] = "idle"
        /\ req' = [req EXCEPT ![t] = r] /\ Goto(t, "lockRevoke")
        /\ UNCHANGED <<open, tables, lock, writes>>
    BY <1>4, <2>1 DEF Revoke, Live
  <2> HIDE DEF r
  <2> QED
    BY <2>1, <2>2, BeginCounts
<1>5. ASSUME NEW t \in Tx, Step(t)
      PROVE  CounterInvariant'
  <2>1. req[t].question \in Question /\ req[t].human \in Human
    BY <1>0, <1>5 DEF Step, TypeOK, Request
  <2> QED
    BY <1>5, <2>1, StatementCounts, CommitCounts DEF Step
<1>6. ASSUME NEW t \in Tx, Abort(t)
      PROVE  CounterInvariant'
  BY <1>6, AbortCounts
<1>7. CASE UNCHANGED vars
  BY <1>7, <1>u DEF vars, tables, writes
<1> QED
  BY <1>1, <1>2, <1>3, <1>4, <1>5, <1>6, <1>7 DEF Next

-----------------------------------------------------------------------------
(* Settled questions.                                                      *)

\* A step of a request either changes no stored answer or is the commit of its
\* request.
LEMMA StepsOnAnswers ==
  ASSUME TypeOK, [Next]_vars
  PROVE  \/ envelopes' = envelopes
         \/ \E t \in Tx : Commit(t)
<1>1. ASSUME NEW t \in Tx, Step(t), ~Commit(t)
      PROVE  envelopes' = envelopes
  <2>1. req[t].question \in Question /\ req[t].human \in Human
    BY <1>1 DEF Step, TypeOK, Request
  <2> QED
    BY <1>1, <2>1, TypedParts, StatementFrame DEF Step, OnlyOf
<1>2. CASE UNCHANGED vars
  BY <1>2 DEF vars, tables
<1>3. ASSUME NEW t \in Tx, Abort(t)
      PROVE  envelopes' = envelopes
  BY <1>3 DEF Abort, tables
<1>4. CASE \/ \E q \in Question : Close(q)
           \/ \E u \in Human : Register(u)
  BY <1>4 DEF Close, Register, tables
<1>5. CASE \E t \in Tx, u \in Human, q \in Question :
             (\E a \in Answer : Submit(t, u, q, a)) \/ Revoke(t, u, q)
  BY <1>5 DEF Submit, Revoke, tables
<1> QED
  BY <1>1, <1>2, <1>3, <1>4, <1>5 DEF Next

\* No step opens a question, and a request that a step brings in is a revocation
\* or is about an open question.
LEMMA StepsOnRequests ==
  ASSUME TypeOK, [Next]_vars
  PROVE  /\ \A q \in Question : open'[q] => open[q]
         /\ \A t \in Tx : pc'[t] # "idle" =>
              \/ pc[t] # "idle" /\ req'[t] = req[t]
              \/ req'[t].op = "revoke"
              \/ open[req'[t].question]
<1> DEFINE Goal == /\ \A q \in Question : open'[q] => open[q]
                   /\ \A t \in Tx : pc'[t] # "idle" =>
                        \/ pc[t] # "idle" /\ req'[t] = req[t]
                        \/ req'[t].op = "revoke"
                        \/ open[req'[t].question]
<1>1. ASSUME NEW q \in Question, Close(q)
      PROVE  Goal
  BY <1>1 DEF Close, TypeOK
<1>2. ASSUME NEW u \in Human, Register(u)
      PROVE  Goal
  BY <1>2 DEF Register
<1>3. ASSUME NEW t \in Tx, NEW u \in Human, NEW q \in Question, NEW a \in Answer,
             Submit(t, u, q, a)
      PROVE  Goal
  BY <1>3 DEF Submit, Goto, TypeOK
<1>4. ASSUME NEW t \in Tx, NEW u \in Human, NEW q \in Question, Revoke(t, u, q)
      PROVE  Goal
  BY <1>4 DEF Revoke, Goto, TypeOK
<1>5. ASSUME NEW t \in Tx, Step(t)
      PROVE  Goal
  <2>1. req[t].question \in Question /\ req[t].human \in Human /\ pc[t] # "idle"
    BY <1>5 DEF Step, TypeOK, Request
  <2>2. CASE Commit(t)
    BY <2>2 DEF Commit, Release, Goto, TypeOK
  <2>3. CASE ~Commit(t)
    <3>1. OnlyOf(t)
      BY <1>5, <2>1, <2>3, TypedParts, StatementFrame DEF Step
    <3> QED
      BY <2>1, <3>1 DEF OnlyOf
  <2> QED
    BY <2>2, <2>3
<1>6. ASSUME NEW t \in Tx, Abort(t)
      PROVE  Goal
  BY <1>6 DEF Abort, Release, Goto, TypeOK
<1>7. CASE UNCHANGED vars
  BY <1>7 DEF vars
<1> QED
  BY <1>1, <1>2, <1>3, <1>4, <1>5, <1>6, <1>7 DEF Next

\* What is settled stays settled, and then only withdrawals commit.
LEMMA SettledStep ==
  ASSUME TallyInvariant, CounterInvariant, [Next]_vars, NEW q \in Question, Settled(q)
  PROVE  /\ Settled(q)'
         /\ \A u \in Human : envelopes'[q][u] \in {envelopes[q][u], NoRow}
<1>1. TypeOK
  BY DEF TallyInvariant
<1>2. Settled(q)'
  <2>1. ~open'[q]
    BY <1>1, StepsOnRequests DEF Settled
  <2>2. ASSUME NEW t \in Tx, pc'[t] # "idle", req'[t].op = "submit"
        PROVE  req'[t].question # q
    BY <1>1, <2>2, StepsOnRequests DEF Settled
  <2> QED
    BY <2>1, <2>2 DEF Settled
<1>3. ASSUME NEW t \in Tx, Commit(t), NEW u \in Human
      PROVE  envelopes'[q][u] \in {envelopes[q][u], NoRow}
  <2> DEFINE p == req[t].question
             v == req[t].human
  <2>1. p \in Question /\ v \in Human /\ req[t].op \in {"submit", "revoke"} /\ pc[t] # "idle"
    BY <1>1, <1>3 DEF Commit, TypeOK, Request
  <2>2. /\ \A r \in Question \ {p} : envelopes'[r] = envelopes[r]
        /\ envelopes'[p] = VisibleRows(t, p)
    BY <1>3, <2>1, CommitFrame
  <2>3. CASE p # q
    BY <2>2, <2>3
  <2>4. CASE p = q
    <3>1. req[t].op = "revoke"
      BY <2>1, <2>4 DEF Settled
    <3>2. envWrite[t][q] \in {Untouched, NoRow}
      BY <2>1, <2>4, <3>1 DEF TallyInvariant, RequestsOnCourse, OnCourse, RowOnCourse
    <3> QED
      BY <2>2, <2>4, <3>2 DEF VisibleRows
  <2> QED
    BY <2>3, <2>4
<1> QED
  BY <1>1, <1>2, <1>3, StepsOnAnswers

-----------------------------------------------------------------------------
(* The ballot box.                                                         *)

\* The credit the ballot box sees: the counters of a registered human.
CreditSeen(u) == IF registrations[u] = NoRow THEN NoRow
                 ELSE [answers |-> registrations[u].answers,
                       signals |-> registrations[u].signals]

\* The box is the store's tables, and its definitions are those of Tally.
LEMMA BoxReads ==
  /\ Box!vars = <<envelopes, aggregates, [u \in Human |-> CreditSeen(u)]>>
  /\ \A table, u : Box!CreditOf(table, u) =
        [answers |-> Cardinality(Answered(table, u)),
         signals |-> Cardinality(Signalled(table, u))]
  /\ \A rows : Box!TallyOf(rows) = TallyOf(rows)
<1>1. Box!vars = <<envelopes, aggregates, [u \in Human |-> CreditSeen(u)]>>
  BY DEF Box!vars, CreditSeen
<1>2. \A S : Box!Cardinality(S) = Cardinality(S)
  BY Zenon DEF Box!Cardinality, Cardinality
<1>3. \A table, u : Box!CreditOf(table, u) =
        [answers |-> Cardinality(Answered(table, u)),
         signals |-> Cardinality(Signalled(table, u))]
  BY <1>2, Zenon DEF Box!CreditOf, Box!Answered, Box!Signalled, Answered, Signalled
<1>4. \A rows : Box!TallyOf(rows) = TallyOf(rows)
  BY <1>2, Zenon
     DEF Box!TallyOf, Box!Voters, Box!VotersFor, TallyOf, Voters, VotersFor
<1> QED
  BY <1>1, <1>3, <1>4

\* The empty store is the empty box.
LEMMA BoxInit == Init => Box!Init
<1> SUFFICES ASSUME Init
             PROVE  Box!Init
  OBVIOUS
<1>1. \A u \in Human : registrations[u] = NoRow
  BY DEF Init
<1> QED
  BY <1>1 DEF Init, Box!Init

\* A step of the store that moves neither the answers nor the published counts
\* nor a counter is none of the box.
LEMMA BoxStutter ==
  ASSUME UNCHANGED <<envelopes, aggregates>>,
         \A u \in Human : CreditSeen(u)' = CreditSeen(u)
  PROVE  UNCHANGED Box!vars
<1>1. [u \in Human |-> CreditSeen(u)]' = [u \in Human |-> CreditSeen(u)]
  <2>1. [u \in Human |-> CreditSeen(u)]' = [u \in Human |-> CreditSeen(u)']
    OBVIOUS
  <2> QED
    BY <2>1
<1> QED
  BY <1>1 DEF Box!vars, CreditSeen

\* Counters that are exact are the credit of the answers in the box.
LEMMA CreditIsExact ==
  ASSUME TypeOK, CountersExact, NEW u \in Human, registrations[u] # NoRow
  PROVE  /\ CreditSeen(u) = Box!CreditOf(envelopes, u)
         /\ CreditSeen(u) # NoRow
<1>1. CreditSeen(u) = Box!CreditOf(envelopes, u)
  BY BoxReads DEF CreditSeen, CountersExact
<1>2. CreditSeen(u) \in Credit
  BY DEF CreditSeen, TypeOK, Registration, Credit
<1> QED
  BY <1>1, <1>2, TallyAssumption

\* When the counters of one human move, so does the credit of that human alone.
LEMMA BoxCredit ==
  ASSUME NEW u \in Human,
         \A v \in Human : v # u => registrations'[v] = registrations[v]
  PROVE  [v \in Human |-> CreditSeen(v)']
           = [[v \in Human |-> CreditSeen(v)] EXCEPT ![u] = CreditSeen(u)']
<1>1. \A v \in Human : v # u => CreditSeen(v)' = CreditSeen(v)
  BY DEF CreditSeen
<1> HIDE DEF CreditSeen
<1> DEFINE now(v) == CreditSeen(v)
           next(v) == CreditSeen(v)'
<1>2. \A v \in Human : v # u => next(v) = now(v)
  BY <1>1
<1> HIDE DEF now, next
<1>3. [v \in Human |-> next(v)] = [[v \in Human |-> now(v)] EXCEPT ![u] = next(u)]
  BY <1>2
<1> QED
  BY <1>3 DEF now, next

\* A first registration enrolls; a refresh is no step of the box.
LEMMA BoxRegister ==
  ASSUME TallyInvariant, CounterInvariant, NEW u \in Human, Register(u)
  PROVE  [Box!Next]_(Box!vars)
<1>1. /\ TypeOK /\ UNCHANGED <<envelopes, aggregates>>
      /\ registrations' = [registrations EXCEPT ![u] = Upserted(registrations[u])]
  BY DEF TallyInvariant, Register
<1>2. /\ registrations'[u] = Upserted(registrations[u])
      /\ \A v \in Human : v # u => registrations'[v] = registrations[v]
  BY <1>1 DEF TypeOK
<1>3. CASE registrations[u] # NoRow
  <2>1. Upserted(registrations[u]) \in Registration
    BY <1>1, <1>3 DEF Upserted, Registration, TypeOK
  <2>2. /\ Upserted(registrations[u]).answers = registrations[u].answers
        /\ Upserted(registrations[u]).signals = registrations[u].signals
    BY <1>1, <1>3 DEF Upserted, Registration, TypeOK
  <2>3. CreditSeen(u)' = CreditSeen(u)
    BY <1>2, <1>3, <2>1, <2>2, Marks DEF CreditSeen
  <2>4. \A v \in Human : CreditSeen(v)' = CreditSeen(v)
    BY <1>2, <2>3 DEF CreditSeen
  <2> QED
    BY <1>1, <2>4, BoxStutter
<1>4. CASE registrations[u] = NoRow
  <2>1. \A q \in Question : envelopes[q][u] = NoRow
    BY <1>4 DEF CounterInvariant, RowsOfRegistered
  <2>2. /\ Cardinality(Answered(envelopes, u)) = 0
        /\ Cardinality(Signalled(envelopes, u)) = 0
    BY <2>1, NoRowsNoCounts
  <2>3. Box!CreditOf(envelopes, u) = [answers |-> 0, signals |-> 0]
    BY <2>2, BoxReads
  <2>4. Upserted(registrations[u]) \in Registration
    BY <1>4 DEF Upserted, Registration
  <2>5. CreditSeen(u)' = [answers |-> 0, signals |-> 0]
    <3>1. /\ Upserted(registrations[u]).answers = 0
          /\ Upserted(registrations[u]).signals = 0
      BY <1>4 DEF Upserted
    <3>2. registrations'[u] # NoRow
      BY <1>2, <2>4, Marks
    <3> QED
      BY <1>2, <3>1, <3>2 DEF CreditSeen
  <2>6. [v \in Human |-> CreditSeen(v)']
          = [[v \in Human |-> CreditSeen(v)] EXCEPT ![u] = Box!CreditOf(envelopes, u)]
    BY <1>2, <2>3, <2>5, BoxCredit
  <2>7. CreditSeen(u) = NoRow
    BY <1>4 DEF CreditSeen
  <2>8. Box!Enroll(u)
    BY <1>1, <2>6, <2>7 DEF Box!Enroll, CreditSeen
  <2> QED
    BY <2>8 DEF Box!Next
<1> QED
  BY <1>3, <1>4

\* COMMIT casts or withdraws the ballot of its request, or is no step of the box.
LEMMA BoxCommit ==
  ASSUME TallyInvariant, CounterInvariant, NEW t \in Tx, Commit(t),
         NEW q \in Question, NEW u \in Human, q = req[t].question, u = req[t].human
  PROVE  [Box!Next]_(Box!vars)
<1> SUFFICES ASSUME NEW b, b = envWrite[t][q]
             PROVE  [Box!Next]_(Box!vars)
  OBVIOUS
<1>1. /\ TypeOK /\ TypeOK'
      /\ AggregatesExact /\ AggregatesExact' /\ CountersExact /\ CountersExact'
  BY CommitKeeps, CommitCounts DEF TallyInvariant, CounterInvariant
<1>2. q \in Question /\ u \in Human
  OBVIOUS
<1>3. /\ CountedOnCourse(t, q, u)
      /\ \A p \in Question \ {q} : envelopes'[p] = envelopes[p]
      /\ envelopes'[q] = VisibleRows(t, q)
      /\ \A v \in Human : v # u => registrations'[v] = registrations[v]
      /\ registrations'[u] = IF regWrite[t] = Untouched THEN registrations[u]
                              ELSE regWrite[t]
  BY <1>2, CommitFrame
<1>4. registrations[u] # NoRow /\ registrations'[u] # NoRow
  BY <1>3 DEF CountedOnCourse
<1>5. \A p \in Question : envelopes'[p] = envelopes[p] => aggregates'[p] = aggregates[p]
  BY <1>1 DEF AggregatesExact
<1>6. CreditSeen(u)' = Box!CreditOf(envelopes', u)
  <2>1. /\ registrations'[u].answers = Cardinality(Answered(envelopes', u))
        /\ registrations'[u].signals = Cardinality(Signalled(envelopes', u))
    BY <1>1, <1>2, <1>4 DEF CountersExact
  <2>2. CreditSeen(u)' = [answers |-> registrations'[u].answers,
                          signals |-> registrations'[u].signals]
    BY <1>4 DEF CreditSeen
  <2> QED
    BY <2>1, <2>2, BoxReads
<1>7. CreditSeen(u) = Box!CreditOf(envelopes, u) /\ CreditSeen(u) # NoRow
  BY <1>1, <1>2, <1>4, CreditIsExact
<1>8. CASE b = Untouched
  <2>1. envelopes'[q] = envelopes[q]
    BY <1>1, <1>2, <1>3, <1>8, TypedParts, RowsWithoutWrite
  <2>2. envelopes' = envelopes
    BY <1>1, <1>2, <1>3, <2>1 DEF TypeOK
  <2>3. aggregates' = aggregates
    BY <1>1, <1>5, <2>2 DEF TypeOK
  <2>4. \A v \in Human : CreditSeen(v)' = CreditSeen(v)
    BY <1>3, <1>6, <1>7, <2>2 DEF CreditSeen
  <2> QED
    BY <2>2, <2>3, <2>4, BoxStutter
<1>9. CASE b # Untouched
  <2>1. b \in Answer \cup {NoRow}
    BY <1>1, <1>2, <1>9 DEF TypeOK
  <2>2. envelopes' = [envelopes EXCEPT ![q][u] = b]
    <3>1. envelopes'[q] = [envelopes[q] EXCEPT ![u] = b]
      BY <1>1, <1>2, <1>3, <1>9, TypedParts, RowsWithInsert
    <3> QED
      BY <1>1, <1>2, <1>3, <3>1 DEF TypeOK
  <2>3. aggregates' = [aggregates EXCEPT ![q] = Box!TallyOf(envelopes'[q])]
    <3>1. aggregates'[q] = Box!TallyOf(envelopes'[q])
      BY <1>1, <1>2, BoxReads DEF AggregatesExact
    <3> QED
      BY <1>1, <1>2, <1>3, <1>5, <3>1 DEF TypeOK
  <2>4. [v \in Human |-> CreditSeen(v)']
          = [[v \in Human |-> CreditSeen(v)] EXCEPT ![u] = Box!CreditOf(envelopes', u)]
    BY <1>2, <1>3, <1>6, BoxCredit
  <2>5. Box!SetBallot(q, u, b)
    BY <1>2, <1>7, <2>2, <2>3, <2>4 DEF Box!SetBallot, CreditSeen
  <2>6. b = NoRow => envelopes[q][u] # NoRow
    BY <1>3 DEF CountedOnCourse
  <2>7. \/ \E a \in Answer : Box!Cast(q, u, a)
        \/ Box!Withdraw(q, u)
    <3>1. CASE b \in Answer
      <4>1. Box!Cast(q, u, b)
        BY <2>5, <3>1 DEF Box!Cast
      <4> QED
        BY <3>1, <4>1, Zenon
    <3>2. CASE b = NoRow
      <4>1. Box!SetBallot(q, u, NoRow)
        BY <2>5, <3>2
      <4> QED
        BY <2>6, <3>2, <4>1 DEF Box!Withdraw
    <3> QED
      BY <2>1, <3>1, <3>2
  <2> QED
    BY <2>7, Zenon DEF Box!Next
<1> QED
  BY <1>8, <1>9

\* Every step of the store is a step of the box or none.
LEMMA BoxStep ==
  TallyInvariant /\ CounterInvariant /\ [Next]_vars => [Box!Next]_(Box!vars)
<1> SUFFICES ASSUME TallyInvariant, CounterInvariant, [Next]_vars
             PROVE  [Box!Next]_(Box!vars)
  OBVIOUS
<1>0. TypeOK
  BY DEF TallyInvariant
<1>u. ASSUME UNCHANGED <<envelopes, aggregates, registrations>>
      PROVE  [Box!Next]_(Box!vars)
  BY <1>u, BoxStutter DEF CreditSeen
<1>1. ASSUME NEW q \in Question, Close(q)
      PROVE  [Box!Next]_(Box!vars)
  BY <1>1, <1>u DEF Close, tables
<1>2. ASSUME NEW u \in Human, Register(u)
      PROVE  [Box!Next]_(Box!vars)
  BY <1>2, BoxRegister
<1>3. ASSUME NEW t \in Tx, NEW u \in Human, NEW q \in Question,
             (\E a \in Answer : Submit(t, u, q, a)) \/ Revoke(t, u, q)
      PROVE  [Box!Next]_(Box!vars)
  BY <1>3, <1>u DEF Submit, Revoke, tables
<1>4. ASSUME NEW t \in Tx, Step(t)
      PROVE  [Box!Next]_(Box!vars)
  <2>0. req[t].question \in Question /\ req[t].human \in Human
    BY <1>0, <1>4 DEF Step, TypeOK, Request
  <2>1. CASE Commit(t)
    BY <2>0, <2>1, BoxCommit
  <2>2. CASE ~Commit(t)
    <3>1. OnlyOf(t)
      BY <1>0, <1>4, <2>0, <2>2, TypedParts, StatementFrame DEF Step
    <3> QED
      BY <3>1, <1>u DEF OnlyOf
  <2> QED
    BY <2>1, <2>2
<1>5. ASSUME NEW t \in Tx, Abort(t)
      PROVE  [Box!Next]_(Box!vars)
  BY <1>5, <1>u DEF Abort, tables
<1>6. CASE UNCHANGED vars
  BY <1>6, <1>u DEF vars, tables
<1> QED
  BY <1>1, <1>2, <1>3, <1>4, <1>5, <1>6 DEF Next

-----------------------------------------------------------------------------
(* The theorems.                                                           *)

\* The inductive invariant holds for any number of concurrent requests.
THEOREM StoreIsInvariant == Spec => []StoreInvariant
<1>1. Init => StoreInvariant
  BY TallyInit, CountersInit DEF StoreInvariant
<1>2. StoreInvariant /\ [Next]_vars => StoreInvariant'
  BY TallyStep, CounterStep DEF StoreInvariant
<1> QED
  BY <1>1, <1>2, PTL DEF Spec

\* Every table, workspace and lock keeps its type: no transaction ever bumps,
\* publishes or commits an aggregate that is not there.
THEOREM TypeCorrect == Spec => []TypeOK
<1>1. StoreInvariant => TypeOK
  BY DEF StoreInvariant, TallyInvariant
<1> QED
  BY <1>1, StoreIsInvariant, PTL

\* The counts an asker reads are those of the stored answers in every committed
\* state, however submits and revocations interleave and wherever they abort
\* (routes/envelopes.ts, routes/revocations.ts, incrementAggregate and
\* recomputeAggregate of queries.ts).
THEOREM AggregatesStayExact == Spec => []AggregatesExact
<1>1. StoreInvariant => AggregatesExact
  BY DEF StoreInvariant, TallyInvariant
<1> QED
  BY <1>1, StoreIsInvariant, PTL

\* The DUPLICATE outcome of the submit handler is dead code: the second INSERT
\* of a submit never finds a committed row.
THEOREM DuplicateIsDead == Spec => []DuplicateNeverReturned
<1>1. StoreInvariant => DuplicateNeverReturned
  BY DEF StoreInvariant, TallyInvariant, RequestsOnCourse, OnCourse, RowOnCourse, TallyOnCourse, DuplicateNeverReturned
<1> QED
  BY <1>1, StoreIsInvariant, PTL

\* The counters that unlock asking are the number of each human's stored answers
\* and of those with an opinion, in every committed state: no increment of
\* adjustAnswerCounters is lost, doubled or clamped away by GREATEST(.., 0).
THEOREM CountersStayExact == Spec => []CountersExact
<1>1. StoreInvariant => CountersExact
  BY DEF StoreInvariant, CounterInvariant
<1> QED
  BY <1>1, StoreIsInvariant, PTL

\* After a question is closed and the submits under way are through, its stored
\* answers only shrink (the status check of routes/envelopes.ts and the
\* transactions behind it).
THEOREM SettledAnswersOnlyShrink == Spec => SettledOnlyShrinks
<1>1. StoreInvariant /\ [Next]_vars =>
        [\A q \in Question :
           Settled(q) => /\ Settled(q)'
                         /\ \A u \in Human :
                              envelopes'[q][u] \in {envelopes[q][u], NoRow}]_vars
  BY SettledStep DEF StoreInvariant
<1> QED
  BY <1>1, StoreIsInvariant, PTL DEF Spec, SettledOnlyShrinks

\* The answer store implements the ballot box: its transactions of many
\* statements are, for whoever reads the tables, single casts and withdrawals
\* that publish the exact counts and counters with the ballot.
THEOREM StoreImplementsBallotBox == Spec => ImplementsBallotBox
<1>1. StoreInvariant /\ [Next]_vars => [Box!Next]_(Box!vars)
  BY BoxStep DEF StoreInvariant
<1> QED
  BY <1>1, BoxInit, StoreIsInvariant, PTL DEF Spec, Box!Spec, ImplementsBallotBox
=============================================================================
