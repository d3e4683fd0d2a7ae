------------------------- MODULE AnswerWaits_proofs -------------------------
(***************************************************************************)
(* Who can wait for whom in the answer store, for any number of requests:  *)
(* a cycle of waiting transactions goes through the second INSERT of a     *)
(* submit whose row was withdrawn.                                         *)
(*                                                                         *)
(* The argument.  The statements take the row, the lock of the question,   *)
(* the aggregate and the registration in this order, and the two that do   *)
(* not, the overriding SELECT .. FOR UPDATE and the DELETE, meet a         *)
(* committed row, which no other transaction can have written without the  *)
(* lock they hold.  So a wait goes down in rank, unless it is the retry's  *)
(* or for a retry; and a chain of waits goes down all the way or passes    *)
(* through a retry.                                                        *)
(***************************************************************************)
EXTENDS AnswerWaits, AnswerStore_proofs

\* What the invariant says of a request, and of the other one that has written
\* a row, an aggregate or a registration.
LEMMA WriterStages ==
  ASSUME StoreInvariant, NEW s \in Tx
  PROVE  /\ \A q \in Question :
              /\ envWrite[s][q] # Untouched =>
                   /\ pc[s] \notin BeforeRow \cup {"idle"}
                   /\ req[s].question = q
              /\ aggWrite[s][q] # Untouched =>
                   /\ pc[s] \in Counted \cup {"writeAggregate"}
                   /\ lock[q] = s
         /\ regWrite[s] # Untouched => pc[s] \in AfterCount
<1>1. pc[s] # "idle" => OnCourse(s, req[s].question, req[s].human)
  BY DEF StoreInvariant, TallyInvariant, RequestsOnCourse
<1>2. \A q \in Question : pc[s] = "idle" \/ q # req[s].question =>
        envWrite[s][q] = Untouched /\ aggWrite[s][q] = Untouched
  BY DEF StoreInvariant, TallyInvariant, WritesOwnQuestion
<1>3. pc[s] = "idle" => regWrite[s] = Untouched
  BY DEF StoreInvariant, CounterInvariant, OneCounterWriterPerHuman
<1>4. pc[s] # "idle" => CountedOnCourse(s, req[s].question, req[s].human)
  BY DEF StoreInvariant, CounterInvariant, CountsOnCourse
<1>5. ASSUME NEW q \in Question, aggWrite[s][q] # Untouched
      PROVE  pc[s] \in Counted \cup {"writeAggregate"} /\ lock[q] = s
  <2>1. pc[s] \in Counted \cup {"writeAggregate"} /\ pc[s] # "idle" /\ req[s].question = q
    BY <1>1, <1>2, <1>5 DEF OnCourse, RowOnCourse
  <2>2. pc[s] \in Holding
    BY <2>1 DEF Counted, Holding, Stage
  <2> QED
    BY <1>1, <2>1, <2>2 DEF OnCourse, RowOnCourse
<1>6. ASSUME NEW q \in Question, envWrite[s][q] # Untouched
      PROVE  pc[s] \notin BeforeRow \cup {"idle"} /\ req[s].question = q
  BY <1>1, <1>2, <1>6 DEF OnCourse, RowOnCourse
<1>7. regWrite[s] # Untouched => pc[s] \in AfterCount
  BY <1>3, <1>4 DEF CountedOnCourse
<1> QED
  BY <1>5, <1>6, <1>7

\* Who waits for a row, holding the lock of its question, waits for nobody when
\* the row is there.
LEMMA CommittedRowIsFree ==
  ASSUME StoreInvariant, NEW t \in Tx, NEW q \in Question, NEW u \in Human,
         q = req[t].question, u = req[t].human,
         pc[t] \in {"override", "delete"}, envelopes[q][u] # NoRow
  PROVE  ~RowBusy(t, q, u)
<1> SUFFICES ASSUME NEW s \in Tx \ {t}, envWrite[s][q] # Untouched, req[s].human = u
             PROVE  FALSE
  BY DEF RowBusy
<1>1. lock[q] = t
  BY DEF StoreInvariant, TallyInvariant, RequestsOnCourse, OnCourse, RowOnCourse, Holding, Stage
<1>2. pc[s] \notin BeforeRow \cup {"idle"} /\ req[s].question = q /\ pc[s] \in Stage
  BY WriterStages DEF StoreInvariant, TallyInvariant, TypeOK
<1>3. OnCourse(s, q, u)
  BY <1>2 DEF StoreInvariant, TallyInvariant, RequestsOnCourse
<1>4. pc[s] \notin Holding
  BY <1>1, <1>3 DEF OnCourse, RowOnCourse
<1>5. pc[s] = "lockIncrement"
  BY <1>2, <1>4 DEF Holding, BeforeRow, Stage
<1> QED
  BY <1>3, <1>5 DEF OnCourse, RowOnCourse, Inserting

\* A wait goes down in rank, or is the retry's, or for a retry.
LEMMA WaitGoesDown ==
  ASSUME WaitInvariant, NEW t \in Tx, NEW s \in Blockers(t)
  PROVE  /\ s \in Tx
         /\ WaitRank(s) < WaitRank(t) \/ "retryInsert" \in {pc[s], pc[t]}
<1>1. /\ StoreInvariant /\ TypeOK
      /\ pc[t] # "idle" => req[t].question \in Question /\ req[t].human \in Human
  BY DEF WaitInvariant, StoreInvariant, TallyInvariant, TypeOK, Request
<1>2. pc[t] # "idle"
  BY DEF Blockers
<1> PICK q \in Question, u \in Human : q = req[t].question /\ u = req[t].human
  BY <1>1, <1>2
<1>3. OnCourse(t, q, u)
  BY <1>1, <1>2 DEF StoreInvariant, TallyInvariant, RequestsOnCourse
<1>4. WaitRank(s) \in {0, 1, 2, 3} /\ (WaitRank(s) = 3 => pc[s] = "insert")
  BY DEF WaitRank
<1>5. CASE pc[t] \in {"insert", "retryInsert"}
  <2>1. s \in Tx /\ envWrite[s][q] # Untouched
    BY <1>5 DEF Blockers
  <2>2. pc[s] # "insert"
    BY <1>1, <2>1, WriterStages DEF BeforeRow
  <2> QED
    BY <1>4, <1>5, <2>1, <2>2 DEF WaitRank, LockStage, CountStage
<1>6. CASE pc[t] \in {"override", "delete"}
  <2>1. /\ envelopes[q][u] # NoRow /\ s \in Tx \ {t}
        /\ envWrite[s][q] # Untouched /\ req[s].human = u
    BY <1>6 DEF Blockers
  <2> QED
    BY <1>1, <1>6, <2>1, CommittedRowIsFree DEF RowBusy
<1>7. CASE pc[t] \in LockStage
  <2>1. s = lock[q] /\ s # NoTx /\ s # t /\ s \in Tx
    BY <1>1, <1>7 DEF Blockers, LockStage, TypeOK
  <2>2. pc[s] # "insert" /\ req[s].question = q
    BY <2>1 DEF WaitInvariant, HoldersAsked
  <2>3. WaitRank(s) \in {0, 1}
    BY <2>1, <2>2 DEF WaitRank
  <2>4. WaitRank(t) = 2
    BY <1>7, <2>1 DEF WaitRank, LockStage, CountStage
  <2> QED
    BY <2>1, <2>3, <2>4
<1>8. CASE pc[t] \in {"readAggregate", "writeAggregate", "rebuild"}
  <2>1. s \in Tx \ {t} /\ aggWrite[s][q] # Untouched
    BY <1>8 DEF Blockers
  <2>2. lock[q] = t
    BY <1>3, <1>8 DEF OnCourse, RowOnCourse, Holding, Stage
  <2> QED
    BY <1>1, <2>1, <2>2, WriterStages
<1>9. CASE pc[t] \in CountStage
  <2>1. s \in Tx \ {t} /\ regWrite[s] # Untouched
    BY <1>9 DEF Blockers, CountStage
  <2>2. pc[s] \in AfterCount
    BY <1>1, <2>1, WriterStages
  <2>3. WaitRank(s) = 0
    BY <2>2 DEF WaitRank, AfterCount, LockStage, CountStage
  <2>4. WaitRank(t) = 1
    BY <1>9 DEF WaitRank, CountStage, LockStage
  <2> QED
    BY <2>1, <2>3, <2>4
<1> QED
  BY <1>5, <1>6, <1>7, <1>8, <1>9 DEF Blockers, LockStage, CountStage

\* The blockers of a transaction, and what a transaction waited for waits for,
\* are waited for.
LEMMA ChainsOfWaits ==
  ASSUME \A t \in Tx : Blockers(t) \subseteq Tx, NEW t \in Tx
  PROVE  /\ Blockers(t) \subseteq Waits(t)
         /\ \A s \in Waits(t) : Blockers(s) \subseteq Waits(t)
BY DEF Waits, Closed

\* A chain of waits goes down, or passes through a retry.
LEMMA ChainGoesDown ==
  ASSUME WaitInvariant, NEW t \in Tx, NEW x \in Waits(t)
  PROVE  \/ WaitRank(x) < WaitRank(t)
         \/ \E r \in Tx : /\ pc[r] = "retryInsert"
                          /\ r = t \/ r \in Waits(t)
                          /\ x = r \/ x \in Waits(r)
<1> DEFINE Through(s) == \E r \in Tx : /\ pc[r] = "retryInsert"
                                       /\ r = t \/ r \in Waits(t)
                                       /\ s = r \/ s \in Waits(r)
           C == {s \in Waits(t) : WaitRank(s) < WaitRank(t) \/ Through(s)}
<1>1. \A s \in Tx : /\ Blockers(s) \subseteq Tx
                    /\ \A b \in Blockers(s) :
                         WaitRank(b) < WaitRank(s) \/ "retryInsert" \in {pc[b], pc[s]}
  BY WaitGoesDown
<1>2. \A s \in Tx : WaitRank(s) \in Nat
  BY DEF WaitRank
<1>3. /\ Waits(t) \subseteq Tx
      /\ \A s \in Tx : /\ Blockers(s) \subseteq Waits(s)
                       /\ \A b \in Waits(s) : Blockers(b) \subseteq Waits(s)
  BY <1>1, ChainsOfWaits DEF Waits
<1>4. C \in SUBSET Tx
  BY <1>3
<1>5. Blockers(t) \subseteq C
  <2> SUFFICES ASSUME NEW b \in Blockers(t)
               PROVE  WaitRank(b) < WaitRank(t) \/ Through(b)
    BY <1>3
  <2>1. b \in Tx /\ b \in Waits(t)
    BY <1>1, <1>3
  <2> QED
    BY <1>1, <2>1
<1>6. Closed(C)
  <2> SUFFICES ASSUME NEW s \in C, NEW b \in Blockers(s)
               PROVE  b \in C
    BY DEF Closed
  <2>1. s \in Tx /\ b \in Tx /\ s \in Waits(t) /\ b \in Waits(t)
    BY <1>1, <1>3
  <2>2. CASE Through(s)
    <3>1. PICK r \in Tx : /\ pc[r] = "retryInsert"
                          /\ r = t \/ r \in Waits(t)
                          /\ s = r \/ s \in Waits(r)
      BY <2>2
    <3>2. b \in Waits(r)
      BY <1>3, <3>1
    <3> QED
      BY <2>1, <3>1, <3>2
  <2>3. CASE pc[s] = "retryInsert"
    <3>1. b \in Waits(s)
      BY <1>3, <2>1
    <3> QED
      BY <2>1, <2>3, <3>1
  <2>4. CASE pc[b] = "retryInsert"
    BY <2>1, <2>4
  <2>5. CASE WaitRank(s) < WaitRank(t) /\ WaitRank(b) < WaitRank(s)
    <3>1. WaitRank(b) < WaitRank(t)
      BY <1>2, <2>1, <2>5
    <3> QED
      BY <2>1, <3>1
  <2> QED
    BY <1>1, <2>1, <2>2, <2>3, <2>4, <2>5
<1>7. x \in C
  BY <1>4, <1>5, <1>6 DEF Waits
<1> QED
  BY <1>7

\* The lock is taken by who asks for it, for its own question.
LEMMA HoldersStep ==
  ASSUME StoreInvariant, HoldersAsked, [Next]_vars
  PROVE  HoldersAsked'
<1>1. TypeOK
  BY DEF StoreInvariant, TallyInvariant
<1> SUFFICES ASSUME NEW q \in Question, lock'[q] # NoTx
             PROVE  /\ pc'[lock'[q]] \notin {"idle", "insert"}
                    /\ req'[lock'[q]].question = q
  BY DEF HoldersAsked
<1>2. ASSUME UNCHANGED <<lock, pc, req>>
      PROVE  /\ pc'[lock'[q]] \notin {"idle", "insert"}
             /\ req'[lock'[q]].question = q
  BY <1>2 DEF HoldersAsked
<1>3. ASSUME NEW t \in Tx, Release(t)
      PROVE  /\ pc'[lock'[q]] \notin {"idle", "insert"}
             /\ req'[lock'[q]].question = q
  <2>1. lock'[q] = lock[q] /\ lock[q] # t
    BY <1>3, StoreAssumption DEF Release
  <2> QED
    BY <1>1, <1>3, <2>1 DEF Release, Goto, HoldersAsked, TypeOK
<1>4. ASSUME NEW t \in Tx, pc[t] = "idle", NEW r, NEW stage, lock' = lock,
             req' = [req EXCEPT ![t] = r], Goto(t, stage)
      PROVE  /\ pc'[lock'[q]] \notin {"idle", "insert"}
             /\ req'[lock'[q]].question = q
  <2>1. lock[q] # t
    BY <1>4 DEF HoldersAsked
  <2> QED
    BY <1>1, <1>4, <2>1 DEF Goto, HoldersAsked, TypeOK
<1>5. ASSUME NEW t \in Tx, pc[t] # "idle", Statement(t, req[t].question, req[t].human)
      PROVE  /\ pc'[lock'[q]] \notin {"idle", "insert"}
             /\ req'[lock'[q]].question = q
  <2>1. req[t].question \in Question /\ req[t].human \in Human
    BY <1>1, <1>5 DEF TypeOK, Request
  <2> PICK p \in Question, u \in Human : p = req[t].question /\ u = req[t].human
    BY <2>1
  <2>2. /\ req' = req /\ pc'[t] \notin {"idle", "insert"}
        /\ \A s \in Tx \ {t} : pc'[s] = pc[s]
        /\ lock' = lock \/ lock' = [lock EXCEPT ![p] = t]
    <3> USE <1>1, <1>5 DEF Goto, writes, TypeOK
    <3>1. CASE AcquireLock(t, p)
      BY <3>1 DEF AcquireLock, LockThen
    <3>2. CASE InsertEnvelope(t, p, u)
      BY <3>2 DEF InsertEnvelope
    <3>3. CASE ReadAggregate(t, p) \/ BumpAggregate(t, p) \/ CreateAggregate(t, p)
      BY <3>3 DEF ReadAggregate, BumpAggregate, CreateAggregate
    <3>4. CASE OverrideEnvelope(t, p, u)
      BY <3>4 DEF OverrideEnvelope
    <3>5. CASE RetryInsert(t, p, u) \/ DeleteEnvelope(t, p, u)
      BY <3>5 DEF RetryInsert, DeleteEnvelope
    <3>6. CASE SnapshotEnvelopes(t, p) \/ RebuildAggregate(t, p, u)
      BY <3>6 DEF SnapshotEnvelopes, RebuildAggregate
    <3>7. CASE AdjustAnswerCounters(t, p, u)
      BY <3>7 DEF AdjustAnswerCounters, CountThen
    <3> QED
      BY <3>1, <3>2, <3>3, <3>4, <3>5, <3>6, <3>7 DEF Statement
  <2>3. CASE lock'[q] = t
    <3>1. req[t].question = q
      BY <1>1, <2>2, <2>3, StoreAssumption DEF HoldersAsked, TypeOK
    <3> QED
      BY <2>2, <2>3, <3>1
  <2>4. CASE lock'[q] # t
    <3>1. lock'[q] = lock[q] /\ lock[q] \in Tx \ {t}
      BY <1>1, <2>2, <2>4 DEF TypeOK
    <3> QED
      BY <2>2, <3>1 DEF HoldersAsked
  <2> QED
    BY <2>3, <2>4
<1>6. ASSUME NEW t \in Tx, Step(t)
      PROVE  /\ pc'[lock'[q]] \notin {"idle", "insert"}
             /\ req'[lock'[q]].question = q
  BY <1>3, <1>5, <1>6 DEF Step, Commit
<1>7. CASE UNCHANGED vars
  BY <1>2, <1>7 DEF vars
<1>8. CASE Next
  BY <1>2, <1>3, <1>4, <1>6, <1>8 DEF Next, Close, Register, Submit, Revoke, Abort
<1> QED
  BY <1>7, <1>8

\* The invariant of the store, and who holds its locks.
THEOREM WaitsAreOrdered == Spec => []WaitInvariant
<1>1. Init => HoldersAsked
  BY DEF Init, HoldersAsked
<1>2. StoreInvariant /\ HoldersAsked /\ [Next]_vars => HoldersAsked'
  BY HoldersStep
<1>3. StoreInvariant /\ HoldersAsked => WaitInvariant
  BY DEF WaitInvariant
<1> QED
  BY <1>1, <1>2, <1>3, StoreIsInvariant, PTL DEF Spec

\* However many submits and revokes run at once, transactions wait for each other
\* in a cycle only if one of them is at the second INSERT of a submit (routes/
\* envelopes.ts): the lock order of the handlers has no other way around.
THEOREM OnlyTheRetryCanDeadlock == Spec => []OnlyTheRetryDeadlocks
<1>1. WaitInvariant => OnlyTheRetryDeadlocks
  <2> SUFFICES ASSUME WaitInvariant, NEW t \in Tx, Deadlocked(t)
               PROVE  \E s \in Tx : pc[s] = "retryInsert" /\ s \in Waits(t) /\ t \in Waits(s)
    BY DEF OnlyTheRetryDeadlocks
  <2>1. t \in Waits(t)
    BY DEF Deadlocked
  <2>2. WaitRank(t) \in Nat
    BY DEF WaitRank
  <2>3. PICK r \in Tx : /\ pc[r] = "retryInsert"
                        /\ r = t \/ r \in Waits(t)
                        /\ t = r \/ t \in Waits(r)
    BY <2>1, <2>2, ChainGoesDown
  <2> QED
    BY <2>1, <2>3
<1> QED
  BY <1>1, WaitsAreOrdered, PTL
=============================================================================
