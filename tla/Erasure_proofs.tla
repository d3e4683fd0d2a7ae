--------------------------- MODULE Erasure_proofs ---------------------------
(***************************************************************************)
(* Proofs about the answer store under erasures, for any number of         *)
(* questions, humans, answers, and concurrent answers and erasures.        *)
(*                                                                         *)
(* The argument.  An erasure takes no advisory lock, so what a request     *)
(* that answers knows splits in three.  Its own row is safe anyway: other  *)
(* transactions wait for a written row, and an erasure only deletes.  What *)
(* the counts in its hands are worth is safe as long as no erasure has     *)
(* committed a deletion on the question: that is the drift the code        *)
(* admits, and its only source.  Its account of the counters is safe as    *)
(* long as the account of its human has not been deleted.                  *)
(*                                                                         *)
(* For the counters, an invalidation relies on the row of the registration *)
(* that it holds from its first statement on: whoever commits meanwhile    *)
(* has not counted, so has replaced an answer by one of the same weight,   *)
(* and no row of the human appears between the SELECT of the questions and *)
(* the DELETE, nor after it.                                               *)
(***************************************************************************)
EXTENDS Erasure, AnswerStore_proofs

\* The stages of answers and erasures are apart.
LEMMA StagesApart ==
  /\ \A x \in EraseStage : x \notin Stage /\ x # "idle"
  /\ BeforeDeletion \subseteq EraseStage
BY DEF Stage, EraseStage, BeforeDeletion

\* Whatever a slot does, tables and workspaces are typed.
LEMMA EraseTyped == EraseTypeOK => Typed
BY DEF EraseTypeOK, Typed

\* What the invariant says of one slot.
SlotGood(t) ==
  /\ pc[t] = "idle" \/ Answering(t) \/ Erasing(t)
  /\ \A q \in Question :
       pc[t] = "idle" \/ (Answering(t) /\ q # req[t].question) =>
         envWrite[t][q] = Untouched /\ aggWrite[t][q] = Untouched
  /\ pc[t] = "idle" => regWrite[t] = Untouched
  /\ Answering(t) => AnswerOnCourse(t, req[t].question, req[t].human)
  /\ Erasing(t) => ErasureOnCourse(t, req[t].human)

\* What it says of two.
SlotsApart ==
  \A s, t \in Tx : s # t =>
    /\ \A q \in Question :
         envWrite[s][q] # Untouched /\ envWrite[t][q] # Untouched =>
           req[s].human # req[t].human
    /\ regWrite[s] # Untouched /\ regWrite[t] # Untouched =>
         req[s].human # req[t].human

\* What it says of the tables.
TablesGood ==
  RowsOfPresent /\ DriftOnlyWhereErased /\ CountersExactUnlessDeparted

\* The invariant, slot by slot.
LEMMA InvariantBySlot ==
  EraseInvariant <=> /\ EraseTypeOK
                     /\ \A t \in Tx : SlotGood(t)
                     /\ SlotsApart
                     /\ TablesGood
<1>1. OneWriterPerRow /\ OneCounterWriterPerHuman
        <=> SlotsApart /\ \A t \in Tx : pc[t] = "idle" => regWrite[t] = Untouched
  BY DEF OneWriterPerRow, OneCounterWriterPerHuman, SlotsApart
<1>2. /\ SlotsKnown <=> \A t \in Tx : pc[t] = "idle" \/ Answering(t) \/ Erasing(t)
      /\ AnswersOnCourse <=> \A t \in Tx : Answering(t) =>
                               AnswerOnCourse(t, req[t].question, req[t].human)
      /\ ErasuresOnCourse <=> \A t \in Tx : Erasing(t) => ErasureOnCourse(t, req[t].human)
  BY Zenon DEF SlotsKnown, AnswersOnCourse, ErasuresOnCourse
<1>3. AnswersOwnQuestion <=> \A t \in Tx : \A q \in Question :
        pc[t] = "idle" \/ (Answering(t) /\ q # req[t].question) =>
          envWrite[t][q] = Untouched /\ aggWrite[t][q] = Untouched
  BY Zenon DEF AnswersOwnQuestion
<1>4. TablesGood <=> RowsOfPresent /\ DriftOnlyWhereErased /\ CountersExactUnlessDeparted
  BY DEF TablesGood
<1>5. (\A t \in Tx : SlotGood(t)) <=>
        /\ \A t \in Tx : pc[t] = "idle" \/ Answering(t) \/ Erasing(t)
        /\ \A t \in Tx : \A q \in Question :
             pc[t] = "idle" \/ (Answering(t) /\ q # req[t].question) =>
               envWrite[t][q] = Untouched /\ aggWrite[t][q] = Untouched
        /\ \A t \in Tx : pc[t] = "idle" => regWrite[t] = Untouched
        /\ \A t \in Tx : Answering(t) => AnswerOnCourse(t, req[t].question, req[t].human)
        /\ \A t \in Tx : Erasing(t) => ErasureOnCourse(t, req[t].human)
  BY Zenon DEF SlotGood
<1> HIDE DEF SlotsKnown, AnswersOnCourse, ErasuresOnCourse, AnswersOwnQuestion
<1> QED
  BY <1>1, <1>2, <1>3, <1>4, <1>5, Zenon DEF EraseInvariant

\* After a step, it follows from its parts.
LEMMA InvariantFromSlots ==
  ASSUME EraseTypeOK', \A t \in Tx : SlotGood(t)', SlotsApart', TablesGood'
  PROVE  EraseInvariant'
<1>1. SlotsKnown'
  BY DEF SlotsKnown, SlotGood
<1>2. AnswersOwnQuestion'
  BY DEF AnswersOwnQuestion, SlotGood
<1>3. OneWriterPerRow' /\ OneCounterWriterPerHuman'
  BY DEF OneWriterPerRow, OneCounterWriterPerHuman, SlotsApart, SlotGood
<1>4. AnswersOnCourse'
  BY DEF AnswersOnCourse, SlotGood
<1>5. ErasuresOnCourse'
  BY DEF ErasuresOnCourse, SlotGood
<1> QED
  BY <1>1, <1>2, <1>3, <1>4, <1>5 DEF EraseInvariant, TablesGood

-----------------------------------------------------------------------------
(* A slot that a step of another leaves alone.                             *)

\* The state of slot s does not change.
Unmoved(s) ==
  /\ pc'[s] = pc[s] /\ req'[s] = req[s]
  /\ envWrite'[s] = envWrite[s] /\ aggWrite'[s] = aggWrite[s]
  /\ regWrite'[s] = regWrite[s] /\ snapshot'[s] = snapshot[s]
  /\ found'[s] = found[s] /\ affected'[s] = affected[s]

\* What a step may do to the tables under a request on question p of human v
\* that is at a given stage with given writes.
LEMMA UndisturbedAnswer ==
  ASSUME NEW s \in Tx, Unmoved(s), Answering(s),
         NEW p \in Question, NEW v \in Human, AnswerOnCourse(s, p, v),
         rebuilt \subseteq rebuilt', departed \subseteq departed',
         pc[s] \in Holding => lock'[p] = lock[p],
         pc[s] \in Inserting \cup {"retryInsert"} /\ envelopes[p][v] = NoRow =>
           envelopes'[p][v] = NoRow,
         p \notin rebuilt' /\ pc[s] \in Holding =>
           envelopes'[p] = envelopes[p] /\ aggregates'[p] = aggregates[p],
         v \notin departed' =>
           /\ envWrite[s][p] # Untouched => envelopes'[p][v] = envelopes[p][v]
           /\ registrations[v] # NoRow => registrations'[v] # NoRow
           /\ regWrite[s] # Untouched => registrations'[v] = registrations[v]
  PROVE  AnswerOnCourse(s, p, v)'
<1> USE DEF Unmoved
<1>1. RowOnCourse(s, p, v)'
  BY UndisturbedRow DEF AnswerOnCourse
<1>2. p \notin rebuilt' => TallyOnCourse(s, p)'
  BY UndisturbedTally DEF AnswerOnCourse
<1>3. v \notin departed' => CountedOnCourse(s, p, v)'
  <2> SUFFICES ASSUME v \notin departed'
               PROVE  CountedOnCourse(s, p, v)'
    OBVIOUS
  <2>1. CountedOnCourse(s, p, v) /\ registrations[v] # NoRow
    BY DEF AnswerOnCourse, CountedOnCourse
  <2> QED
    BY <2>1, UndisturbedCounted
<1> QED
  BY <1>1, <1>2, <1>3 DEF AnswerOnCourse

\* The same for an erasure of human v.
LEMMA UndisturbedErasure ==
  ASSUME NEW s \in Tx, Unmoved(s), NEW v \in Human, ErasureOnCourse(s, v),
         departed \subseteq departed',
         v \notin departed' =>
           /\ registrations[v] # NoRow => registrations'[v] # NoRow
           /\ regWrite[s] # Untouched =>
                \A q \in Question : envelopes[q][v] = NoRow => envelopes'[q][v] = NoRow
  PROVE  ErasureOnCourse(s, v)'
<1> USE DEF Unmoved
<1>1. DeletesOnly(s)'
  BY DEF ErasureOnCourse, DeletesOnly
<1>2. ASSUME req[s].op = "invalidate", v \notin departed'
      PROVE  HoldsAndMissesNone(s, v)'
  <2>1. HoldsAndMissesNone(s, v)
    BY <1>2 DEF ErasureOnCourse
  <2>2. [live |-> FALSE, answers |-> 0, signals |-> 0] # Untouched
    BY Marks DEF Registration
  <2>3. pc[s] = "deleteAnswers" \/ pc[s] \in Deleted => regWrite[s] # Untouched
    BY <2>1, <2>2 DEF HoldsAndMissesNone, Deleted, BeforeDeletion
  <2> QED
    BY <1>2, <2>1, <2>3 DEF HoldsAndMissesNone
<1> QED
  BY <1>1, <1>2 DEF ErasureOnCourse

\* What a step may do to the tables under slot s.
Spares(s) ==
  LET p == req[s].question
      v == req[s].human
  IN /\ Answering(s) =>
          /\ pc[s] \in Holding => lock'[p] = lock[p]
          /\ pc[s] \in Inserting \cup {"retryInsert"} /\ envelopes[p][v] = NoRow =>
               envelopes'[p][v] = NoRow
          /\ p \notin rebuilt' /\ pc[s] \in Holding =>
               envelopes'[p] = envelopes[p] /\ aggregates'[p] = aggregates[p]
     /\ v \in Human \ departed' =>
          /\ Answering(s) /\ envWrite[s][p] # Untouched =>
               envelopes'[p][v] = envelopes[p][v]
          /\ registrations[v] # NoRow => registrations'[v] # NoRow
          /\ regWrite[s] # Untouched =>
               /\ Answering(s) => registrations'[v] = registrations[v]
               /\ Erasing(s) => \A q \in Question :
                    envelopes[q][v] = NoRow => envelopes'[q][v] = NoRow

\* A slot that is left alone and spared stays good.
LEMMA UndisturbedSlot ==
  ASSUME NEW s \in Tx, SlotGood(s), Unmoved(s), Spares(s),
         rebuilt \subseteq rebuilt', departed \subseteq departed'
  PROVE  SlotGood(s)'
<1>1. CASE pc[s] = "idle"
  BY <1>1, StagesApart DEF SlotGood, Unmoved, Answering, Erasing
<1>2. CASE Answering(s)
  <2>1. req[s].question \in Question /\ req[s].human \in Human
    BY <1>2 DEF Answering, Request
  <2> PICK p \in Question, v \in Human : p = req[s].question /\ v = req[s].human
    BY <2>1
  <2>2. AnswerOnCourse(s, p, v)'
    BY <1>2, UndisturbedAnswer DEF SlotGood, Spares
  <2>3. Answering(s)' /\ ~Erasing(s)' /\ pc'[s] # "idle"
    BY <1>2, StagesApart DEF Answering, Erasing, Unmoved
  <2> QED
    BY <1>2, <2>2, <2>3 DEF SlotGood, Unmoved
<1>3. CASE Erasing(s)
  <2>1. req[s].human \in Human
    BY <1>3 DEF Erasing, EraseRequest
  <2> PICK v \in Human : v = req[s].human
    BY <2>1
  <2>2. ErasureOnCourse(s, v)'
    BY <1>3, UndisturbedErasure DEF SlotGood, Spares
  <2>3. ~Answering(s)' /\ Erasing(s)' /\ pc'[s] # "idle"
    BY <1>3, StagesApart DEF Answering, Erasing, Unmoved
  <2> QED
    BY <2>2, <2>3 DEF SlotGood, Unmoved
<1> QED
  BY <1>1, <1>2, <1>3 DEF SlotGood

-----------------------------------------------------------------------------
(* Steps by the tables they leave: none, or those of an ending transaction. *)

\* Nothing moves in the other slots, nor do their locks, nor the history
\* backwards.
OthersUnmoved(t) ==
  /\ \A s \in Tx \ {t} : Unmoved(s)
  /\ \A p \in Question : lock[p] \in Tx \ {t} => lock'[p] = lock[p]
  /\ rebuilt \subseteq rebuilt' /\ departed \subseteq departed'

\* The types beyond those of the answer store.
ErasureTyped ==
  /\ tombstones \subseteq Human
  /\ found = [t \in Tx |-> found[t]] /\ \A t \in Tx : found[t] \subseteq Question
  /\ affected = [t \in Tx |-> affected[t]] /\ \A t \in Tx : affected[t] \subseteq Question
  /\ rebuilt \subseteq Question
  /\ departed \subseteq Human

\* After a step, the types hold when the slots are good and what they carry is
\* typed.
LEMMA TypesFromParts ==
  ASSUME Typed', ErasureTyped', \A t \in Tx : SlotGood(t)',
         \A t \in Tx : req'[t] \in Request \cup EraseRequest \cup {NoRequest}
  PROVE  EraseTypeOK'
<1>1. \A t \in Tx : pc'[t] \in Stage \cup EraseStage
  BY DEF SlotGood, Answering, Erasing, Stage
<1>2. pc' \in [Tx -> Stage \cup EraseStage]
  BY <1>1 DEF Typed
<1>3. req' \in [Tx -> Request \cup EraseRequest \cup {NoRequest}]
  BY DEF Typed
<1>4. found' \in [Tx -> SUBSET Question] /\ affected' \in [Tx -> SUBSET Question]
  BY DEF ErasureTyped
<1> QED
  BY <1>2, <1>3, <1>4 DEF EraseTypeOK, Typed, ErasureTyped

\* And the other way round.
LEMMA ErasureTypes == EraseTypeOK => ErasureTyped
BY DEF EraseTypeOK, ErasureTyped

\* The writes of slot t are its own.
WritesApart(t) ==
  \A s \in Tx \ {t} :
    /\ \A q \in Question :
         envWrite[s][q] # Untouched /\ envWrite[t][q] # Untouched =>
           req[s].human # req[t].human
    /\ regWrite[s] # Untouched /\ regWrite[t] # Untouched =>
         req[s].human # req[t].human

\* A step of slot t keeps the invariant when it spares the others and leaves its
\* own slot, and the tables, good.
LEMMA StepKeeps ==
  ASSUME EraseInvariant, NEW t \in Tx, OthersUnmoved(t),
         \A s \in Tx \ {t} : Spares(s),
         Typed', ErasureTyped', SlotGood(t)', WritesApart(t)', TablesGood',
         req'[t] \in Request \cup EraseRequest \cup {NoRequest}
  PROVE  EraseInvariant'
<1>1. /\ EraseTypeOK /\ SlotsApart
      /\ \A s \in Tx : SlotGood(s)
  BY InvariantBySlot
<1>2. ASSUME NEW s \in Tx
      PROVE  SlotGood(s)'
  <2>1. CASE s = t
    BY <2>1
  <2>2. CASE s # t
    BY <1>1, <2>2, UndisturbedSlot DEF OthersUnmoved
  <2> QED
    BY <2>1, <2>2
<1>3. SlotsApart'
  <2> SUFFICES ASSUME NEW r \in Tx, NEW s \in Tx, r # s
               PROVE  /\ \A q \in Question :
                           envWrite'[r][q] # Untouched /\ envWrite'[s][q] # Untouched =>
                             req'[r].human # req'[s].human
                      /\ regWrite'[r] # Untouched /\ regWrite'[s] # Untouched =>
                           req'[r].human # req'[s].human
    BY DEF SlotsApart
  <2>1. CASE r = t
    BY <2>1 DEF WritesApart
  <2>2. CASE s = t
    BY <2>2 DEF WritesApart
  <2>3. CASE r # t /\ s # t
    BY <1>1, <2>3 DEF SlotsApart, OthersUnmoved, Unmoved
  <2> QED
    BY <2>1, <2>2, <2>3
<1>4. \A s \in Tx : req'[s] \in Request \cup EraseRequest \cup {NoRequest}
  BY <1>1 DEF OthersUnmoved, Unmoved, EraseTypeOK
<1>5. EraseTypeOK'
  BY <1>2, <1>4, TypesFromParts
<1> QED
  BY <1>2, <1>3, <1>5, InvariantFromSlots

\* The tables and the history stay.
TablesStay == UNCHANGED <<envelopes, aggregates, registrations, rebuilt, departed>>

\* A step that leaves the tables alone spares everybody and keeps the tables good.
LEMMA TablesStayGood ==
  ASSUME TablesGood, TablesStay
  PROVE  TablesGood'
BY DEF TablesGood, TablesStay, RowsOfPresent, DriftOnlyWhereErased,
       CountersExactUnlessDeparted

\* So such a step keeps the invariant if it leaves its own slot good.
LEMMA QuietKeeps ==
  ASSUME EraseInvariant, NEW t \in Tx, OthersUnmoved(t), TablesStay,
         Typed', ErasureTyped', SlotGood(t)', WritesApart(t)',
         req'[t] \in Request \cup EraseRequest \cup {NoRequest}
  PROVE  EraseInvariant'
<1>1. /\ TablesGood
      /\ \A s \in Tx : SlotGood(s)
  BY InvariantBySlot
<1>2. TablesGood'
  BY <1>1, TablesStayGood
<1>3. ASSUME NEW s \in Tx \ {t}
      PROVE  Spares(s)
  <2>1. Answering(s) => req[s].question \in Question
    BY DEF Answering, Request
  <2>2. Answering(s) /\ pc[s] \in Holding => lock[req[s].question] = s
    BY <1>1 DEF SlotGood, AnswerOnCourse, RowOnCourse
  <2>3. Answering(s) /\ pc[s] \in Holding =>
          lock'[req[s].question] = lock[req[s].question]
    BY <2>1, <2>2 DEF OthersUnmoved
  <2> QED
    BY <2>3 DEF TablesStay, Spares
<1> QED
  BY <1>2, <1>3, StepKeeps

\* The end of a transaction leaves its slot good and its writes gone.
LEMMA EndedSlot ==
  ASSUME Typed, NEW t \in Tx, Release(t),
         \A s \in Tx \ {t} : found'[s] = found[s] /\ affected'[s] = affected[s],
         rebuilt \subseteq rebuilt', departed \subseteq departed'
  PROVE  /\ OthersUnmoved(t)
         /\ SlotGood(t)'
         /\ WritesApart(t)'
         /\ req'[t] = NoRequest
<1>1. /\ pc'[t] = "idle" /\ req'[t] = NoRequest /\ regWrite'[t] = Untouched
      /\ \A q \in Question : envWrite'[t][q] = Untouched /\ aggWrite'[t][q] = Untouched
  BY DEF Release, Goto, Typed
<1>2. OthersUnmoved(t)
  BY DEF OthersUnmoved, Unmoved, Release, Goto, Typed
<1>3. ~Answering(t)' /\ ~Erasing(t)'
  BY <1>1, StagesApart DEF Answering, Erasing
<1> QED
  BY <1>1, <1>2, <1>3 DEF SlotGood, WritesApart

-----------------------------------------------------------------------------
(* The steps of answers.                                                   *)

\* A statement of a request that answers keeps the invariant.
LEMMA EraseStatementKeeps ==
  ASSUME EraseInvariant, NEW t \in Tx, Answering(t),
         NEW q \in Question, NEW u \in Human,
         q = req[t].question, u = req[t].human, Statement(t, q, u), UNCHANGED eraseVars
  PROVE  EraseInvariant'
<1>1. /\ Typed /\ EraseTypeOK /\ ErasureTyped /\ SlotGood(t) /\ SlotsApart /\ TablesGood
      /\ AnswerOnCourse(t, q, u) /\ RowOnCourse(t, q, u)
  BY InvariantBySlot, EraseTyped, ErasureTypes DEF SlotGood, AnswerOnCourse
<1>2. Typed' /\ Answering(t)' /\ OnlyOf(t)
  BY <1>1, StatementTyped, StatementFrame
<1>3. /\ \A s \in Tx \ {t} : regWrite'[s] = regWrite[s]
      /\ regWrite'[t] # regWrite[t] => ~RegistrationBusy(t, u)
      /\ \A p \in Question : envWrite'[t][p] # envWrite[t][p] => p = q /\ ~RowBusy(t, q, u)
  BY <1>1, <1>2, StatementCounterFrame, WrittenRowWasFree DEF OnlyOf
<1>4. TablesStay /\ req' = req
  BY <1>2 DEF OnlyOf, TablesStay, eraseVars, history
<1>5. OthersUnmoved(t) /\ ErasureTyped'
  BY <1>1, <1>2, <1>3 DEF OthersUnmoved, Unmoved, OnlyOf, eraseVars, history, ErasureTyped
<1>6. AnswerOnCourse(t, q, u)'
  <2>1. RowOnCourse(t, q, u)'
    BY <1>1, OwnRow
  <2>2. q \notin rebuilt' => TallyOnCourse(t, q)'
    <3> SUFFICES ASSUME q \notin rebuilt
                 PROVE  TallyOnCourse(t, q)'
      BY <1>4 DEF TablesStay
    <3>1. TallyOnCourse(t, q) /\ aggregates[q] = TallyOf(envelopes[q])
      BY <1>1 DEF AnswerOnCourse, TablesGood, DriftOnlyWhereErased
    <3> QED
      BY <1>1, <3>1, OwnTally
  <2>3. u \notin departed' => CountedOnCourse(t, q, u)'
    <3> SUFFICES ASSUME u \notin departed
                 PROVE  CountedOnCourse(t, q, u)'
      BY <1>4 DEF TablesStay
    <3>1. CountedOnCourse(t, q, u)
      BY <1>1 DEF AnswerOnCourse
    <3>2. ExactFor(u)
      BY <1>1, <3>1 DEF TablesGood, CountersExactUnlessDeparted, ExactFor, CountedOnCourse
    <3> QED
      BY <1>1, <3>1, <3>2, OwnCount
  <2> QED
    BY <2>1, <2>2, <2>3 DEF AnswerOnCourse
<1>7. SlotGood(t)'
  <2>1. ~Erasing(t)' /\ pc'[t] # "idle"
    BY <1>2, StagesApart DEF Answering, Erasing
  <2>2. \A p \in Question : p # q => envWrite'[t][p] = Untouched /\ aggWrite'[t][p] = Untouched
    BY <1>1, <1>2 DEF SlotGood, OnlyOf
  <2> QED
    BY <1>2, <1>4, <1>6, <2>1, <2>2 DEF SlotGood
<1>8. WritesApart(t)'
  <2> SUFFICES ASSUME NEW s \in Tx \ {t}
               PROVE  /\ \A p \in Question :
                           envWrite'[s][p] # Untouched /\ envWrite'[t][p] # Untouched =>
                             req[s].human # u
                      /\ regWrite'[s] # Untouched /\ regWrite'[t] # Untouched =>
                           req[s].human # u
    BY <1>4 DEF WritesApart
  <2>1. Unmoved(s)
    BY <1>5 DEF OthersUnmoved
  <2>2. ASSUME NEW p \in Question, envWrite[s][p] # Untouched, envWrite'[t][p] # Untouched
        PROVE  req[s].human # u
    BY <1>1, <1>3, <2>2 DEF SlotsApart, RowBusy
  <2>3. ASSUME regWrite[s] # Untouched, regWrite'[t] # Untouched
        PROVE  req[s].human # u
    BY <1>1, <1>3, <2>3 DEF SlotsApart, RegistrationBusy
  <2> QED
    BY <2>1, <2>2, <2>3 DEF Unmoved
<1>9. req'[t] \in Request \cup EraseRequest \cup {NoRequest}
  BY <1>2 DEF Answering
<1> QED
  BY <1>2, <1>4, <1>5, <1>7, <1>8, <1>9, QuietKeeps

\* A new request, to answer or to erase, finds its slot clean.
LEMMA BeginSlot ==
  ASSUME EraseInvariant, NEW t \in Tx, pc[t] = "idle", NEW r, NEW stage,
         req' = [req EXCEPT ![t] = r], Goto(t, stage),
         UNCHANGED <<open, tables, lock, writes, eraseVars>>
  PROVE  /\ EraseTypeOK /\ TablesGood
         /\ TablesStay /\ OthersUnmoved(t) /\ Typed' /\ ErasureTyped' /\ WritesApart(t)'
         /\ pc'[t] = stage /\ req'[t] = r
         /\ regWrite'[t] = Untouched
         /\ \A q \in Question : envWrite'[t][q] = Untouched /\ aggWrite'[t][q] = Untouched
<1>1. /\ EraseTypeOK /\ Typed /\ ErasureTyped /\ SlotGood(t) /\ TablesGood
  BY InvariantBySlot, EraseTyped, ErasureTypes
<1>2. UNCHANGED <<open, envelopes, aggregates, registrations, lock, envWrite,
                  aggWrite, regWrite, snapshot, tombstones, found, affected,
                  rebuilt, departed>>
  BY DEF tables, writes, eraseVars, history
<1>3. /\ regWrite'[t] = Untouched
      /\ \A q \in Question : envWrite'[t][q] = Untouched /\ aggWrite'[t][q] = Untouched
  BY <1>1, <1>2 DEF SlotGood
<1>4. /\ pc'[t] = stage /\ req'[t] = r
      /\ \A s \in Tx \ {t} : pc'[s] = pc[s] /\ req'[s] = req[s]
      /\ pc' = [s \in Tx |-> pc'[s]] /\ req' = [s \in Tx |-> req'[s]]
  BY <1>1 DEF Goto, Typed
<1>5. Typed' /\ ErasureTyped'
  BY <1>1, <1>2, <1>4 DEF Typed, ErasureTyped
<1>6. TablesStay /\ OthersUnmoved(t)
  BY <1>2, <1>4 DEF TablesStay, OthersUnmoved, Unmoved
<1>7. WritesApart(t)'
  BY <1>3 DEF WritesApart
<1> QED
  BY <1>1, <1>3, <1>4, <1>5, <1>6, <1>7

\* A new submit or revoke comes from a registered human and is on course.
LEMMA EraseBeginAnswer ==
  ASSUME EraseInvariant, NEW t \in Tx, pc[t] = "idle",
         NEW r \in Request, NEW stage \in {"insert", "lockRevoke"},
         r.op = (IF stage = "insert" THEN "submit" ELSE "revoke"),
         registrations[r.human] # NoRow,
         req' = [req EXCEPT ![t] = r], Goto(t, stage),
         UNCHANGED <<open, tables, lock, writes, eraseVars>>
  PROVE  EraseInvariant'
<1>1. /\ TablesStay /\ OthersUnmoved(t) /\ Typed' /\ ErasureTyped' /\ WritesApart(t)'
      /\ pc'[t] = stage /\ req'[t] = r
      /\ regWrite'[t] = Untouched
      /\ \A q \in Question : envWrite'[t][q] = Untouched /\ aggWrite'[t][q] = Untouched
  BY BeginSlot
<1>2. r.question \in Question /\ r.human \in Human
  BY DEF Request
<1> PICK q \in Question, u \in Human : q = r.question /\ u = r.human
  BY <1>2
<1>3. RowOnCourse(t, q, u)'
  BY <1>1 DEF RowOnCourse, Inserting, BeforeRow, Counted, Holding
<1>4. TallyOnCourse(t, q)'
  BY <1>1 DEF TallyOnCourse, Counted
<1>5. CountedOnCourse(t, q, u)'
  <2>1. registrations'[u] # NoRow
    BY <1>1 DEF TablesStay
  <2> QED
    BY <1>1, <2>1, Marks DEF CountedOnCourse, Replacing, AfterCount
<1>6. Answering(t)' /\ ~Erasing(t)'
  BY <1>1, StagesApart DEF Answering, Erasing, Stage
<1>7. SlotGood(t)'
  BY <1>1, <1>3, <1>4, <1>5, <1>6 DEF SlotGood, AnswerOnCourse
<1> QED
  BY <1>1, <1>7, QuietKeeps

\* What the commit of an answer leaves in the tables.
LEMMA EraseCommitTables ==
  ASSUME EraseInvariant, NEW t \in Tx, Answering(t), Commit(t), UNCHANGED eraseVars,
         NEW q \in Question, NEW u \in Human, q = req[t].question, u = req[t].human
  PROVE  /\ pc[t] = "commit" /\ lock[q] = t
         /\ envelopes' \in [Question -> Rows]
         /\ aggregates' \in [Question -> Aggregate \cup {NoRow}]
         /\ \A p \in Question \ {q} : /\ envelopes'[p] = envelopes[p]
                                      /\ aggregates'[p] = aggregates[p]
         /\ envelopes'[q] = VisibleRows(t, q)
         /\ aggregates'[q] = VisibleAggregate(t, q)
         /\ \A p \in Question, v \in Human : v # u => envelopes'[p][v] = envelopes[p][v]
         /\ \A v \in Human : v # u => registrations'[v] = registrations[v]
         /\ registrations'[u] = IF regWrite[t] = Untouched THEN registrations[u]
                                 ELSE regWrite[t]
         /\ rebuilt' = rebuilt /\ departed' = departed
<1>1. Typed /\ SlotGood(t) /\ RowOnCourse(t, q, u)
  BY InvariantBySlot, EraseTyped DEF SlotGood, AnswerOnCourse
<1>2. pc[t] = "commit" /\ lock[q] = t
  BY <1>1 DEF Commit, RowOnCourse, Holding, Stage
<1>3. envelopes' \in [Question -> Rows]
  <2>1. \A p \in Question : VisibleRows(t, p) \in Rows
    BY <1>1, VisibleRowsType
  <2> QED
    BY <2>1 DEF Commit
<1>4. aggregates' \in [Question -> Aggregate \cup {NoRow}]
  <2>1. \A p \in Question : VisibleAggregate(t, p) \in Aggregate \cup {NoRow}
    BY <1>1 DEF VisibleAggregate, Typed
  <2> QED
    BY <2>1 DEF Commit
<1>5. ASSUME NEW p \in Question \ {q}
      PROVE  envelopes'[p] = envelopes[p] /\ aggregates'[p] = aggregates[p]
  <2>1. envWrite[t][p] = Untouched /\ aggWrite[t][p] = Untouched
    BY <1>1 DEF SlotGood
  <2> QED
    BY <1>1, <2>1, RowsWithoutWrite DEF Commit, VisibleAggregate
<1>6. envelopes'[q] = VisibleRows(t, q) /\ aggregates'[q] = VisibleAggregate(t, q)
  BY DEF Commit
<1>7. \A v \in Human : v # u => envelopes'[q][v] = envelopes[q][v]
  BY <1>6 DEF VisibleRows
<1>8. \A v \in Human : registrations'[v] =
        IF regWrite[t] # Untouched /\ u = v THEN regWrite[t] ELSE registrations[v]
  BY DEF Commit
<1> QED
  BY <1>2, <1>3, <1>4, <1>5, <1>6, <1>7, <1>8 DEF eraseVars, history

\* The commit of an answer leaves the tables good.
LEMMA EraseCommitGood ==
  ASSUME EraseInvariant, NEW t \in Tx, Answering(t), Commit(t), UNCHANGED eraseVars,
         NEW q \in Question, NEW u \in Human, q = req[t].question, u = req[t].human
  PROVE  TablesGood'
<1>1. Typed /\ SlotGood(t) /\ AnswerOnCourse(t, q, u) /\ TablesGood
  BY InvariantBySlot, EraseTyped DEF SlotGood
<1>2. /\ pc[t] = "commit" /\ lock[q] = t
      /\ envelopes' \in [Question -> Rows]
      /\ \A p \in Question \ {q} : /\ envelopes'[p] = envelopes[p]
                                   /\ aggregates'[p] = aggregates[p]
      /\ envelopes'[q] = VisibleRows(t, q)
      /\ aggregates'[q] = VisibleAggregate(t, q)
      /\ \A p \in Question, v \in Human : v # u => envelopes'[p][v] = envelopes[p][v]
      /\ \A v \in Human : v # u => registrations'[v] = registrations[v]
      /\ registrations'[u] = IF regWrite[t] = Untouched THEN registrations[u]
                              ELSE regWrite[t]
      /\ rebuilt' = rebuilt /\ departed' = departed
  BY EraseCommitTables
<1>3. u \notin departed => registrations'[u] # NoRow /\ ExactFor(u)'
  <2> SUFFICES ASSUME u \notin departed
               PROVE  registrations'[u] # NoRow /\ ExactFor(u)'
    OBVIOUS
  <2>1. CountedOnCourse(t, q, u)
    BY <1>1 DEF AnswerOnCourse
  <2>2. ExactFor(u)
    BY <1>1, <2>1 DEF TablesGood, CountersExactUnlessDeparted, ExactFor, CountedOnCourse
  <2> QED
    BY <1>1, <1>2, <2>1, <2>2, CommittedCounters
<1>4. RowsOfPresent'
  BY <1>1, <1>2, <1>3 DEF TablesGood, RowsOfPresent
<1>5. DriftOnlyWhereErased'
  <2>1. q \notin rebuilt => VisibleAggregate(t, q) = TallyOf(VisibleRows(t, q))
    BY <1>1, <1>2 DEF AnswerOnCourse, TallyOnCourse, Counted
  <2> QED
    BY <1>1, <1>2, <2>1 DEF TablesGood, DriftOnlyWhereErased
<1>6. CountersExactUnlessDeparted'
  <2> SUFFICES ASSUME NEW v \in Human \ departed, registrations'[v] # NoRow
               PROVE  /\ registrations'[v].answers = Cardinality(Answered(envelopes', v))
                      /\ registrations'[v].signals = Cardinality(Signalled(envelopes', v))
    BY <1>2 DEF CountersExactUnlessDeparted
  <2>1. CASE v = u
    BY <1>3, <2>1 DEF ExactFor
  <2>2. CASE v # u
    <3>1. \A p \in Question : envelopes'[p][v] = envelopes[p][v]
      BY <1>2, <2>2
    <3>2. /\ Answered(envelopes', v) = Answered(envelopes, v)
          /\ Signalled(envelopes', v) = Signalled(envelopes, v)
      BY <3>1, SameRowsSameCounts, Zenon
    <3>3. registrations'[v] = registrations[v]
      BY <1>2, <2>2
    <3> QED
      BY <1>1, <3>2, <3>3 DEF TablesGood, CountersExactUnlessDeparted
  <2> QED
    BY <2>1, <2>2
<1> QED
  BY <1>4, <1>5, <1>6 DEF TablesGood

\* It spares the others: those who hold a lock hold that of another question,
\* those who have written a row have written another row, and under an
\* invalidation that holds the registration it has counted nothing, so it brings
\* no row that was not there.
LEMMA EraseCommitSpares ==
  ASSUME EraseInvariant, NEW t \in Tx, Answering(t), Commit(t), UNCHANGED eraseVars,
         NEW q \in Question, NEW u \in Human, q = req[t].question, u = req[t].human,
         NEW s \in Tx \ {t}, OthersUnmoved(t)
  PROVE  Spares(s)
<1>1. /\ Typed /\ SlotGood(t) /\ AnswerOnCourse(t, q, u) /\ SlotGood(s) /\ SlotsApart
  BY InvariantBySlot, EraseTyped DEF SlotGood
<1>2. /\ pc[t] = "commit" /\ lock[q] = t
      /\ \A p \in Question \ {q} : /\ envelopes'[p] = envelopes[p]
                                   /\ aggregates'[p] = aggregates[p]
      /\ envelopes'[q] = VisibleRows(t, q)
      /\ \A p \in Question, v \in Human : v # u => envelopes'[p][v] = envelopes[p][v]
      /\ \A v \in Human : v # u => registrations'[v] = registrations[v]
      /\ registrations'[u] = IF regWrite[t] = Untouched THEN registrations[u]
                              ELSE regWrite[t]
      /\ rebuilt' = rebuilt /\ departed' = departed
  BY EraseCommitTables
<1>3. ASSUME NEW p \in Question, NEW v \in Human, v = req[s].human, envWrite[s][p] # Untouched
      PROVE  envelopes'[p][v] = envelopes[p][v]
  <2>1. CASE p = q
    <3>1. envWrite[t][q] = Untouched \/ v # u
      BY <1>1, <1>3, <2>1 DEF SlotsApart
    <3> QED
      BY <1>2, <2>1, <3>1 DEF VisibleRows
  <2>2. CASE p # q
    BY <1>2, <2>2
  <2> QED
    BY <2>1, <2>2
<1>4. ASSUME Answering(s)
      PROVE  LET p == req[s].question
                 v == req[s].human
             IN /\ pc[s] \in Holding => lock'[p] = lock[p]
                /\ pc[s] \in Inserting \cup {"retryInsert"} /\ envelopes[p][v] = NoRow =>
                     envelopes'[p][v] = NoRow
                /\ p \notin rebuilt' /\ pc[s] \in Holding =>
                     envelopes'[p] = envelopes[p] /\ aggregates'[p] = aggregates[p]
                /\ envWrite[s][p] # Untouched => envelopes'[p][v] = envelopes[p][v]
  <2>1. req[s].question \in Question /\ req[s].human \in Human /\ req[s] \in Request
    BY <1>4 DEF Answering, Request
  <2> PICK p \in Question, v \in Human : p = req[s].question /\ v = req[s].human
    BY <2>1
  <2>2. RowOnCourse(s, p, v)
    BY <1>1, <1>4 DEF SlotGood, AnswerOnCourse
  <2>3. pc[s] \in Holding => p # q /\ lock'[p] = lock[p]
    BY <1>2, <2>2 DEF RowOnCourse, OthersUnmoved
  <2>4. pc[s] \in Inserting \cup {"retryInsert"} =>
          pc[s] \in Holding \/ envWrite[s][p] # Untouched
    <3>1. pc[s] \in Inserting => envWrite[s][p] # Untouched
      BY <2>1, <2>2, Marks DEF RowOnCourse, Request
    <3> QED
      BY <3>1 DEF Holding, Stage
  <2>5. envWrite[s][p] # Untouched => envelopes'[p][v] = envelopes[p][v]
    BY <1>3
  <2> QED
    BY <1>2, <2>3, <2>4, <2>5
<1>5. ASSUME NEW v \in Human \ departed, v = req[s].human
      PROVE  /\ registrations[v] # NoRow => registrations'[v] # NoRow
             /\ regWrite[s] # Untouched =>
                  /\ registrations'[v] = registrations[v]
                  /\ \A p \in Question : envelopes[p][v] = NoRow => envelopes'[p][v] = NoRow
  <2>1. CASE v # u
    BY <1>2, <2>1
  <2>2. CASE v = u
    <3>1. CountedOnCourse(t, q, u)
      BY <1>1, <1>5, <2>2 DEF AnswerOnCourse
    <3>2. registrations'[u] # NoRow
      BY <1>2, <3>1 DEF CountedOnCourse
    <3>3. ASSUME regWrite[s] # Untouched
          PROVE  regWrite[t] = Untouched /\ AnswerShift(t, q, u) = 0
      <4>1. regWrite[t] = Untouched
        BY <1>1, <1>5, <2>2, <3>3 DEF SlotsApart
      <4> QED
        BY <1>2, <3>1, <4>1 DEF CountedOnCourse
    <3>4. AnswerShift(t, q, u) = 0 /\ envelopes[q][u] = NoRow => envelopes'[q][u] = NoRow
      BY <1>2 DEF AnswerShift, AnswerWeight
    <3> QED
      BY <1>2, <2>2, <3>2, <3>3, <3>4
  <2> QED
    BY <2>1, <2>2
<1> QED
  BY <1>2, <1>4, <1>5 DEF Spares

\* The commit of an answer keeps the invariant.
LEMMA EraseCommitKeeps ==
  ASSUME EraseInvariant, NEW t \in Tx, Answering(t), Commit(t), UNCHANGED eraseVars
  PROVE  EraseInvariant'
<1>1. /\ Typed /\ ErasureTyped /\ Release(t)
      /\ req[t].question \in Question /\ req[t].human \in Human
  BY InvariantBySlot, EraseTyped, ErasureTypes DEF Commit, Answering, Request
<1> PICK q \in Question, u \in Human : q = req[t].question /\ u = req[t].human
  BY <1>1
<1>2. /\ OthersUnmoved(t) /\ SlotGood(t)' /\ WritesApart(t)' /\ req'[t] = NoRequest
  BY <1>1, EndedSlot DEF eraseVars, history
<1>3. TablesGood' /\ \A s \in Tx \ {t} : Spares(s)
  BY <1>2, EraseCommitGood, EraseCommitSpares
<1>4. Typed'
  <2>1. /\ envelopes' \in [Question -> [Human -> Answer \cup {NoRow}]]
        /\ aggregates' \in [Question -> Aggregate \cup {NoRow}]
    BY EraseCommitTables DEF Rows
  <2>2. registrations' \in [Human -> Registration \cup {NoRow}]
    BY <1>1 DEF Commit, Typed
  <2>3. open' \in [Question -> BOOLEAN]
    BY <1>1 DEF Commit, Typed
  <2> QED
    BY <1>1, <2>1, <2>2, <2>3, ReleaseTyped
<1>5. ErasureTyped'
  BY <1>1 DEF ErasureTyped, eraseVars, history
<1> QED
  BY <1>2, <1>3, <1>4, <1>5, StepKeeps

-----------------------------------------------------------------------------
(* The steps of erasures.                                                  *)

\* A registration, an invalidation or a deletion begins with a clean slot; an
\* invalidation goes on to the registration only when there is one.
LEMMA EraseBeginErasure ==
  ASSUME EraseInvariant, NEW t \in Tx, NEW u \in Human, NEW op, NEW stage,
         Begin(t, op, u, stage),
         \/ op = "register" /\ stage = "upsert"
         \/ op = "delete" /\ stage = "findAnswers"
         \/ op = "invalidate" /\ stage = "tombstoneOnly"
         \/ op = "invalidate" /\ stage = "tombstone" /\ registrations[u] # NoRow
  PROVE  EraseInvariant'
<1> DEFINE r == [op |-> op, human |-> u, question |-> NoRow, answer |-> NoRow]
<1>1. r \in EraseRequest /\ r.op = op /\ r.human = u
  BY DEF EraseRequest
<1>2. /\ pc[t] = "idle" /\ req' = [req EXCEPT ![t] = r] /\ Goto(t, stage)
      /\ UNCHANGED <<open, tables, lock, writes, eraseVars>>
  BY DEF Begin
<1> HIDE DEF r
<1>3. /\ TablesStay /\ OthersUnmoved(t) /\ Typed' /\ ErasureTyped' /\ WritesApart(t)'
      /\ pc'[t] = stage /\ req'[t] = r
      /\ regWrite'[t] = Untouched
      /\ \A q \in Question : envWrite'[t][q] = Untouched /\ aggWrite'[t][q] = Untouched
  BY <1>2, BeginSlot
<1>4. stage \in EraseStage
  BY DEF EraseStage
<1>5. Erasing(t)' /\ ~Answering(t)' /\ pc'[t] # "idle"
  BY <1>1, <1>3, <1>4, StagesApart DEF Erasing, Answering
<1>6. DeletesOnly(t)'
  BY <1>1, <1>3 DEF DeletesOnly, Deleted, BeforeDeletion
<1>7. op = "invalidate" => HoldsAndMissesNone(t, u)'
  BY <1>3 DEF HoldsAndMissesNone, Deleted, BeforeDeletion, TablesStay
<1>8. SlotGood(t)'
  BY <1>1, <1>3, <1>5, <1>6, <1>7 DEF SlotGood, ErasureOnCourse
<1> QED
  BY <1>1, <1>3, <1>8, QuietKeeps

\* A statement of an erasure.
EraseStatement(t, u) ==
  \/ RevokeRegistration(t, u)
  \/ FindAnswers(t)
  \/ DeleteAnswers(t, u)
  \/ \E p \in affected[t] : EraseSnapshot(t, p)
  \/ EraseRebuild(t, req[t].question)
  \/ DeleteRegistration(t, u)

\* It moves its own slot only and no table.
LEMMA EraseStatementFrame ==
  ASSUME Typed, ErasureTyped, NEW t \in Tx, NEW u \in Human, EraseStatement(t, u)
  PROVE  OthersUnmoved(t) /\ TablesStay
<1> USE DEF OthersUnmoved, Unmoved, TablesStay, Typed, ErasureTyped, Goto, tables,
            writes, eraseVars, history
<1>1. CASE RevokeRegistration(t, u)
  BY <1>1 DEF RevokeRegistration
<1>2. CASE FindAnswers(t)
  BY <1>2 DEF FindAnswers
<1>3. CASE DeleteAnswers(t, u)
  BY <1>3 DEF DeleteAnswers
<1>4. ASSUME NEW p \in affected[t], EraseSnapshot(t, p)
      PROVE  OthersUnmoved(t) /\ TablesStay
  BY <1>4 DEF EraseSnapshot
<1>5. CASE EraseRebuild(t, req[t].question)
  BY <1>5 DEF EraseRebuild
<1>6. CASE DeleteRegistration(t, u)
  BY <1>6 DEF DeleteRegistration
<1> QED
  BY <1>1, <1>2, <1>3, <1>4, <1>5, <1>6 DEF EraseStatement

\* It keeps the types, and what its request is about.
LEMMA EraseStatementTyped ==
  ASSUME Typed, ErasureTyped, NEW t \in Tx, NEW u \in Human, Erasing(t), DeletesOnly(t),
         EraseStatement(t, u)
  PROVE  /\ Typed' /\ ErasureTyped' /\ Erasing(t)'
         /\ req'[t].op = req[t].op /\ req'[t].human = req[t].human
<1>0. req[t] \in EraseRequest
  BY DEF Erasing
<1>n. ASSUME NEW left
      PROVE  NextErased(t, left) \in {"eraseSnapshot", "deleteRegistration", "commitErase"}
  BY DEF NextErased
<1> USE <1>0 DEF Typed, ErasureTyped, Erasing, Goto, tables, writes, eraseVars, history, EraseStage
<1>1. CASE RevokeRegistration(t, u)
  <2>1. [live |-> FALSE, answers |-> 0, signals |-> 0] \in Registration
    BY DEF Registration
  <2> DEFINE zero == [live |-> FALSE, answers |-> 0, signals |-> 0]
  <2>2. regWrite' = regWrite \/ regWrite' = [regWrite EXCEPT ![t] = zero]
    BY <1>1 DEF RevokeRegistration
  <2> HIDE DEF zero
  <2>3. regWrite' \in [Tx -> Registration \cup {NoRow, Untouched}]
    BY <2>1, <2>2 DEF zero
  <2> QED
    BY <1>1, <2>3 DEF RevokeRegistration
<1>2. CASE FindAnswers(t)
  BY <1>2 DEF FindAnswers
<1>3. CASE DeleteAnswers(t, u)
  <2> DEFINE hit == {q \in found[t] : envelopes[q][u] # NoRow}
             gone == [q \in Question |-> IF q \in hit THEN NoRow ELSE Untouched]
  <2>1. /\ envWrite' = [envWrite EXCEPT ![t] = gone]
        /\ affected' = [affected EXCEPT ![t] = hit]
        /\ pc' = [pc EXCEPT ![t] = NextErased(t, hit)]
        /\ UNCHANGED <<open, envelopes, aggregates, registrations, lock, req, aggWrite,
                       regWrite, snapshot, tombstones, found, rebuilt, departed>>
    BY <1>3 DEF DeleteAnswers
  <2>2. /\ gone \in [Question -> Answer \cup {NoRow, Untouched}]
        /\ hit \subseteq Question
        /\ NextErased(t, hit) \in EraseStage
    BY <1>n
  <2> HIDE DEF hit, gone
  <2>3. envWrite' \in [Tx -> [Question -> Answer \cup {NoRow, Untouched}]]
    BY <2>1, <2>2
  <2>4. /\ affected' = [s \in Tx |-> affected'[s]]
        /\ \A s \in Tx : affected'[s] \subseteq Question
    BY <2>1, <2>2
  <2>5. pc' = [s \in Tx |-> pc'[s]] /\ pc'[t] \in EraseStage
    BY <2>1, <2>2
  <2> QED
    BY <2>1, <2>3, <2>4, <2>5
<1>4. ASSUME NEW p \in affected[t], EraseSnapshot(t, p)
      PROVE  /\ Typed' /\ ErasureTyped' /\ Erasing(t)'
             /\ req'[t].op = req[t].op /\ req'[t].human = req[t].human
  <2>1. p \in Question
    OBVIOUS
  <2>2. TallyOf(VisibleRows(t, p)) \in Aggregate \cup {NoRow}
    BY TallyType
  <2>3. snapshot' \in [Tx -> Aggregate \cup {NoRow, Untouched}]
    BY <1>4, <2>2 DEF EraseSnapshot
  <2>4. /\ req' = [s \in Tx |-> req'[s]]
        /\ req'[t] = [req[t] EXCEPT !.question = p]
    BY <1>4 DEF EraseSnapshot
  <2>5. [req[t] EXCEPT !.question = p] \in EraseRequest
    BY <2>1 DEF EraseRequest
  <2>6. [req[t] EXCEPT !.question = p].op = req[t].op
        /\ [req[t] EXCEPT !.question = p].human = req[t].human
    BY DEF EraseRequest
  <2> QED
    BY <1>4, <2>3, <2>4, <2>5, <2>6 DEF EraseSnapshot
<1>5. CASE EraseRebuild(t, req[t].question)
  <2>1. req[t].question \in Question
    BY <1>5 DEF EraseRebuild, DeletesOnly
  <2> PICK q \in Question : q = req[t].question
    BY <2>1
  <2>2. WritesAggregate(t, q)
    BY <1>5 DEF EraseRebuild, WritesAggregate
  <2>3. aggWrite' \in [Tx -> [Question -> Aggregate \cup {NoRow, Untouched}]]
    BY <2>2, WriteType
  <2>4. NextErased(t, affected[t] \ {q}) \in EraseStage
    BY <1>n
  <2>5. pc' = [s \in Tx |-> pc'[s]] /\ pc'[t] \in EraseStage
    BY <1>5, <2>4 DEF EraseRebuild
  <2>6. /\ affected' = [s \in Tx |-> affected'[s]]
        /\ \A s \in Tx : affected'[s] \subseteq Question
    BY <1>5 DEF EraseRebuild
  <2> QED
    BY <1>5, <2>3, <2>5, <2>6 DEF EraseRebuild
<1>6. CASE DeleteRegistration(t, u)
  BY <1>6 DEF DeleteRegistration
<1> QED
  BY <1>1, <1>2, <1>3, <1>4, <1>5, <1>6 DEF EraseStatement

\* The stages an erasure can be in after its DELETE.
LEMMA NextErasedStage ==
  ASSUME NEW t \in Tx, NEW left
  PROVE  /\ NextErased(t, left) \in {"eraseSnapshot", "deleteRegistration", "commitErase"}
         /\ NextErased(t, left) = "deleteRegistration" => req[t].op = "delete"
BY DEF NextErased

\* It still only deletes, and publishes counts only where it has deleted.
LEMMA StillDeletesOnly ==
  ASSUME Typed, ErasureTyped, NEW t \in Tx, NEW u \in Human, Erasing(t), DeletesOnly(t),
         EraseStatement(t, u)
  PROVE  DeletesOnly(t)'
<1>0. /\ Typed' /\ Erasing(t)' /\ req'[t].op = req[t].op
  BY EraseStatementTyped
<1>m. NoRow # Untouched
  BY Marks
<1> USE <1>0 DEF Typed, ErasureTyped, Goto, tables, writes, eraseVars, history, DeletesOnly,
                 Deleted, BeforeDeletion, EraseStage
<1>1. CASE RevokeRegistration(t, u)
  BY <1>1 DEF RevokeRegistration
<1>2. CASE FindAnswers(t)
  BY <1>2 DEF FindAnswers
<1>3. CASE DeleteAnswers(t, u)
  <2> DEFINE hit == {q \in found[t] : envelopes[q][u] # NoRow}
             gone == [q \in Question |-> IF q \in hit THEN NoRow ELSE Untouched]
  <2>1. /\ pc[t] = "deleteAnswers"
        /\ envWrite'[t] = gone /\ affected'[t] = hit /\ pc'[t] = NextErased(t, hit)
        /\ req'[t] = req[t] /\ aggWrite'[t] = aggWrite[t] /\ regWrite'[t] = regWrite[t]
    BY <1>3 DEF DeleteAnswers
  <2>2. \A q \in Question : envWrite'[t][q] = IF q \in hit THEN NoRow ELSE Untouched
    BY <2>1
  <2>3. /\ pc'[t] \in {"eraseSnapshot", "deleteRegistration", "commitErase"}
        /\ pc'[t] = "deleteRegistration" => req[t].op = "delete"
    BY <2>1, NextErasedStage
  <2>4. \A q \in Question : aggWrite[t][q] = Untouched
    BY <1>m, <2>1
  <2> HIDE DEF hit, gone
  <2> QED
    BY <2>1, <2>2, <2>3, <2>4
<1>4. ASSUME NEW p \in affected[t], EraseSnapshot(t, p)
      PROVE  DeletesOnly(t)'
  <2>1. req'[t].question = p
    BY <1>4 DEF EraseSnapshot, Erasing, EraseRequest
  <2> QED
    BY <1>4, <2>1 DEF EraseSnapshot
<1>5. CASE EraseRebuild(t, req[t].question)
  <2>1. req[t].question \in Question /\ req[t].question \in affected[t]
    BY <1>5 DEF EraseRebuild
  <2> PICK q \in Question : q = req[t].question
    BY <2>1
  <2>2. /\ envWrite[t][q] = NoRow
        /\ \A p \in Question \ {q} : aggWrite'[t][p] = aggWrite[t][p]
        /\ req'[t] = req[t] /\ envWrite'[t] = envWrite[t] /\ regWrite'[t] = regWrite[t]
        /\ affected'[t] \subseteq affected[t]
        /\ pc[t] = "eraseRebuild" /\ pc'[t] = NextErased(t, affected[t] \ {q})
    BY <1>5, <2>1 DEF EraseRebuild
  <2>3. /\ pc'[t] \in {"eraseSnapshot", "deleteRegistration", "commitErase"}
        /\ pc'[t] = "deleteRegistration" => req[t].op = "delete"
    BY <2>2, NextErasedStage
  <2>4. \A p \in Question :
          /\ envWrite'[t][p] \in {Untouched, NoRow}
          /\ aggWrite'[t][p] # Untouched => envWrite'[t][p] = NoRow
          /\ p \in affected'[t] => envWrite'[t][p] = NoRow
    BY <2>2
  <2>5. req'[t].op # "register" /\ (req'[t].op = "delete" => regWrite'[t] = Untouched)
    BY <2>2
  <2> QED
    BY <2>2, <2>3, <2>4, <2>5
<1>6. CASE DeleteRegistration(t, u)
  BY <1>6 DEF DeleteRegistration
<1> QED
  BY <1>1, <1>2, <1>3, <1>4, <1>5, <1>6 DEF EraseStatement

\* An invalidation finds every question its human has answered, and its DELETE
\* misses none of them.
LEMMA StillMissesNone ==
  ASSUME Typed, ErasureTyped, NEW t \in Tx, NEW u \in Human, Erasing(t), DeletesOnly(t),
         req[t].op = "invalidate", HoldsAndMissesNone(t, u), EraseStatement(t, u)
  PROVE  HoldsAndMissesNone(t, u)'
<1>0. /\ Typed' /\ ErasureTyped' /\ Erasing(t)' /\ TablesStay
  BY EraseStatementTyped, EraseStatementFrame
<1> USE <1>0 DEF Typed, Goto, writes, eraseVars, history, DeletesOnly, HoldsAndMissesNone,
                 Deleted, BeforeDeletion, EraseStage, TablesStay
<1>1. CASE RevokeRegistration(t, u)
  BY <1>1 DEF RevokeRegistration
<1>2. CASE FindAnswers(t)
  <2>1. found'[t] = {q \in Question : Voters(envelopes[q]) # {}}
    BY <1>2 DEF FindAnswers, ErasureTyped
  <2>2. \A q \in Question : envelopes[q][u] # NoRow => q \in found'[t]
    BY <2>1 DEF Voters
  <2> QED
    BY <1>2, <2>2 DEF FindAnswers
<1>3. CASE DeleteAnswers(t, u)
  <2>1. /\ pc[t] = "deleteAnswers" /\ regWrite'[t] = regWrite[t]
        /\ pc'[t] \in {"eraseSnapshot", "deleteRegistration", "commitErase"}
    BY <1>3, NextErasedStage DEF DeleteAnswers
  <2>2. \A q \in Question : envelopes[q][u] # NoRow => envWrite'[t][q] = NoRow
    BY <1>3 DEF DeleteAnswers
  <2> QED
    BY <2>1, <2>2
<1>4. ASSUME NEW p \in affected[t], EraseSnapshot(t, p)
      PROVE  HoldsAndMissesNone(t, u)'
  BY <1>4 DEF EraseSnapshot
<1>5. CASE EraseRebuild(t, req[t].question)
  <2>1. /\ pc[t] = "eraseRebuild" /\ regWrite'[t] = regWrite[t] /\ envWrite'[t] = envWrite[t]
        /\ pc'[t] \in {"eraseSnapshot", "deleteRegistration", "commitErase"}
    BY <1>5, NextErasedStage DEF EraseRebuild
  <2> QED
    BY <2>1
<1>6. CASE DeleteRegistration(t, u)
  BY <1>6 DEF DeleteRegistration
<1> QED
  BY <1>1, <1>2, <1>3, <1>4, <1>5, <1>6 DEF EraseStatement

\* It writes a row, or the registration, only when no other transaction has.
LEMMA EraseStatementApart ==
  ASSUME EraseInvariant, NEW t \in Tx, NEW u \in Human, u = req[t].human, Erasing(t),
         EraseStatement(t, u)
  PROVE  WritesApart(t)'
<1>0. /\ Typed /\ ErasureTyped /\ DeletesOnly(t) /\ SlotsApart
  BY InvariantBySlot, EraseTyped, ErasureTypes DEF SlotGood, ErasureOnCourse
<1>1. /\ OthersUnmoved(t) /\ req'[t].human = u
  BY <1>0, EraseStatementFrame, EraseStatementTyped
<1>2. ASSUME NEW q \in Question, envWrite'[t][q] # Untouched, envWrite[t][q] = Untouched
      PROVE  ~RowBusy(t, q, u)
  <2>1. DeleteAnswers(t, u)
    BY <1>2 DEF EraseStatement, RevokeRegistration, FindAnswers, EraseSnapshot, EraseRebuild,
                DeleteRegistration, writes
  <2>2. q \in {p \in found[t] : envelopes[p][u] # NoRow}
    BY <1>0, <1>2, <2>1 DEF DeleteAnswers, Typed
  <2> QED
    BY <2>1, <2>2 DEF DeleteAnswers
<1>3. ASSUME regWrite'[t] # Untouched, regWrite[t] = Untouched
      PROVE  ~RegistrationBusy(t, u)
  BY <1>3 DEF EraseStatement, RevokeRegistration, FindAnswers, DeleteAnswers, EraseSnapshot,
              EraseRebuild, DeleteRegistration, writes
<1> SUFFICES ASSUME NEW s \in Tx \ {t}
             PROVE  /\ \A q \in Question :
                         envWrite'[s][q] # Untouched /\ envWrite'[t][q] # Untouched =>
                           req'[s].human # req'[t].human
                    /\ regWrite'[s] # Untouched /\ regWrite'[t] # Untouched =>
                         req'[s].human # req'[t].human
  BY DEF WritesApart
<1>4. Unmoved(s)
  BY <1>1 DEF OthersUnmoved
<1>5. ASSUME NEW q \in Question, envWrite[s][q] # Untouched, envWrite'[t][q] # Untouched
      PROVE  req[s].human # u
  BY <1>0, <1>2, <1>5 DEF SlotsApart, RowBusy
<1>6. ASSUME regWrite[s] # Untouched, regWrite'[t] # Untouched
      PROVE  req[s].human # u
  BY <1>0, <1>3, <1>6 DEF SlotsApart, RegistrationBusy
<1> QED
  BY <1>1, <1>4, <1>5, <1>6 DEF Unmoved

\* A statement of an erasure keeps the invariant.
LEMMA ErasureStatementKeeps ==
  ASSUME EraseInvariant, NEW t \in Tx, NEW u \in Human, u = req[t].human, Erasing(t),
         EraseStatement(t, u)
  PROVE  EraseInvariant'
<1>1. /\ Typed /\ ErasureTyped /\ DeletesOnly(t) /\ ErasureOnCourse(t, u)
  BY InvariantBySlot, EraseTyped, ErasureTypes DEF SlotGood, ErasureOnCourse
<1>2. /\ OthersUnmoved(t) /\ TablesStay /\ Typed' /\ ErasureTyped' /\ Erasing(t)'
      /\ req'[t].op = req[t].op /\ req'[t].human = u
  BY <1>1, EraseStatementFrame, EraseStatementTyped
<1>3. DeletesOnly(t)'
  BY <1>1, StillDeletesOnly
<1>4. req'[t].op = "invalidate" /\ u \notin departed' => HoldsAndMissesNone(t, u)'
  BY <1>1, <1>2, StillMissesNone DEF ErasureOnCourse, TablesStay
<1>5. ErasureOnCourse(t, u)'
  BY <1>3, <1>4 DEF ErasureOnCourse
<1>6. ~Answering(t)' /\ pc'[t] # "idle"
  BY <1>2, StagesApart DEF Answering, Erasing
<1>7. SlotGood(t)'
  BY <1>2, <1>5, <1>6 DEF SlotGood
<1>8. req'[t] \in Request \cup EraseRequest \cup {NoRequest}
  BY <1>2 DEF Erasing
<1> QED
  BY <1>2, <1>7, <1>8, EraseStatementApart, QuietKeeps

\* A transaction that ends without a word to the tables keeps the invariant.
LEMMA QuietEndKeeps ==
  ASSUME EraseInvariant, NEW t \in Tx, Release(t), UNCHANGED <<open, tables, history>>,
         ErasureTyped', \A s \in Tx \ {t} : found'[s] = found[s] /\ affected'[s] = affected[s]
  PROVE  EraseInvariant'
<1>1. Typed
  BY InvariantBySlot, EraseTyped
<1>2. TablesStay /\ open' = open /\ rebuilt \subseteq rebuilt' /\ departed \subseteq departed'
  BY DEF TablesStay, tables, history
<1>3. OthersUnmoved(t) /\ SlotGood(t)' /\ WritesApart(t)' /\ req'[t] = NoRequest
  BY <1>1, <1>2, EndedSlot
<1>4. Typed'
  <2>1. /\ open' \in [Question -> BOOLEAN]
        /\ envelopes' \in [Question -> [Human -> Answer \cup {NoRow}]]
        /\ aggregates' \in [Question -> Aggregate \cup {NoRow}]
        /\ registrations' \in [Human -> Registration \cup {NoRow}]
    BY <1>1, <1>2 DEF Typed, TablesStay
  <2> QED
    BY <1>1, <2>1, ReleaseTyped
<1> QED
  BY <1>2, <1>3, <1>4, QuietKeeps

\* An invalidation without a registration only adds to the tombstones.
LEMMA TombstoneOnlyKeeps ==
  ASSUME EraseInvariant, NEW t \in Tx, Erasing(t), TombstoneOnly(t)
  PROVE  EraseInvariant'
<1>1. ErasureTyped /\ req[t].human \in Human
  BY InvariantBySlot, ErasureTypes DEF Erasing, EraseRequest
<1>2. ErasureTyped' /\ found' = found /\ affected' = affected
  BY <1>1 DEF ErasureTyped, TombstoneOnly, history
<1> QED
  BY <1>2, QuietEndKeeps DEF TombstoneOnly

\* Rolling back drops the workspace of its slot.
LEMMA EraseAbortKeeps ==
  ASSUME EraseInvariant, NEW t \in Tx, EraseAbort(t)
  PROVE  EraseInvariant'
<1>1. ErasureTyped
  BY InvariantBySlot, ErasureTypes
<1>2. /\ ErasureTyped'
      /\ \A s \in Tx \ {t} : found'[s] = found[s] /\ affected'[s] = affected[s]
  BY <1>1 DEF ErasureTyped, EraseAbort, history
<1>3. Release(t) /\ UNCHANGED <<open, tables, history>>
  BY DEF EraseAbort, Abort
<1> QED
  BY <1>2, <1>3, QuietEndKeeps

\* A question that closes, or a step of something else, changes nothing that the
\* invariant speaks of.
LEMMA EraseOutsideKeeps ==
  ASSUME EraseInvariant, open' \in [Question -> BOOLEAN],
         UNCHANGED <<tables, lock, pc, req, writes, eraseVars>>
  PROVE  EraseInvariant'
<1> USE DEF tables, writes, eraseVars, history
<1>1. EraseTypeOK'
  BY DEF EraseInvariant, EraseTypeOK
<1>2. \A t \in Tx : SlotGood(t)'
  <2> SUFFICES ASSUME NEW t \in Tx
               PROVE  SlotGood(t)'
    OBVIOUS
  <2>1. SlotGood(t) /\ Unmoved(t) /\ Spares(t)
    BY InvariantBySlot DEF Unmoved, Spares
  <2> QED
    BY <2>1, UndisturbedSlot
<1>3. SlotsApart'
  BY InvariantBySlot DEF SlotsApart
<1>4. TablesGood'
  BY InvariantBySlot, TablesStayGood DEF TablesStay
<1> QED
  BY <1>1, <1>2, <1>3, <1>4, InvariantFromSlots

\* The upsert of a registration keeps the counters exact: who is not registered
\* and never departed has no answers and starts from zero, a refresh keeps what
\* was there.  It waits for whoever has written the row.
LEMMA RegisterUpsertKeeps ==
  ASSUME EraseInvariant, NEW t \in Tx, Erasing(t), RegisterUpsert(t)
  PROVE  EraseInvariant'
<1>1. /\ Typed /\ ErasureTyped /\ TablesGood
      /\ req[t].human \in Human
  BY InvariantBySlot, EraseTyped, ErasureTypes DEF Erasing, EraseRequest
<1> PICK u \in Human : u = req[t].human
  BY <1>1
<1>2. /\ registrations' = [registrations EXCEPT ![u] = Upserted(registrations[u])]
      /\ ~RegistrationBusy(t, u)
      /\ Release(t) /\ UNCHANGED <<open, envelopes, aggregates, tombstones, found, affected,
                                   rebuilt, departed>>
  BY DEF RegisterUpsert, eraseVars, history
<1>3. OthersUnmoved(t) /\ SlotGood(t)' /\ WritesApart(t)' /\ req'[t] = NoRequest
  BY <1>1, <1>2, EndedSlot
<1>4. /\ Upserted(registrations[u]) \in Registration
      /\ registrations[u] = NoRow =>
           /\ Upserted(registrations[u]).answers = 0
           /\ Upserted(registrations[u]).signals = 0
      /\ registrations[u] # NoRow =>
           /\ Upserted(registrations[u]).answers = registrations[u].answers
           /\ Upserted(registrations[u]).signals = registrations[u].signals
  BY <1>1 DEF Upserted, Registration, Typed
<1>5. /\ registrations'[u] = Upserted(registrations[u])
      /\ registrations' \in [Human -> Registration \cup {NoRow}]
      /\ \A v \in Human : v # u => registrations'[v] = registrations[v]
      /\ registrations'[u] # NoRow
  BY <1>1, <1>2, <1>4, Marks DEF Typed
<1>6. Typed' /\ ErasureTyped'
  <2>1. /\ open' \in [Question -> BOOLEAN]
        /\ envelopes' \in [Question -> [Human -> Answer \cup {NoRow}]]
        /\ aggregates' \in [Question -> Aggregate \cup {NoRow}]
    BY <1>1, <1>2 DEF Typed
  <2>2. ErasureTyped'
    BY <1>1, <1>2 DEF ErasureTyped
  <2> QED
    BY <1>1, <1>2, <1>5, <2>1, <2>2, ReleaseTyped
<1>7. TablesGood'
  <2>1. RowsOfPresent' /\ DriftOnlyWhereErased'
    BY <1>1, <1>2, <1>5 DEF TablesGood, RowsOfPresent, DriftOnlyWhereErased
  <2>2. CountersExactUnlessDeparted'
    <3> SUFFICES ASSUME NEW v \in Human \ departed, registrations'[v] # NoRow
                 PROVE  /\ registrations'[v].answers = Cardinality(Answered(envelopes, v))
                        /\ registrations'[v].signals = Cardinality(Signalled(envelopes, v))
      BY <1>2 DEF CountersExactUnlessDeparted
    <3>1. CASE registrations[v] # NoRow
      <4>1. /\ registrations'[v].answers = registrations[v].answers
            /\ registrations'[v].signals = registrations[v].signals
        BY <1>4, <1>5, <3>1
      <4> QED
        BY <1>1, <3>1, <4>1 DEF TablesGood, CountersExactUnlessDeparted
    <3>2. CASE registrations[v] = NoRow
      <4>1. \A q \in Question : envelopes[q][v] = NoRow
        BY <1>1, <3>2 DEF TablesGood, RowsOfPresent
      <4>2. /\ Cardinality(Answered(envelopes, v)) = 0
            /\ Cardinality(Signalled(envelopes, v)) = 0
        BY <4>1, NoRowsNoCounts
      <4>3. v = u
        BY <1>5, <3>2
      <4> QED
        BY <1>4, <1>5, <3>2, <4>2, <4>3
    <3> QED
      BY <3>1, <3>2
  <2> QED
    BY <2>1, <2>2 DEF TablesGood
<1>8. ASSUME NEW s \in Tx \ {t}
      PROVE  Spares(s)
  <2>1. regWrite[s] # Untouched => req[s].human # u
    BY <1>2 DEF RegistrationBusy
  <2>2. \A v \in Human :
          /\ registrations[v] # NoRow => registrations'[v] # NoRow
          /\ v = req[s].human /\ regWrite[s] # Untouched => registrations'[v] = registrations[v]
    BY <1>5, <2>1
  <2>3. Answering(s) => /\ req[s].question \in Question
                        /\ pc[s] \in Holding => lock[req[s].question] = s
    BY InvariantBySlot DEF SlotGood, AnswerOnCourse, RowOnCourse, Answering, Request
  <2>4. Answering(s) /\ pc[s] \in Holding => lock'[req[s].question] = lock[req[s].question]
    BY <1>3, <2>3 DEF OthersUnmoved
  <2> QED
    BY <1>2, <2>2, <2>4 DEF Spares
<1> QED
  BY <1>3, <1>6, <1>7, <1>8, StepKeeps

\* What the commit of an erasure leaves in the tables: it only deletes, and only
\* rows of its human; if that human has not departed it was an invalidation, and
\* no row is left and the counters are zero.
LEMMA CommitEraseTables ==
  ASSUME EraseInvariant, NEW t \in Tx, Erasing(t), CommitErase(t),
         NEW u \in Human, u = req[t].human
  PROVE  /\ envelopes' \in [Question -> Rows]
         /\ aggregates' \in [Question -> Aggregate \cup {NoRow}]
         /\ registrations' \in [Human -> Registration \cup {NoRow}]
         /\ \A p \in Question, v \in Human : v # u => envelopes'[p][v] = envelopes[p][v]
         /\ \A p \in Question : envelopes'[p][u] =
              IF envWrite[t][p] = Untouched THEN envelopes[p][u] ELSE NoRow
         /\ \A p \in Question \ rebuilt' : /\ envelopes'[p] = envelopes[p]
                                           /\ aggregates'[p] = aggregates[p]
         /\ \A v \in Human : v # u => registrations'[v] = registrations[v]
         /\ rebuilt \subseteq rebuilt' /\ departed \subseteq departed'
         /\ u \notin departed' =>
              /\ regWrite[t] # Untouched
              /\ registrations'[u] = [live |-> FALSE, answers |-> 0, signals |-> 0]
              /\ \A p \in Question : envelopes'[p][u] = NoRow
<1>1. /\ Typed /\ DeletesOnly(t) /\ ErasureOnCourse(t, u) /\ req[t] \in EraseRequest
  BY InvariantBySlot, EraseTyped DEF SlotGood, ErasureOnCourse, Erasing
<1>2. /\ pc[t] = "commitErase"
      /\ envelopes' = [q \in Question |-> VisibleRows(t, q)]
      /\ aggregates' = [q \in Question |-> VisibleAggregate(t, q)]
      /\ registrations' = IF regWrite[t] = Untouched THEN registrations
                          ELSE [registrations EXCEPT ![u] = regWrite[t]]
      /\ rebuilt' = rebuilt \cup {q \in Question : envWrite[t][q] # Untouched}
      /\ departed' = IF req[t].op = "delete" THEN departed \cup {u} ELSE departed
  BY DEF CommitErase
<1>3. \A q \in Question : /\ envWrite[t][q] \in {Untouched, NoRow}
                          /\ aggWrite[t][q] # Untouched => envWrite[t][q] = NoRow
  BY <1>1 DEF DeletesOnly
<1>4. envelopes' \in [Question -> Rows]
  <2>1. \A p \in Question : VisibleRows(t, p) \in Rows
    BY <1>1, VisibleRowsType
  <2> QED
    BY <1>2, <2>1
<1>5. aggregates' \in [Question -> Aggregate \cup {NoRow}]
  <2>1. \A p \in Question : VisibleAggregate(t, p) \in Aggregate \cup {NoRow}
    BY <1>1 DEF VisibleAggregate, Typed
  <2> QED
    BY <1>2, <2>1
<1>6. /\ registrations' \in [Human -> Registration \cup {NoRow}]
      /\ \A v \in Human : v # u => registrations'[v] = registrations[v]
      /\ regWrite[t] # Untouched => registrations'[u] = regWrite[t]
  BY <1>1, <1>2 DEF Typed
<1>7. /\ \A p \in Question, v \in Human : v # u => envelopes'[p][v] = envelopes[p][v]
      /\ \A p \in Question : envelopes'[p][u] =
           IF envWrite[t][p] = Untouched THEN envelopes[p][u] ELSE NoRow
  BY <1>2, <1>3 DEF VisibleRows
<1>8. ASSUME NEW p \in Question \ rebuilt'
      PROVE  envelopes'[p] = envelopes[p] /\ aggregates'[p] = aggregates[p]
  <2>1. envWrite[t][p] = Untouched /\ aggWrite[t][p] = Untouched
    BY <1>2, <1>3, <1>8, Marks
  <2> QED
    BY <1>1, <1>2, <2>1, RowsWithoutWrite DEF VisibleAggregate
<1>9. ASSUME u \notin departed'
      PROVE  /\ regWrite[t] # Untouched
             /\ registrations'[u] = [live |-> FALSE, answers |-> 0, signals |-> 0]
             /\ \A p \in Question : envelopes'[p][u] = NoRow
  <2>1. req[t].op = "invalidate" /\ u \notin departed
    BY <1>1, <1>2, <1>9 DEF DeletesOnly, EraseRequest
  <2>2. HoldsAndMissesNone(t, u)
    BY <1>1, <2>1 DEF ErasureOnCourse
  <2>3. /\ regWrite[t] = [live |-> FALSE, answers |-> 0, signals |-> 0]
        /\ \A p \in Question : envelopes[p][u] # NoRow => envWrite[t][p] = NoRow
    BY <1>2, <2>2 DEF HoldsAndMissesNone, Deleted, BeforeDeletion, EraseStage
  <2>4. [live |-> FALSE, answers |-> 0, signals |-> 0] # Untouched
    BY Marks DEF Registration
  <2> QED
    BY <1>3, <1>6, <1>7, <2>3, <2>4, Marks
<1> QED
  BY <1>2, <1>4, <1>5, <1>6, <1>7, <1>8, <1>9

\* It leaves the tables good.
LEMMA CommitEraseGood ==
  ASSUME EraseInvariant, NEW t \in Tx, Erasing(t), CommitErase(t)
  PROVE  TablesGood'
<1>1. TablesGood /\ req[t].human \in Human
  BY InvariantBySlot DEF Erasing, EraseRequest
<1> PICK u \in Human : u = req[t].human
  BY <1>1
<1>2. /\ \A p \in Question, v \in Human : v # u => envelopes'[p][v] = envelopes[p][v]
      /\ \A p \in Question \ rebuilt' : /\ envelopes'[p] = envelopes[p]
                                        /\ aggregates'[p] = aggregates[p]
      /\ \A v \in Human : v # u => registrations'[v] = registrations[v]
      /\ rebuilt \subseteq rebuilt' /\ departed \subseteq departed'
      /\ u \notin departed' =>
           /\ registrations'[u] = [live |-> FALSE, answers |-> 0, signals |-> 0]
           /\ \A p \in Question : envelopes'[p][u] = NoRow
  BY CommitEraseTables
<1>3. RowsOfPresent'
  BY <1>1, <1>2 DEF TablesGood, RowsOfPresent
<1>4. DriftOnlyWhereErased'
  BY <1>1, <1>2 DEF TablesGood, DriftOnlyWhereErased
<1>5. CountersExactUnlessDeparted'
  <2> SUFFICES ASSUME NEW v \in Human \ departed', registrations'[v] # NoRow
               PROVE  /\ registrations'[v].answers = Cardinality(Answered(envelopes', v))
                      /\ registrations'[v].signals = Cardinality(Signalled(envelopes', v))
    BY DEF CountersExactUnlessDeparted
  <2>1. CASE v = u
    <3>1. /\ Cardinality(Answered(envelopes', u)) = 0
          /\ Cardinality(Signalled(envelopes', u)) = 0
      BY <1>2, <2>1, NoRowsNoCounts
    <3> QED
      BY <1>2, <2>1, <3>1
  <2>2. CASE v # u
    <3>1. \A p \in Question : envelopes'[p][v] = envelopes[p][v]
      BY <1>2, <2>2
    <3>2. /\ Answered(envelopes', v) = Answered(envelopes, v)
          /\ Signalled(envelopes', v) = Signalled(envelopes, v)
      BY <3>1, SameRowsSameCounts, Zenon
    <3>3. registrations'[v] = registrations[v] /\ v \notin departed
      BY <1>2, <2>2
    <3> QED
      BY <1>1, <3>2, <3>3 DEF TablesGood, CountersExactUnlessDeparted
  <2> QED
    BY <2>1, <2>2
<1> QED
  BY <1>3, <1>4, <1>5 DEF TablesGood

\* It spares the others: a row that another has written it has not deleted, and
\* a registration that another has written it has not.
LEMMA CommitEraseSpares ==
  ASSUME EraseInvariant, NEW t \in Tx, Erasing(t), CommitErase(t), OthersUnmoved(t),
         NEW s \in Tx \ {t}
  PROVE  Spares(s)
<1>1. SlotsApart /\ SlotGood(s) /\ req[t].human \in Human
  BY InvariantBySlot DEF Erasing, EraseRequest
<1> PICK u \in Human : u = req[t].human
  BY <1>1
<1>2. /\ \A p \in Question, v \in Human : v # u => envelopes'[p][v] = envelopes[p][v]
      /\ \A p \in Question : envelopes'[p][u] =
           IF envWrite[t][p] = Untouched THEN envelopes[p][u] ELSE NoRow
      /\ \A p \in Question \ rebuilt' : /\ envelopes'[p] = envelopes[p]
                                        /\ aggregates'[p] = aggregates[p]
      /\ \A v \in Human : v # u => registrations'[v] = registrations[v]
      /\ u \notin departed' =>
           /\ regWrite[t] # Untouched
           /\ registrations'[u] = [live |-> FALSE, answers |-> 0, signals |-> 0]
  BY CommitEraseTables
<1>3. \A p \in Question, v \in Human : envelopes[p][v] = NoRow => envelopes'[p][v] = NoRow
  BY <1>2
<1>4. Answering(s) =>
        /\ req[s].question \in Question /\ req[s].human \in Human
        /\ pc[s] \in Holding => lock[req[s].question] = s
  BY <1>1 DEF SlotGood, AnswerOnCourse, RowOnCourse, Answering, Request
<1>5. Answering(s) /\ pc[s] \in Holding => lock'[req[s].question] = lock[req[s].question]
  BY <1>4 DEF OthersUnmoved
<1>6. ASSUME NEW v \in Human \ departed', v = req[s].human
      PROVE  /\ \A p \in Question : envWrite[s][p] # Untouched =>
                  envelopes'[p][v] = envelopes[p][v]
             /\ registrations[v] # NoRow => registrations'[v] # NoRow
             /\ regWrite[s] # Untouched => registrations'[v] = registrations[v]
  <2>1. CASE v # u
    BY <1>2, <2>1
  <2>2. CASE v = u
    <3>1. \A p \in Question : envWrite[s][p] # Untouched => envWrite[t][p] = Untouched
      BY <1>1, <1>6, <2>2 DEF SlotsApart
    <3>2. regWrite[s] = Untouched
      BY <1>1, <1>2, <1>6, <2>2 DEF SlotsApart
    <3>3. [live |-> FALSE, answers |-> 0, signals |-> 0] # NoRow
      BY Marks DEF Registration
    <3> QED
      BY <1>2, <2>2, <3>1, <3>2, <3>3
  <2> QED
    BY <2>1, <2>2
<1> QED
  BY <1>2, <1>3, <1>4, <1>5, <1>6 DEF Spares

\* The commit of an erasure keeps the invariant.
LEMMA CommitEraseKeeps ==
  ASSUME EraseInvariant, NEW t \in Tx, Erasing(t), CommitErase(t)
  PROVE  EraseInvariant'
<1>1. /\ Typed /\ ErasureTyped /\ Release(t) /\ req[t].human \in Human
      /\ open' = open /\ affected' = affected /\ found' = [found EXCEPT ![t] = {}]
  BY InvariantBySlot, EraseTyped, ErasureTypes DEF CommitErase, Erasing, EraseRequest
<1> PICK u \in Human : u = req[t].human
  BY <1>1
<1>2. /\ envelopes' \in [Question -> Rows]
      /\ aggregates' \in [Question -> Aggregate \cup {NoRow}]
      /\ registrations' \in [Human -> Registration \cup {NoRow}]
      /\ rebuilt \subseteq rebuilt' /\ departed \subseteq departed'
  BY CommitEraseTables
<1>3. \A s \in Tx \ {t} : found'[s] = found[s] /\ affected'[s] = affected[s]
  BY <1>1 DEF ErasureTyped
<1>4. OthersUnmoved(t) /\ SlotGood(t)' /\ WritesApart(t)' /\ req'[t] = NoRequest
  BY <1>1, <1>2, <1>3, EndedSlot
<1>5. Typed'
  <2>1. open' \in [Question -> BOOLEAN]
    BY <1>1 DEF Typed
  <2> QED
    BY <1>1, <1>2, <2>1, ReleaseTyped DEF Rows
<1>6. ErasureTyped'
  <2>1. /\ tombstones' \subseteq Human /\ rebuilt' \subseteq Question
        /\ departed' \subseteq Human
    BY <1>1 DEF ErasureTyped, CommitErase
  <2> QED
    BY <1>1, <2>1 DEF ErasureTyped
<1>7. TablesGood' /\ \A s \in Tx \ {t} : Spares(s)
  BY <1>4, CommitEraseGood, CommitEraseSpares
<1> QED
  BY <1>4, <1>5, <1>6, <1>7, StepKeeps

-----------------------------------------------------------------------------
(* The inductive invariant.                                                *)

\* The empty store satisfies the invariant.
LEMMA EraseInitially == EraseInit => EraseInvariant
<1> SUFFICES ASSUME EraseInit
             PROVE  EraseInvariant
  OBVIOUS
<1>1. Init /\ TallyInvariant /\ CounterInvariant
  BY TallyInit, CountersInit DEF EraseInit
<1>2. \A t \in Tx : pc[t] = "idle" /\ ~Answering(t) /\ ~Erasing(t)
  BY <1>1, StagesApart DEF Init, Answering, Erasing
<1>3. EraseTypeOK
  BY <1>1 DEF EraseInit, EraseTypeOK, TallyInvariant, TypeOK
<1>4. SlotsKnown /\ AnswersOnCourse /\ ErasuresOnCourse
  BY <1>2 DEF SlotsKnown, AnswersOnCourse, ErasuresOnCourse
<1>5. AnswersOwnQuestion /\ OneWriterPerRow /\ OneCounterWriterPerHuman
  BY <1>1, <1>2 DEF AnswersOwnQuestion, TallyInvariant, CounterInvariant, WritesOwnQuestion
<1>6. RowsOfPresent /\ CountersExactUnlessDeparted
  BY <1>1 DEF RowsOfPresent, CountersExactUnlessDeparted, CounterInvariant, CountersExact,
              RowsOfRegistered
<1>7. DriftOnlyWhereErased
  BY <1>1 DEF DriftOnlyWhereErased, TallyInvariant, AggregatesExact
<1> QED
  BY <1>3, <1>4, <1>5, <1>6, <1>7 DEF EraseInvariant

\* The statements of an answer belong to a slot that answers.
LEMMA StepAnswers ==
  ASSUME EraseInvariant, NEW t \in Tx, Step(t)
  PROVE  Answering(t)
<1>1. Answering(t) \/ Erasing(t)
  BY InvariantBySlot DEF SlotGood, Step
<1>2. pc[t] \in Stage
  BY DEF Step, Statement, Stage, InsertEnvelope, AcquireLock, ReadAggregate, BumpAggregate,
         CreateAggregate, OverrideEnvelope, RetryInsert, DeleteEnvelope, SnapshotEnvelopes,
         RebuildAggregate, AdjustAnswerCounters, Commit
<1> QED
  BY <1>1, <1>2, StagesApart DEF Erasing

\* The statements of an erasure belong to a slot that erases.
LEMMA StepErases ==
  ASSUME EraseInvariant, NEW t \in Tx, EraseStep(t)
  PROVE  Erasing(t)
<1>1. Answering(t) \/ Erasing(t)
  BY InvariantBySlot DEF SlotGood, EraseStep
<1>2. pc[t] \in EraseStage
  BY DEF EraseStep, EraseStage, RegisterUpsert, TombstoneOnly, RevokeRegistration, FindAnswers,
         DeleteAnswers, EraseSnapshot, EraseRebuild, DeleteRegistration, CommitErase
<1> QED
  BY <1>1, <1>2, StagesApart DEF Answering

\* A step of an answer, its beginning or the closing of a question keeps the
\* invariant.
LEMMA AnswerStepKeeps ==
  ASSUME EraseInvariant, AnswerStep
  PROVE  EraseInvariant'
<1>0. UNCHANGED eraseVars
  BY DEF AnswerStep
<1>1. ASSUME NEW q \in Question, Close(q)
      PROVE  EraseInvariant'
  <2>1. open' \in [Question -> BOOLEAN]
    BY <1>1, InvariantBySlot, EraseTyped DEF Close, Typed
  <2> QED
    BY <1>0, <1>1, <2>1, EraseOutsideKeeps DEF Close
<1>2. ASSUME NEW t \in Tx, NEW u \in Human, NEW q \in Question, NEW a \in Answer,
             Submit(t, u, q, a)
      PROVE  EraseInvariant'
  <2> DEFINE r == [op |-> "submit", question |-> q, human |-> u, answer |-> a]
  <2>1. r \in Request /\ r.op = "submit" /\ r.human = u
    BY DEF Request
  <2>2. /\ pc[t] = "idle" /\ registrations[u] # NoRow
        /\ req' = [req EXCEPT ![t] = r] /\ Goto(t, "insert")
        /\ UNCHANGED <<open, tables, lock, writes>>
    BY <1>2 DEF Submit, Live
  <2> HIDE DEF r
  <2> QED
    BY <1>0, <2>1, <2>2, EraseBeginAnswer
<1>3. ASSUME NEW t \in Tx, NEW u \in Human, NEW q \in Question, Revoke(t, u, q)
      PROVE  EraseInvariant'
  <2> DEFINE r == [op |-> "revoke", question |-> q, human |-> u, answer |-> NoRow]
  <2>1. r \in Request /\ r.op = "revoke" /\ r.human = u
    BY DEF Request
  <2>2. /\ pc[t] = "idle" /\ registrations[u] # NoRow
        /\ req' = [req EXCEPT ![t] = r] /\ Goto(t, "lockRevoke")
        /\ UNCHANGED <<open, tables, lock, writes>>
    BY <1>3 DEF Revoke, Live
  <2> HIDE DEF r
  <2> QED
    BY <1>0, <2>1, <2>2, EraseBeginAnswer
<1>4. ASSUME NEW t \in Tx, Step(t)
      PROVE  EraseInvariant'
  <2>1. Answering(t)
    BY <1>4, StepAnswers
  <2>2. req[t].question \in Question /\ req[t].human \in Human
    BY <2>1 DEF Answering, Request
  <2>3. CASE Statement(t, req[t].question, req[t].human)
    BY <1>0, <2>1, <2>2, <2>3, EraseStatementKeeps
  <2>4. CASE Commit(t)
    BY <1>0, <2>1, <2>4, EraseCommitKeeps
  <2> QED
    BY <1>4, <2>3, <2>4 DEF Step
<1> QED
  BY <1>1, <1>2, <1>3, <1>4 DEF AnswerStep

\* A step of a registration or an erasure keeps it.
LEMMA EraseStepKeeps ==
  ASSUME EraseInvariant, NEW t \in Tx, EraseStep(t)
  PROVE  EraseInvariant'
<1>1. Erasing(t)
  BY StepErases
<1>2. req[t].human \in Human
  BY <1>1 DEF Erasing, EraseRequest
<1>3. CASE EraseStatement(t, req[t].human)
  BY <1>1, <1>2, <1>3, ErasureStatementKeeps
<1>4. CASE RegisterUpsert(t)
  BY <1>1, <1>4, RegisterUpsertKeeps
<1>5. CASE TombstoneOnly(t)
  BY <1>1, <1>5, TombstoneOnlyKeeps
<1>6. CASE CommitErase(t)
  BY <1>1, <1>6, CommitEraseKeeps
<1> QED
  BY <1>3, <1>4, <1>5, <1>6 DEF EraseStep, EraseStatement

\* Every step keeps the invariant.
LEMMA EraseInductive == EraseInvariant /\ [EraseNext]_allVars => EraseInvariant'
<1> SUFFICES ASSUME EraseInvariant, [EraseNext]_allVars
             PROVE  EraseInvariant'
  OBVIOUS
<1>1. CASE AnswerStep
  BY <1>1, AnswerStepKeeps
<1>2. ASSUME NEW t \in Tx, NEW u \in Human, RegisterCheck(t, u)
      PROVE  EraseInvariant'
  BY <1>2, EraseBeginErasure DEF RegisterCheck
<1>3. ASSUME NEW t \in Tx, NEW u \in Human, InvalidateBegin(t, u)
      PROVE  EraseInvariant'
  <2>1. CASE registrations[u] = NoRow
    BY <1>3, <2>1, EraseBeginErasure DEF InvalidateBegin
  <2>2. CASE registrations[u] # NoRow
    BY <1>3, <2>2, EraseBeginErasure DEF InvalidateBegin
  <2> QED
    BY <2>1, <2>2
<1>4. ASSUME NEW t \in Tx, NEW u \in Human, DeleteBegin(t, u)
      PROVE  EraseInvariant'
  BY <1>4, EraseBeginErasure DEF DeleteBegin
<1>5. ASSUME NEW t \in Tx, EraseStep(t)
      PROVE  EraseInvariant'
  BY <1>5, EraseStepKeeps
<1>6. ASSUME NEW t \in Tx, EraseAbort(t)
      PROVE  EraseInvariant'
  BY <1>6, EraseAbortKeeps
<1>7. CASE UNCHANGED allVars
  <2>1. open' \in [Question -> BOOLEAN]
    BY <1>7, InvariantBySlot, EraseTyped DEF allVars, vars, Typed
  <2> QED
    BY <1>7, <2>1, EraseOutsideKeeps DEF allVars, vars
<1> QED
  BY <1>1, <1>2, <1>3, <1>4, <1>5, <1>6, <1>7 DEF EraseNext

-----------------------------------------------------------------------------
(* Settled questions, under erasures.                                      *)

\* A submit that a step leaves under way was under way before, or is about a
\* question that is open.
OnlyOpenIsSubmitted(t) ==
  pc'[t] # "idle" /\ req'[t].op = "submit" =>
    open[req'[t].question] \/ (pc[t] # "idle" /\ req'[t] = req[t])

\* Nobody submits anew in a slot that does not move, or whose transaction ends.
LEMMA NoNewSubmit ==
  ASSUME Typed, NEW t \in Tx,
         \/ pc'[t] = pc[t] /\ req'[t] = req[t]
         \/ Release(t)
  PROVE  OnlyOpenIsSubmitted(t)
BY DEF OnlyOpenIsSubmitted, Typed, Release, Goto

\* No step opens a question, and only open ones are submitted to; a stored answer
\* changes at a commit only.
LEMMA AnswerStepSettles ==
  ASSUME EraseInvariant, AnswerStep
  PROVE  /\ \A q \in Question : open'[q] => open[q]
         /\ \A t \in Tx : OnlyOpenIsSubmitted(t)
         /\ envelopes' = envelopes \/ \E t \in Tx : Answering(t) /\ Commit(t)
<1>0. Typed
  BY InvariantBySlot, EraseTyped
<1> DEFINE Goal == /\ \A q \in Question : open'[q] => open[q]
                   /\ \A t \in Tx : OnlyOpenIsSubmitted(t)
                   /\ envelopes' = envelopes \/ \E t \in Tx : Answering(t) /\ Commit(t)
<1>1. ASSUME NEW q \in Question, Close(q)
      PROVE  Goal
  <2>1. \A t \in Tx : OnlyOpenIsSubmitted(t)
    BY <1>0, <1>1, NoNewSubmit DEF Close
  <2> QED
    BY <1>0, <1>1, <2>1 DEF Close, tables, Typed
<1>2. ASSUME NEW t \in Tx, NEW u \in Human, NEW q \in Question,
             (\E a \in Answer : Submit(t, u, q, a)) \/ Revoke(t, u, q)
      PROVE  Goal
  <2>1. OnlyOpenIsSubmitted(t)
    BY <1>0, <1>2 DEF OnlyOpenIsSubmitted, Submit, Revoke, Typed
  <2>2. ASSUME NEW s \in Tx \ {t}
        PROVE  OnlyOpenIsSubmitted(s)
    BY <1>0, <1>2, NoNewSubmit DEF Submit, Revoke, Goto, Typed
  <2> QED
    BY <1>2, <2>1, <2>2 DEF Submit, Revoke, tables
<1>3. ASSUME NEW t \in Tx, Step(t)
      PROVE  Goal
  <2>1. Answering(t) /\ req[t].question \in Question /\ req[t].human \in Human
    BY <1>3, StepAnswers DEF Answering, Request
  <2>2. CASE Commit(t)
    <3>1. \A s \in Tx : OnlyOpenIsSubmitted(s)
      BY <1>0, <2>2, NoNewSubmit DEF Commit, Release, Goto, Typed
    <3> QED
      BY <2>1, <2>2, <3>1 DEF Commit
  <2>3. CASE Statement(t, req[t].question, req[t].human)
    <3>1. OnlyOf(t) /\ pc[t] # "idle"
      BY <1>0, <1>3, <2>1, <2>3, StatementFrame DEF Step
    <3>2. \A s \in Tx : OnlyOpenIsSubmitted(s)
      BY <3>1 DEF OnlyOf, OnlyOpenIsSubmitted
    <3> QED
      BY <3>1, <3>2 DEF OnlyOf
  <2> QED
    BY <1>3, <2>2, <2>3 DEF Step
<1> QED
  BY <1>1, <1>2, <1>3 DEF AnswerStep

\* The same of the steps of registrations and erasures.
LEMMA ErasureSettles ==
  ASSUME EraseInvariant, NEW t \in Tx,
         \/ \E u \in Human : RegisterCheck(t, u) \/ InvalidateBegin(t, u) \/ DeleteBegin(t, u)
         \/ EraseStep(t)
         \/ EraseAbort(t)
  PROVE  /\ open' = open
         /\ \A s \in Tx : OnlyOpenIsSubmitted(s)
         /\ envelopes' = envelopes \/ (Erasing(t) /\ CommitErase(t))
<1>0. /\ Typed /\ ErasureTyped
  BY InvariantBySlot, EraseTyped, ErasureTypes
<1> DEFINE Goal == /\ open' = open
                   /\ \A s \in Tx : OnlyOpenIsSubmitted(s)
                   /\ envelopes' = envelopes \/ (Erasing(t) /\ CommitErase(t))
<1>1. ASSUME NEW op \in {"register", "invalidate", "delete"}, NEW u \in Human, NEW stage,
             Begin(t, op, u, stage)
      PROVE  Goal
  <2>1. OnlyOpenIsSubmitted(t)
    BY <1>0, <1>1 DEF OnlyOpenIsSubmitted, Begin, Typed
  <2>2. ASSUME NEW s \in Tx \ {t}
        PROVE  OnlyOpenIsSubmitted(s)
    BY <1>0, <1>1, NoNewSubmit DEF Begin, Goto, Typed
  <2> QED
    BY <1>1, <2>1, <2>2 DEF Begin, tables
<1>2. ASSUME NEW u \in Human,
             RegisterCheck(t, u) \/ InvalidateBegin(t, u) \/ DeleteBegin(t, u)
      PROVE  Goal
  BY <1>1, <1>2 DEF RegisterCheck, InvalidateBegin, DeleteBegin
<1>3. ASSUME Release(t), open' = open,
             envelopes' = envelopes \/ (Erasing(t) /\ CommitErase(t))
      PROVE  Goal
  BY <1>0, <1>3, NoNewSubmit DEF Release, Goto, Typed
<1>4. CASE EraseAbort(t)
  BY <1>3, <1>4 DEF EraseAbort, Abort, tables
<1>5. CASE EraseStep(t)
  <2>1. Erasing(t) /\ req[t].human \in Human
    BY <1>5, StepErases DEF Erasing, EraseRequest
  <2>2. CASE RegisterUpsert(t) \/ TombstoneOnly(t) \/ CommitErase(t)
    BY <1>3, <2>1, <2>2 DEF RegisterUpsert, TombstoneOnly, CommitErase, tables
  <2>3. CASE EraseStatement(t, req[t].human)
    <3>1. DeletesOnly(t)
      BY <2>1, InvariantBySlot DEF SlotGood, ErasureOnCourse
    <3>2. /\ OthersUnmoved(t) /\ TablesStay /\ req'[t].op = req[t].op
      BY <1>0, <2>1, <2>3, <3>1, EraseStatementFrame, EraseStatementTyped
    <3>3. req[t].op # "submit"
      BY <2>1 DEF Erasing, EraseRequest
    <3>4. \A s \in Tx : OnlyOpenIsSubmitted(s)
      BY <3>2, <3>3 DEF OthersUnmoved, Unmoved, OnlyOpenIsSubmitted
    <3>5. open' = open
      BY <2>3 DEF EraseStatement, RevokeRegistration, FindAnswers, DeleteAnswers,
                  EraseSnapshot, EraseRebuild, DeleteRegistration
    <3> QED
      BY <3>2, <3>4, <3>5 DEF TablesStay
  <2> QED
    BY <1>5, <2>2, <2>3 DEF EraseStep, EraseStatement
<1> QED
  BY <1>2, <1>4, <1>5

\* What is settled stays settled, and loses rows to withdrawals and erasures only.
LEMMA EraseSettledStep ==
  ASSUME EraseInvariant, [EraseNext]_allVars, NEW q \in Question, Settled(q)
  PROVE  /\ Settled(q)'
         /\ \A u \in Human : envelopes'[q][u] \in {envelopes[q][u], NoRow}
<1>1. /\ \A p \in Question : open'[p] => open[p]
      /\ \A t \in Tx : OnlyOpenIsSubmitted(t)
      /\ \/ envelopes' = envelopes
         \/ \E t \in Tx : Answering(t) /\ Commit(t) /\ UNCHANGED eraseVars
         \/ \E t \in Tx : Erasing(t) /\ CommitErase(t)
  <2>1. CASE AnswerStep
    BY <2>1, AnswerStepSettles DEF AnswerStep
  <2>2. ASSUME NEW t \in Tx,
               \/ \E u \in Human : RegisterCheck(t, u) \/ InvalidateBegin(t, u) \/ DeleteBegin(t, u)
               \/ EraseStep(t)
               \/ EraseAbort(t)
        PROVE  /\ open' = open
               /\ \A s \in Tx : OnlyOpenIsSubmitted(s)
               /\ envelopes' = envelopes \/ (Erasing(t) /\ CommitErase(t))
    BY <2>2, ErasureSettles
  <2>3. CASE UNCHANGED allVars
    BY <2>3 DEF allVars, vars, tables, OnlyOpenIsSubmitted
  <2> QED
    BY <2>1, <2>2, <2>3 DEF EraseNext
<1>2. Settled(q)'
  <2>1. ~open'[q]
    BY <1>1 DEF Settled
  <2>2. ASSUME NEW t \in Tx, pc'[t] # "idle", req'[t].op = "submit"
        PROVE  req'[t].question # q
    BY <1>1, <2>2 DEF Settled, OnlyOpenIsSubmitted
  <2> QED
    BY <2>1, <2>2 DEF Settled
<1>3. ASSUME NEW t \in Tx, Answering(t), Commit(t), UNCHANGED eraseVars, NEW v \in Human
      PROVE  envelopes'[q][v] \in {envelopes[q][v], NoRow}
  <2>1. /\ req[t].question \in Question /\ req[t].human \in Human
        /\ req[t].op \in {"submit", "revoke"} /\ pc[t] # "idle"
    BY <1>3 DEF Answering, Request
  <2> PICK p \in Question, u \in Human : p = req[t].question /\ u = req[t].human
    BY <2>1
  <2>2. /\ \A r \in Question \ {p} : envelopes'[r] = envelopes[r]
        /\ envelopes'[p] = VisibleRows(t, p)
    BY <1>3, EraseCommitTables
  <2>3. CASE p # q
    BY <2>2, <2>3
  <2>4. CASE p = q
    <3>1. req[t].op = "revoke"
      BY <2>1, <2>4 DEF Settled
    <3>2. RowOnCourse(t, p, u)
      BY <1>3, InvariantBySlot DEF SlotGood, AnswerOnCourse
    <3> QED
      BY <2>2, <2>4, <3>1, <3>2 DEF RowOnCourse, VisibleRows
  <2> QED
    BY <2>3, <2>4
<1>4. ASSUME NEW t \in Tx, Erasing(t), CommitErase(t), NEW v \in Human
      PROVE  envelopes'[q][v] \in {envelopes[q][v], NoRow}
  <2>1. req[t].human \in Human
    BY <1>4 DEF Erasing, EraseRequest
  <2> PICK u \in Human : u = req[t].human
    BY <2>1
  <2>2. /\ v # u => envelopes'[q][v] = envelopes[q][v]
        /\ envelopes'[q][u] = IF envWrite[t][q] = Untouched THEN envelopes[q][u] ELSE NoRow
    BY <1>4, CommitEraseTables
  <2> QED
    BY <2>2
<1> QED
  BY <1>1, <1>2, <1>3, <1>4

-----------------------------------------------------------------------------
(* The theorems.                                                           *)

\* The answer store under erasures keeps its inductive invariant.
THEOREM ErasureIsInvariant == EraseSpec => []EraseInvariant
<1>1. EraseInit => EraseInvariant
  BY EraseInitially
<1>2. EraseInvariant /\ [EraseNext]_allVars => EraseInvariant'
  BY EraseInductive
<1> QED
  BY <1>1, <1>2, PTL DEF EraseSpec

\* Type correctness of the store together with the registrations and erasures of
\* routes/register.ts, routes/account.ts and selfRevocations.ts.
THEOREM ErasureTypeCorrect == EraseSpec => []EraseTypeOK
<1>1. EraseInvariant => EraseTypeOK
  BY DEF EraseInvariant
<1> QED
  BY <1>1, ErasureIsInvariant, PTL

\* A question's published counts leave its stored answers only after an erasure
\* has deleted an answer of it and rebuilt the aggregate without the advisory
\* lock (deleteEnvelopesByVoterTags and recomputeAggregate of queries.ts): no
\* other interleaving of submits, revokes, registrations and erasures does it.
THEOREM DriftStaysWhereErased == EraseSpec => []DriftOnlyWhereErased
<1>1. EraseInvariant => DriftOnlyWhereErased
  BY DEF EraseInvariant
<1> QED
  BY <1>1, ErasureIsInvariant, PTL

\* The counters of a human whose account was never deleted are the numbers of
\* that human's stored answers in every committed state, through on-chain
\* invalidations and new registrations that race with answers: the UPDATE of the
\* registration with which an invalidation begins keeps answers from counting.
THEOREM CountersStayExactUnlessDeparted == EraseSpec => []CountersExactUnlessDeparted
<1>1. EraseInvariant => CountersExactUnlessDeparted
  BY DEF EraseInvariant
<1> QED
  BY <1>1, ErasureIsInvariant, PTL

\* The retried INSERT never finds a committed row, also while erasures delete rows
\* without the lock of the question: the DUPLICATE answer of the submit handler
\* (routes/envelopes.ts) stays dead code.
THEOREM DuplicateStaysDead == EraseSpec => []DuplicateNeverReturned
<1>1. EraseInvariant => DuplicateNeverReturned
  <2> SUFFICES ASSUME EraseInvariant, NEW t \in Tx, pc[t] = "conflicted"
               PROVE  FALSE
    BY DEF DuplicateNeverReturned
  <2>1. SlotGood(t)
    BY InvariantBySlot
  <2>2. ~Erasing(t)
    BY DEF Erasing, EraseStage
  <2> QED
    BY <2>1, <2>2 DEF SlotGood, AnswerOnCourse, RowOnCourse
<1> QED
  BY <1>1, ErasureIsInvariant, PTL

\* What the asker sees of a closed question whose submits have been dealt with can
\* lose answers, to revocations and erasures, but gains none and changes none.
THEOREM SettledOnlyShrinksUnderErasure == EraseSpec => SettledOnlyShrinks
<1>1. ASSUME EraseInvariant, [EraseNext]_allVars
      PROVE  [\A q \in Question :
                Settled(q) => /\ Settled(q)'
                              /\ \A u \in Human :
                                   envelopes'[q][u] \in {envelopes[q][u], NoRow}]_vars
  BY <1>1, EraseSettledStep
<1> QED
  BY <1>1, ErasureIsInvariant, PTL DEF EraseSpec, SettledOnlyShrinks
=============================================================================
