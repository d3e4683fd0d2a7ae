------------------------------ MODULE Erasure -------------------------------
(***************************************************************************)
(* The answer store together with what removes a whole person from it:     *)
(*                                                                         *)
(*   invalidate  a Self on-chain invalidation, applied by the listener     *)
(*               (queries.ts invalidateFirstMatchingRegistrationAndVotes,  *)
(*               invalidateRegistrationAndVotes);                          *)
(*   delete      POST /v1/account/delete (queries.ts deleteAccount).       *)
(*                                                                         *)
(* Both delete the person's envelopes on every question and rebuild each   *)
(* affected aggregate in one transaction, and neither takes the advisory   *)
(* lock of the questions.  An invalidation begins with a SELECT that binds *)
(* an array as ANY(..::text[]): in the code as it stands it throws, and    *)
(* nothing follows (SelectOutcomes = {"throws"}); "answers" is the SELECT  *)
(* once it is mended, for which the rest is modelled, and proved.          *)
(* Registration is split here at its await: the tombstone is looked up     *)
(* first and the row is written later.                                     *)
(*                                                                         *)
(* The questions' secrets are live throughout, so that every voter tag can *)
(* be derived.  The referral and reputation rows that deleteAccount also   *)
(* removes are not part of this module.                                    *)
(***************************************************************************)
EXTENDS AnswerStore

CONSTANT SelectOutcomes   \* what the SELECT of an invalidation may do

ASSUME EraseAssumption == SelectOutcomes \subseteq {"throws", "answers"}

VARIABLES
  tombstones,   \* committed self_nullifier_invalidations
  found,        \* found[t]: questions with answers, as t's SELECT DISTINCT saw them
  affected,     \* affected[t]: questions t has deleted from and not yet rebuilt
  rebuilt,      \* history: questions an erasure has rebuilt and committed
  departed      \* history: humans whose account has been deleted

history   == <<rebuilt, departed>>
eraseVars == <<tombstones, found, affected, history>>
allVars   == <<vars, eraseVars>>

EraseStage == {"upsert", "tombstoneOnly", "tombstone", "findAnswers",
               "deleteAnswers", "eraseSnapshot", "eraseRebuild",
               "deleteRegistration", "commitErase"}

EraseRequest == [op : {"register", "invalidate", "delete"}, human : Human,
                 question : Question \cup {NoRow}, answer : {NoRow}]

EraseTypeOK ==
  /\ open \in [Question -> BOOLEAN]
  /\ envelopes \in [Question -> [Human -> Answer \cup {NoRow}]]
  /\ aggregates \in [Question -> Aggregate \cup {NoRow}]
  /\ registrations \in [Human -> Registration \cup {NoRow}]
  /\ lock \in [Question -> Tx \cup {NoTx}]
  /\ pc \in [Tx -> Stage \cup EraseStage]
  /\ req \in [Tx -> Request \cup EraseRequest \cup {NoRequest}]
  /\ envWrite \in [Tx -> [Question -> Answer \cup {NoRow, Untouched}]]
  /\ aggWrite \in [Tx -> [Question -> Aggregate \cup {NoRow, Untouched}]]
  /\ regWrite \in [Tx -> Registration \cup {NoRow, Untouched}]
  /\ snapshot \in [Tx -> Aggregate \cup {NoRow, Untouched}]
  /\ tombstones \subseteq Human
  /\ found \in [Tx -> SUBSET Question]
  /\ affected \in [Tx -> SUBSET Question]
  /\ rebuilt \subseteq Question
  /\ departed \subseteq Human

EraseInit ==
  /\ Init
  /\ tombstones = {}
  /\ found = [t \in Tx |-> {}]
  /\ affected = [t \in Tx |-> {}]
  /\ rebuilt = {}
  /\ departed = {}

Begin(t, op, u, stage) ==
  /\ pc[t] = "idle"
  /\ req' = [req EXCEPT ![t] = [op |-> op, human |-> u,
                                question |-> NoRow, answer |-> NoRow]]
  /\ Goto(t, stage)
  /\ UNCHANGED <<open, tables, lock, writes, eraseVars>>

-----------------------------------------------------------------------------
(* POST /v1/register: isSelfNullifierInvalidated, then the upsert.         *)

RegisterCheck(t, u) ==
  /\ u \notin tombstones
  /\ Begin(t, "register", u, "upsert")

RegisterUpsert(t) ==
  /\ pc[t] = "upsert"
  /\ ~RegistrationBusy(t, req[t].human)
  /\ registrations' = [registrations EXCEPT ![req[t].human] = Upserted(@)]
  /\ Release(t)
  /\ UNCHANGED <<open, envelopes, aggregates, eraseVars>>

-----------------------------------------------------------------------------
(* The two erasures.                                                       *)

\* The listener applies one log at a time; the SELECT for a registration of
\* the nullifier decides between the two ways to apply it.  If it throws, it
\* leaves all tables as they are.
InvalidateBegin(t, u) ==
  /\ "answers" \in SelectOutcomes
  /\ \A s \in Tx : pc[s] # "idle" => req[s].op # "invalidate"
  /\ Begin(t, "invalidate", u,
           IF registrations[u] = NoRow THEN "tombstoneOnly" ELSE "tombstone")

\* No registration: only the tombstone is inserted.
TombstoneOnly(t) ==
  /\ pc[t] = "tombstoneOnly"
  /\ tombstones' = tombstones \cup {req[t].human}
  /\ Release(t)
  /\ UNCHANGED <<open, tables, found, affected, history>>

\* Account deletion needs the agent's token or an asker session; the second
\* does not require a registration, and both exclude a tombstoned identity.
DeleteBegin(t, u) ==
  /\ u \notin tombstones
  /\ Begin(t, "delete", u, "findAnswers")

\* (faulty variant: the counters are left as they are)
RevokeKeepingCounters(t, u) ==
  /\ pc[t] = "tombstone"
  /\ IF registrations[u] = NoRow
     THEN UNCHANGED regWrite
     ELSE /\ ~RegistrationBusy(t, u)
          /\ regWrite' = [regWrite EXCEPT ![t] = [registrations[u] EXCEPT !.live = FALSE]]
  /\ Goto(t, "findAnswers")
  /\ UNCHANGED <<open, tables, lock, req, envWrite, aggWrite, snapshot, eraseVars>>

\* INSERT the tombstone, and revoke the registration with its counters zeroed.
RevokeRegistration(t, u) ==
  /\ pc[t] = "tombstone"
  /\ IF registrations[u] = NoRow
     THEN UNCHANGED regWrite
     ELSE /\ ~RegistrationBusy(t, u)
          /\ regWrite' = [regWrite EXCEPT ![t] =
                            [live |-> FALSE, answers |-> 0, signals |-> 0]]
  /\ Goto(t, "findAnswers")
  /\ UNCHANGED <<open, tables, lock, req, envWrite, aggWrite, snapshot, eraseVars>>

\* SELECT DISTINCT question_id FROM envelopes, and a voter tag for each.
FindAnswers(t) ==
  /\ pc[t] = "findAnswers"
  /\ found' = [found EXCEPT ![t] = {q \in Question : Voters(envelopes[q]) # {}}]
  /\ Goto(t, "deleteAnswers")
  /\ UNCHANGED <<open, tables, lock, req, writes, tombstones, affected, history>>

NextErased(t, left) ==
  IF left # {} THEN "eraseSnapshot"
  ELSE IF req[t].op = "delete" THEN "deleteRegistration" ELSE "commitErase"

\* deleteEnvelopesByVoterTags: one DELETE over all the tags.
DeleteAnswers(t, u) ==
  LET hit == {q \in found[t] : envelopes[q][u] # NoRow}
  IN /\ pc[t] = "deleteAnswers"
     /\ \A q \in hit : ~RowBusy(t, q, u)
     /\ envWrite' = [envWrite EXCEPT ![t] =
                       [q \in Question |-> IF q \in hit THEN NoRow ELSE Untouched]]
     /\ affected' = [affected EXCEPT ![t] = hit]
     /\ Goto(t, NextErased(t, hit))
     /\ UNCHANGED <<open, tables, lock, req, aggWrite, regWrite, snapshot,
                    tombstones, found, history>>

\* recomputeAggregate of one affected question, without its advisory lock.
EraseSnapshot(t, q) ==
  /\ pc[t] = "eraseSnapshot"
  /\ q \in affected[t]
  /\ snapshot' = [snapshot EXCEPT ![t] = TallyOf(VisibleRows(t, q))]
  /\ req' = [req EXCEPT ![t].question = q]
  /\ Goto(t, "eraseRebuild")
  /\ UNCHANGED <<open, tables, lock, envWrite, aggWrite, regWrite, eraseVars>>

EraseRebuild(t, q) ==
  /\ pc[t] = "eraseRebuild"
  /\ IF snapshot[t] = NoRow /\ aggregates[q] = NoRow
     THEN UNCHANGED aggWrite
     ELSE /\ ~AggregateBusy(t, q)
          /\ aggWrite' = [aggWrite EXCEPT ![t][q] = snapshot[t]]
  /\ affected' = [affected EXCEPT ![t] = @ \ {q}]
  /\ Goto(t, NextErased(t, affected[t] \ {q}))
  /\ UNCHANGED <<open, tables, lock, req, envWrite, regWrite, snapshot,
                 tombstones, found, history>>

\* The last statement of deleteAccount: DELETE FROM registrations.
DeleteRegistration(t, u) ==
  /\ pc[t] = "deleteRegistration"
  /\ IF registrations[u] = NoRow
     THEN UNCHANGED regWrite
     ELSE /\ ~RegistrationBusy(t, u)
          /\ regWrite' = [regWrite EXCEPT ![t] = NoRow]
  /\ Goto(t, "commitErase")
  /\ UNCHANGED <<open, tables, lock, req, envWrite, aggWrite, snapshot, eraseVars>>

CommitErase(t) ==
  /\ pc[t] = "commitErase"
  /\ envelopes' = [q \in Question |-> VisibleRows(t, q)]
  /\ aggregates' = [q \in Question |-> VisibleAggregate(t, q)]
  /\ registrations' = IF regWrite[t] = Untouched THEN registrations
                      ELSE [registrations EXCEPT ![req[t].human] = regWrite[t]]
  /\ tombstones' = IF req[t].op = "invalidate"
                   THEN tombstones \cup {req[t].human} ELSE tombstones
  /\ rebuilt' = rebuilt \cup {q \in Question : envWrite[t][q] # Untouched}
  /\ departed' = IF req[t].op = "delete"
                 THEN departed \cup {req[t].human} ELSE departed
  /\ found' = [found EXCEPT ![t] = {}]
  /\ Release(t)
  /\ UNCHANGED <<open, affected>>

EraseAbort(t) ==
  /\ Abort(t)
  /\ found' = [found EXCEPT ![t] = {}]
  /\ affected' = [affected EXCEPT ![t] = {}]
  /\ UNCHANGED <<tombstones, history>>

-----------------------------------------------------------------------------
EraseStep(t) ==
  LET u == req[t].human
      q == req[t].question
  IN /\ pc[t] # "idle"
     /\ \/ RegisterUpsert(t)
        \/ TombstoneOnly(t)
        \/ RevokeRegistration(t, u)
        \/ FindAnswers(t)
        \/ DeleteAnswers(t, u)
        \/ \E p \in affected[t] : EraseSnapshot(t, p)
        \/ EraseRebuild(t, q)
        \/ DeleteRegistration(t, u)
        \/ CommitErase(t)

AnswerStep ==
  /\ \/ \E q \in Question : Close(q)
     \/ \E t \in Tx, u \in Human, q \in Question :
           \/ \E a \in Answer : Submit(t, u, q, a)
           \/ Revoke(t, u, q)
     \/ \E t \in Tx : Step(t)
  /\ UNCHANGED eraseVars

EraseNext ==
  \/ AnswerStep
  \/ \E t \in Tx, u \in Human :
        RegisterCheck(t, u) \/ InvalidateBegin(t, u) \/ DeleteBegin(t, u)
  \/ \E t \in Tx : EraseStep(t) \/ EraseAbort(t)

EraseSpec == EraseInit /\ [][EraseNext]_allVars

-----------------------------------------------------------------------------
(* Properties that hold.                                                   *)

\* Whatever the interleaving, the published counts of a question drift from
\* its answers only if an erasure has deleted an answer of that question and
\* rebuilt it without the question's lock.
DriftOnlyWhereErased ==
  \A q \in Question \ rebuilt : aggregates[q] = TallyOf(envelopes[q])

\* The counters of a human who never deleted the account stay exact through
\* answers, revocations, invalidations and new registrations: an invalidation
\* holds the registration row from its first statement to its commit, so no
\* answer is counted in between.
CountersExactUnlessDeparted ==
  \A u \in Human \ departed :
    registrations[u] # NoRow =>
      /\ registrations[u].answers = Cardinality(Answered(envelopes, u))
      /\ registrations[u].signals = Cardinality(Signalled(envelopes, u))

\* Why they hold.  A slot is idle, answers, or erases.
Erasing(t) == pc[t] \in EraseStage /\ req[t] \in EraseRequest
SlotsKnown == \A t \in Tx : pc[t] = "idle" \/ Answering(t) \/ Erasing(t)

\* An idle slot has written nothing, and a request that answers nothing on other
\* questions than its own.
AnswersOwnQuestion ==
  \A t \in Tx, q \in Question :
    pc[t] = "idle" \/ (Answering(t) /\ q # req[t].question) =>
      envWrite[t][q] = Untouched /\ aggWrite[t][q] = Untouched

\* A request that answers is on course with its row, erasures or not.  What the
\* counts in its hands are worth is known only where nothing was rebuilt without
\* the lock, and its account of the counters is true for who has not departed.
AnswerOnCourse(t, q, u) ==
  /\ RowOnCourse(t, q, u)
  /\ q \notin rebuilt => TallyOnCourse(t, q)
  /\ u \notin departed => CountedOnCourse(t, q, u)

AnswersOnCourse ==
  \A t \in Tx : Answering(t) => AnswerOnCourse(t, req[t].question, req[t].human)

\* An erasure only deletes rows, it publishes counts only where it has deleted
\* one, and it touches the registration when its kind and its stage say so.
BeforeDeletion == {"upsert", "tombstoneOnly", "tombstone", "findAnswers", "deleteAnswers"}
Deleted == EraseStage \ BeforeDeletion

DeletesOnly(t) ==
  /\ (req[t].op = "register") = (pc[t] = "upsert")
  /\ pc[t] \in {"tombstoneOnly", "tombstone"} => req[t].op = "invalidate"
  /\ pc[t] = "deleteRegistration" => req[t].op = "delete"
  /\ \A q \in Question :
       /\ envWrite[t][q] \in {Untouched, NoRow}
       /\ aggWrite[t][q] # Untouched => envWrite[t][q] = NoRow
       /\ pc[t] \in BeforeDeletion => envWrite[t][q] = Untouched
       /\ pc[t] \in Deleted /\ q \in affected[t] => envWrite[t][q] = NoRow
  /\ pc[t] = "eraseRebuild" => req[t].question \in affected[t]
  /\ pc[t] \in {"upsert", "tombstoneOnly", "tombstone"} => regWrite[t] = Untouched
  /\ req[t].op = "delete" /\ pc[t] # "commitErase" => regWrite[t] = Untouched

\* An invalidation holds the registration row, zeroed, from its first statement
\* on.  So nobody counts a new answer of its human, no row of that human can
\* appear after its SELECT, and its DELETE misses none.
HoldsAndMissesNone(t, u) ==
  /\ pc[t] = "tombstone" => registrations[u] # NoRow
  /\ pc[t] \notin {"tombstoneOnly", "tombstone"} =>
       regWrite[t] = [live |-> FALSE, answers |-> 0, signals |-> 0]
  /\ \A q \in Question : envelopes[q][u] # NoRow =>
       /\ pc[t] = "deleteAnswers" => q \in found[t]
       /\ pc[t] \in Deleted => envWrite[t][q] = NoRow

ErasureOnCourse(t, u) ==
  /\ DeletesOnly(t)
  /\ req[t].op = "invalidate" /\ u \notin departed => HoldsAndMissesNone(t, u)

ErasuresOnCourse ==
  \A t \in Tx : Erasing(t) => ErasureOnCourse(t, req[t].human)

\* Who is not registered and never departed has no answers.
RowsOfPresent ==
  \A q \in Question, u \in Human \ departed :
    registrations[u] = NoRow => envelopes[q][u] = NoRow

EraseInvariant ==
  /\ EraseTypeOK
  /\ SlotsKnown
  /\ AnswersOwnQuestion
  /\ OneWriterPerRow
  /\ OneCounterWriterPerHuman
  /\ AnswersOnCourse
  /\ ErasuresOnCourse
  /\ RowsOfPresent
  /\ DriftOnlyWhereErased
  /\ CountersExactUnlessDeparted

-----------------------------------------------------------------------------
(* Statements of the repository that the code does not keep, together with *)
(* AggregatesExact of AnswerStore.                                         *)

\* deleteAccount removes "the user's own answers on LIVE questions" and the
\* registration (queries.ts): without a registration there is no answer left.
\* Refuted by a submit that is admitted before the deletion and commits after
\* it.
DeletedLeavesNoAnswer ==
  \A u \in Human :
    registrations[u] = NoRow => \A q \in Question : envelopes[q][u] = NoRow
=============================================================================
