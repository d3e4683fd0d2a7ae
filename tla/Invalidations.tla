---------------------------- MODULE Invalidations ----------------------------
(***************************************************************************)
(* The listener and the question secrets together: applyLog of             *)
(* SelfRevocations is the erasure of QuestionSecrets, made of several      *)
(* statements between which answers, revocations, the reaper, a failing    *)
(* poll and a crash may come.  A nullifier on the chain is the human it    *)
(* belongs to.  With SelectOutcomes = {"throws"}, which is the code as it  *)
(* stands, no erasure ever begins.                                         *)
(***************************************************************************)
EXTENDS QuestionSecrets, SelfRevocations

CONSTANT Listener   \* the slot the listener works in

ASSUME InvalidationAssumption == Nullifier = Human /\ Listener \in Slot

allVars == <<secretsVars, listenerVars>>

Init == SecretsInit /\ ListenerInit

\* The handlers, time and the reaper.
SecretsStep ==
  /\ \/ \E q \in Question : Pass(q)
     \/ Reap
     \/ \E t \in Slot \ {Listener} : Requests(t) \/ AnswerSteps(t) \/ Abandon(t)
     \/ EraseSteps(Listener)
  /\ UNCHANGED listenerVars

\* applyLog begins with a SELECT.  It throws ...
SelectThrows ==
  /\ ApplyThrows
  /\ stage[Listener] = "idle"
  /\ UNCHANGED secretsVars

\* ... or answers, and the erasure of a log that is next begins ...
ApplyBegin(l) ==
  /\ poll = "apply"
  /\ "answers" \in SelectOutcomes
  /\ l \in NextLogs
  /\ Erase(Listener, l[2])
  /\ UNCHANGED listenerVars

\* ... and commits.
ApplyCommit(l) ==
  /\ asks[Listener] # Nobody
  /\ asks[Listener].human = l[2]
  /\ Purge(Listener, l[2])
  /\ ApplyLog(l)

\* The poll fails, with the erasure it may be in.
PollFails ==
  /\ Fail
  /\ IF stage[Listener] = "idle" THEN UNCHANGED secretsVars ELSE Abandon(Listener)

\* The broker stops and starts again, with all its requests.
Crash ==
  /\ Fail
  /\ stage' = [t \in Slot |-> "idle"]
  /\ asks' = [t \in Slot |-> Nobody]
  /\ held' = [t \in Slot |-> NoKey]
  /\ todo' = [t \in Slot |-> {}]
  /\ tags' = [t \in Slot |-> {}]
  /\ UNCHANGED <<phase, secret, minted, rows, revoked, racing>>

ListenerStep == (ChainStep \/ PollStep) /\ UNCHANGED secretsVars

Next ==
  \/ SecretsStep
  \/ ListenerStep
  \/ \E l \in logs : ApplyBegin(l) \/ ApplyCommit(l)
  \/ SelectThrows
  \/ PollFails
  \/ Crash

Spec == Init /\ [][Next]_allVars

\* The loops go on: the reaper's timer fires, and a request that was admitted
\* makes its next step.
LoopsGoOn ==
  /\ Spec
  /\ WF_allVars(Reap /\ UNCHANGED listenerVars)
  /\ \A t \in Slot \ {Listener} : WF_allVars(AnswerSteps(t) /\ UNCHANGED listenerVars)

-----------------------------------------------------------------------------
\* A human named by a log at or below the cursor is revoked, and no answer of
\* theirs can be tied to them any more: an erasure that was cut short by a
\* crash is done again from the start, on the rows and secrets of then.
CursorMeansErased ==
  \A u \in Human :
    (\E b \in 1..Len(chain) : /\ u \in chain[b]
                              /\ cursor # NoCursor
                              /\ b \in FromBlock..cursor)
    => /\ u \in revoked
       /\ u \in racing \/ \A r \in rows : r.human = u => secret[r.question] # r.key

\* The secret of every question is destroyed for good after its grace, and no
\* handler keeps the key: also when a stalled answer mints it after the
\* reaper has been by.
SecretsDestroyed ==
  \A q \in Question :
    phase[q] = "expired" ~>
      [](/\ ~Live(q)
         /\ \A t \in Slot : asks[t] # Nobody /\ asks[t].question = q => held[t] = NoKey)
=============================================================================
