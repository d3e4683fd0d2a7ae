----------------------------- MODULE Answering ------------------------------
(***************************************************************************)
(* From a question to an answer: the classifier tags questions, the        *)
(* broker's feed shows the tagged ones, and the skill of one user answers  *)
(* those the user's policy lets through.                                   *)
(***************************************************************************)
EXTENDS Skill

answeringVars == <<classifierVars, skillVars>>

Init == ClassifierInit /\ SkillInit

Next ==
  \/ ClassifierStep /\ UNCHANGED skillVars
  \/ SkillStep /\ UNCHANGED classifierVars

Spec == Init /\ [][Next]_answeringVars

-----------------------------------------------------------------------------
AnsweringTypeOK == ClassifierTypeOK /\ SkillTypeOK

\* Consent survives the whole way from the model's reply to the stored
\* answer: whatever the broker holds answers a question that is tagged, with
\* a topic the policy permits, now and not only at its check (worker.ts:70,
\* tools.rs:190).
AnsweredWithConsent ==
  \A q \in Question :
    stored[q] # Nothing => topic[q] # Untagged /\ Permits(topic[q])

\* The promise of policy.rs:74 and taxonomy.ts:15: without auto_answer, and
\* for a blocked topic, the high-stakes core stays gated.  Refuted: a topic
\* column of two tokens is light as soon as one of them is, and is on no list
\* of single topics.
GatedStaysUnanswered ==
  \A q \in Question :
    stored[q] # Nothing /\ ~Policy.auto => ToSet(topic[q]) \cap Sensitive = {}
=============================================================================
