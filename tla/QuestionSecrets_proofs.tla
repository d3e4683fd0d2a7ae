------------------------ MODULE QuestionSecrets_proofs ------------------------
(***************************************************************************)
(* For any number of questions, humans, requests and keys: the answers of  *)
(* a question carry one key, which its secret keeps until the grace is     *)
(* over, is never replaced, and an erasure leaves no answer that can be    *)
(* tied to its human.                                                      *)
(***************************************************************************)
EXTENDS QuestionSecrets, TLAPS

\* The invariant holds before the first request.
LEMMA InitSecrets == SecretsInit => SecretsInvariant
BY SecretAssumption
DEF SecretsInit, SecretsInvariant, SecretsTypeOK, TagsShareKey, KeysInHand,
    AliveUntilGrace, ErasuresOnCourse, ErasedUnlinkable, AnswerStage,
    EraseStage, AnsweringOf

\* Time passes: no key is lost before the grace is over.
LEMMA PassSecrets ==
  ASSUME SecretsInvariant, NEW q \in Question, Pass(q)
  PROVE  SecretsInvariant'
<1>1. SecretsTypeOK' /\ KeysInHand'
  BY SecretAssumption
  DEF Pass, handlerVars, SecretsInvariant, SecretsTypeOK, KeysInHand, Asked, Envelope,
      AnswerStage, EraseStage
<1>2. TagsShareKey' /\ AliveUntilGrace'
  BY SecretAssumption
  DEF Pass, handlerVars, SecretsInvariant, SecretsTypeOK, KeysInHand, TagsShareKey,
      AliveUntilGrace, Asked, Envelope, AnswerStage, EraseStage
<1>3. ErasuresOnCourse' /\ ErasedUnlinkable'
  BY SecretAssumption
  DEF Pass, handlerVars, SecretsInvariant, SecretsTypeOK, KeysInHand, TagsShareKey,
      ErasuresOnCourse, ErasedUnlinkable, InSight, AnsweringOf, Asked, Envelope,
      AnswerStage, EraseStage
<1> QED BY <1>1, <1>2, <1>3 DEF SecretsInvariant

\* The reaper destroys secrets past their grace only; fewer rows can be tied to anybody.
LEMMA ReapSecrets ==
  ASSUME SecretsInvariant, Reap
  PROVE  SecretsInvariant'
<1>1. SecretsTypeOK' /\ KeysInHand'
  BY SecretAssumption
  DEF Reap, handlerVars, Due, Live, SecretsInvariant, SecretsTypeOK, KeysInHand, Asked, Envelope,
      AnswerStage, EraseStage
<1>2. TagsShareKey' /\ AliveUntilGrace'
  BY SecretAssumption
  DEF Reap, handlerVars, Due, Live, SecretsInvariant, SecretsTypeOK, KeysInHand, TagsShareKey,
      AliveUntilGrace, Asked, Envelope, AnswerStage, EraseStage
<1>3. ErasuresOnCourse' /\ ErasedUnlinkable'
  BY SecretAssumption
  DEF Reap, handlerVars, Due, Live, SecretsInvariant, SecretsTypeOK, KeysInHand, TagsShareKey,
      ErasuresOnCourse, ErasedUnlinkable, InSight, AnsweringOf, Asked, Envelope,
      AnswerStage, EraseStage
<1> QED BY <1>1, <1>2, <1>3 DEF SecretsInvariant

\* A request that is given up leaves the tables as they are.
LEMMA AbandonSecrets ==
  ASSUME SecretsInvariant, NEW t \in Slot, Abandon(t)
  PROVE  SecretsInvariant'
<1>1. SecretsTypeOK' /\ KeysInHand'
  BY SecretAssumption
  DEF Abandon, Finish, Goto, SecretsInvariant, SecretsTypeOK, KeysInHand, Asked, Envelope,
      AnswerStage, EraseStage
<1>2. TagsShareKey' /\ AliveUntilGrace'
  BY SecretAssumption
  DEF Abandon, Finish, Goto, SecretsInvariant, SecretsTypeOK, KeysInHand, TagsShareKey,
      AliveUntilGrace, Asked, Envelope, AnswerStage, EraseStage
<1>3. ErasuresOnCourse' /\ ErasedUnlinkable'
  BY SecretAssumption
  DEF Abandon, Finish, Goto, SecretsInvariant, SecretsTypeOK, KeysInHand, TagsShareKey,
      ErasuresOnCourse, ErasedUnlinkable, InSight, AnsweringOf, Asked, Envelope,
      AnswerStage, EraseStage
<1> QED BY <1>1, <1>2, <1>3 DEF SecretsInvariant

\* A new answer has no key yet; one that an erasure may miss is marked.
LEMMA AnswerSecrets ==
  ASSUME SecretsInvariant, NEW t \in Slot, NEW q \in Question, NEW u \in Human, Answer(t, q, u)
  PROVE  SecretsInvariant'
<1>1. SecretsTypeOK' /\ KeysInHand'
  BY SecretAssumption
  DEF Answer, Begin, Goto, ErasingOf, SecretsInvariant, SecretsTypeOK, KeysInHand, Asked, Envelope,
      AnswerStage, EraseStage
<1>2. TagsShareKey' /\ AliveUntilGrace'
  BY SecretAssumption
  DEF Answer, Begin, Goto, ErasingOf, SecretsInvariant, SecretsTypeOK, KeysInHand, TagsShareKey,
      AliveUntilGrace, Asked, Envelope, AnswerStage, EraseStage
<1>3. ErasuresOnCourse' /\ ErasedUnlinkable'
  BY SecretAssumption
  DEF Answer, Begin, Goto, ErasingOf, SecretsInvariant, SecretsTypeOK, KeysInHand, TagsShareKey,
      ErasuresOnCourse, ErasedUnlinkable, InSight, AnsweringOf, Asked, Envelope,
      AnswerStage, EraseStage
<1> QED BY <1>1, <1>2, <1>3 DEF SecretsInvariant

\* A revocation has no key yet.
LEMMA RevokeSecrets ==
  ASSUME SecretsInvariant, NEW t \in Slot, NEW q \in Question, NEW u \in Human, Revoke(t, q, u)
  PROVE  SecretsInvariant'
<1>1. SecretsTypeOK' /\ KeysInHand'
  BY SecretAssumption
  DEF Revoke, Begin, Goto, SecretsInvariant, SecretsTypeOK, KeysInHand, Asked, Envelope,
      AnswerStage, EraseStage
<1>2. TagsShareKey' /\ AliveUntilGrace'
  BY SecretAssumption
  DEF Revoke, Begin, Goto, SecretsInvariant, SecretsTypeOK, KeysInHand, TagsShareKey,
      AliveUntilGrace, Asked, Envelope, AnswerStage, EraseStage
<1>3. ErasuresOnCourse' /\ ErasedUnlinkable'
  BY SecretAssumption
  DEF Revoke, Begin, Goto, SecretsInvariant, SecretsTypeOK, KeysInHand, TagsShareKey,
      ErasuresOnCourse, ErasedUnlinkable, InSight, AnsweringOf, Asked, Envelope,
      AnswerStage, EraseStage
<1> QED BY <1>1, <1>2, <1>3 DEF SecretsInvariant

\* Only a question that never had a key is given one.
LEMMA MintSecrets ==
  ASSUME SecretsInvariant, NEW t \in Slot, Mint(t, asks[t].question)
  PROVE  SecretsInvariant'
<1>1. SecretsTypeOK' /\ KeysInHand'
  BY SecretAssumption
  DEF Mint, Goto, Fresh, SecretsInvariant, SecretsTypeOK, KeysInHand, Asked, Envelope,
      AnswerStage, EraseStage
<1>2. TagsShareKey' /\ AliveUntilGrace'
  BY SecretAssumption
  DEF Mint, Goto, Fresh, SecretsInvariant, SecretsTypeOK, KeysInHand, TagsShareKey,
      AliveUntilGrace, Asked, Envelope, AnswerStage, EraseStage
<1>3. ErasuresOnCourse' /\ ErasedUnlinkable'
  BY SecretAssumption
  DEF Mint, Goto, Fresh, SecretsInvariant, SecretsTypeOK, KeysInHand, TagsShareKey,
      ErasuresOnCourse, ErasedUnlinkable, InSight, AnsweringOf, Asked, Envelope,
      AnswerStage, EraseStage
<1> QED BY <1>1, <1>2, <1>3 DEF SecretsInvariant

\* The key that is read is the one stored for the question.
LEMMA ReadSecretSecrets ==
  ASSUME SecretsInvariant, NEW t \in Slot, ReadSecret(t, asks[t].question)
  PROVE  SecretsInvariant'
<1>1. SecretsTypeOK' /\ KeysInHand'
  <2>1. CASE Live(asks[t].question)
    <3>1. secret[asks[t].question] \in Key
      BY <2>1 DEF Live
    <3>2. SecretsTypeOK'
      BY <2>1, <3>1 DEF ReadSecret, Goto, SecretsInvariant, SecretsTypeOK, AnswerStage
    <3>3. KeysInHand'
      BY <2>1, <3>1, SecretAssumption
      DEF ReadSecret, Goto, SecretsInvariant, SecretsTypeOK, KeysInHand, AnswerStage, EraseStage
    <3> QED BY <3>2, <3>3
  <2>2. CASE ~Live(asks[t].question)
    <3>1. SecretsTypeOK'
      BY <2>2 DEF ReadSecret, Finish, Goto, SecretsInvariant, SecretsTypeOK
    <3>2. KeysInHand'
      BY <2>2, SecretAssumption
      DEF ReadSecret, Finish, Goto, SecretsInvariant, SecretsTypeOK, KeysInHand, AnswerStage,
          EraseStage
    <3> QED BY <3>1, <3>2
  <2> QED BY <2>1, <2>2
<1>2. TagsShareKey' /\ AliveUntilGrace'
  BY SecretAssumption
  DEF ReadSecret, Finish, Goto, Live, SecretsInvariant, SecretsTypeOK, KeysInHand, TagsShareKey,
      AliveUntilGrace, Asked, Envelope, AnswerStage, EraseStage
<1>3. ErasuresOnCourse' /\ ErasedUnlinkable'
  BY SecretAssumption
  DEF ReadSecret, Finish, Goto, Live, SecretsInvariant, SecretsTypeOK, KeysInHand, TagsShareKey,
      ErasuresOnCourse, ErasedUnlinkable, InSight, AnsweringOf, Asked, Envelope,
      AnswerStage, EraseStage
<1> QED BY <1>1, <1>2, <1>3 DEF SecretsInvariant

\* The stored row has the key in hand; its human is not being erased, or marked.
LEMMA StoreSecrets ==
  ASSUME SecretsInvariant, NEW t \in Slot, Store(t)
  PROVE  SecretsInvariant'
<1>1. SecretsTypeOK' /\ KeysInHand'
  BY SecretAssumption
  DEF Store, Finish, Goto, EnvelopeOf, Envelope, SecretsInvariant, SecretsTypeOK, KeysInHand, Asked, Envelope,
      AnswerStage, EraseStage
<1>2. TagsShareKey' /\ AliveUntilGrace'
  BY SecretAssumption
  DEF Store, Finish, Goto, EnvelopeOf, Envelope, SecretsInvariant, SecretsTypeOK, KeysInHand, TagsShareKey,
      AliveUntilGrace, Asked, Envelope, AnswerStage, EraseStage
<1>3. ErasuresOnCourse' /\ ErasedUnlinkable'
  BY SecretAssumption
  DEF Store, Finish, Goto, EnvelopeOf, Envelope, SecretsInvariant, SecretsTypeOK, KeysInHand, TagsShareKey,
      ErasuresOnCourse, ErasedUnlinkable, InSight, AnsweringOf, Asked, Envelope,
      AnswerStage, EraseStage
<1> QED BY <1>1, <1>2, <1>3 DEF SecretsInvariant

\* The key that is looked up is the one stored for the question.
LEMMA LookupSecrets ==
  ASSUME SecretsInvariant, NEW t \in Slot, Lookup(t, asks[t].question)
  PROVE  SecretsInvariant'
<1>1. SecretsTypeOK' /\ KeysInHand'
  <2>1. CASE Live(asks[t].question)
    <3>1. secret[asks[t].question] \in Key
      BY <2>1 DEF Live
    <3>2. SecretsTypeOK'
      BY <2>1, <3>1 DEF Lookup, Goto, SecretsInvariant, SecretsTypeOK, AnswerStage
    <3>3. KeysInHand'
      BY <2>1, <3>1, SecretAssumption
      DEF Lookup, Goto, SecretsInvariant, SecretsTypeOK, KeysInHand, AnswerStage, EraseStage
    <3> QED BY <3>2, <3>3
  <2>2. CASE ~Live(asks[t].question)
    <3>1. SecretsTypeOK'
      BY <2>2 DEF Lookup, Finish, Goto, SecretsInvariant, SecretsTypeOK
    <3>2. KeysInHand'
      BY <2>2, SecretAssumption
      DEF Lookup, Finish, Goto, SecretsInvariant, SecretsTypeOK, KeysInHand, AnswerStage,
          EraseStage
    <3> QED BY <3>1, <3>2
  <2> QED BY <2>1, <2>2
<1>2. TagsShareKey' /\ AliveUntilGrace'
  BY SecretAssumption
  DEF Lookup, Finish, Goto, Live, SecretsInvariant, SecretsTypeOK, KeysInHand, TagsShareKey,
      AliveUntilGrace, Asked, Envelope, AnswerStage, EraseStage
<1>3. ErasuresOnCourse' /\ ErasedUnlinkable'
  BY SecretAssumption
  DEF Lookup, Finish, Goto, Live, SecretsInvariant, SecretsTypeOK, KeysInHand, TagsShareKey,
      ErasuresOnCourse, ErasedUnlinkable, InSight, AnsweringOf, Asked, Envelope,
      AnswerStage, EraseStage
<1> QED BY <1>1, <1>2, <1>3 DEF SecretsInvariant

\* A row less.
LEMMA WithdrawSecrets ==
  ASSUME SecretsInvariant, NEW t \in Slot, Withdraw(t)
  PROVE  SecretsInvariant'
<1>1. SecretsTypeOK' /\ KeysInHand'
  BY SecretAssumption
  DEF Withdraw, Finish, Goto, SecretsInvariant, SecretsTypeOK, KeysInHand, Asked, Envelope,
      AnswerStage, EraseStage
<1>2. TagsShareKey' /\ AliveUntilGrace'
  BY SecretAssumption
  DEF Withdraw, Finish, Goto, SecretsInvariant, SecretsTypeOK, KeysInHand, TagsShareKey,
      AliveUntilGrace, Asked, Envelope, AnswerStage, EraseStage
<1>3. ErasuresOnCourse' /\ ErasedUnlinkable'
  BY SecretAssumption
  DEF Withdraw, Finish, Goto, SecretsInvariant, SecretsTypeOK, KeysInHand, TagsShareKey,
      ErasuresOnCourse, ErasedUnlinkable, InSight, AnsweringOf, Asked, Envelope,
      AnswerStage, EraseStage
<1> QED BY <1>1, <1>2, <1>3 DEF SecretsInvariant

\* An erasure begins without answers of its human in progress, or they are marked.
LEMMA EraseSecrets ==
  ASSUME SecretsInvariant, NEW t \in Slot, NEW u \in Human, Erase(t, u)
  PROVE  SecretsInvariant'
<1>1. SecretsTypeOK' /\ KeysInHand'
  BY SecretAssumption
  DEF Erase, Begin, Goto, SecretsInvariant, SecretsTypeOK, KeysInHand, Asked, Envelope,
      AnswerStage, EraseStage
<1>2. TagsShareKey' /\ AliveUntilGrace'
  BY SecretAssumption
  DEF Erase, Begin, Goto, SecretsInvariant, SecretsTypeOK, KeysInHand, TagsShareKey,
      AliveUntilGrace, Asked, Envelope, AnswerStage, EraseStage
<1>3. ErasuresOnCourse' /\ ErasedUnlinkable'
  BY SecretAssumption
  DEF Erase, Begin, Goto, SecretsInvariant, SecretsTypeOK, KeysInHand, TagsShareKey,
      ErasuresOnCourse, ErasedUnlinkable, InSight, AnsweringOf, Asked, Envelope,
      AnswerStage, EraseStage
<1> QED BY <1>1, <1>2, <1>3 DEF SecretsInvariant

\* All questions with rows are in sight.
LEMMA FindSecrets ==
  ASSUME SecretsInvariant, NEW t \in Slot, Find(t)
  PROVE  SecretsInvariant'
<1>1. SecretsTypeOK' /\ KeysInHand'
  BY SecretAssumption
  DEF Find, Goto, SecretsInvariant, SecretsTypeOK, KeysInHand, Asked, Envelope,
      AnswerStage, EraseStage
<1>2. TagsShareKey' /\ AliveUntilGrace'
  BY SecretAssumption
  DEF Find, Goto, SecretsInvariant, SecretsTypeOK, KeysInHand, TagsShareKey,
      AliveUntilGrace, Asked, Envelope, AnswerStage, EraseStage
<1>3. ErasuresOnCourse' /\ ErasedUnlinkable'
  BY SecretAssumption
  DEF Find, Goto, SecretsInvariant, SecretsTypeOK, KeysInHand, TagsShareKey,
      ErasuresOnCourse, ErasedUnlinkable, InSight, AnsweringOf, Asked, Envelope,
      AnswerStage, EraseStage
<1> QED BY <1>1, <1>2, <1>3 DEF SecretsInvariant

\* A question leaves todo with its tag derived, or out of reach for good.
LEMMA DeriveSecrets ==
  ASSUME SecretsInvariant, NEW t \in Slot, Derive(t, asks[t].human)
  PROVE  SecretsInvariant'
<1>1. SecretsTypeOK' /\ KeysInHand'
  BY SecretAssumption
  DEF Derive, Goto, Live, SecretsInvariant, SecretsTypeOK, KeysInHand, Asked, Envelope,
      AnswerStage, EraseStage
<1>2. TagsShareKey' /\ AliveUntilGrace'
  BY SecretAssumption
  DEF Derive, Goto, Live, SecretsInvariant, SecretsTypeOK, KeysInHand, TagsShareKey,
      AliveUntilGrace, Asked, Envelope, AnswerStage, EraseStage
<1>3. ErasuresOnCourse' /\ ErasedUnlinkable'
  BY SecretAssumption
  DEF Derive, Goto, Live, SecretsInvariant, SecretsTypeOK, KeysInHand, TagsShareKey,
      ErasuresOnCourse, ErasedUnlinkable, InSight, AnsweringOf, Asked, Envelope,
      AnswerStage, EraseStage
<1> QED BY <1>1, <1>2, <1>3 DEF SecretsInvariant

\* What is left of the rows can not be tied to the human any more.
LEMMA PurgeSecrets ==
  ASSUME SecretsInvariant, NEW t \in Slot, Purge(t, asks[t].human)
  PROVE  SecretsInvariant'
<1>1. SecretsTypeOK' /\ KeysInHand'
  BY SecretAssumption
  DEF Purge, Finish, Goto, SecretsInvariant, SecretsTypeOK, KeysInHand, Asked, Envelope,
      AnswerStage, EraseStage
<1>2. TagsShareKey' /\ AliveUntilGrace'
  BY SecretAssumption
  DEF Purge, Finish, Goto, SecretsInvariant, SecretsTypeOK, KeysInHand, TagsShareKey,
      AliveUntilGrace, Asked, Envelope, AnswerStage, EraseStage
<1>3. ErasuresOnCourse' /\ ErasedUnlinkable'
  BY SecretAssumption
  DEF Purge, Finish, Goto, SecretsInvariant, SecretsTypeOK, KeysInHand, TagsShareKey,
      ErasuresOnCourse, ErasedUnlinkable, InSight, AnsweringOf, Asked, Envelope,
      AnswerStage, EraseStage
<1> QED BY <1>1, <1>2, <1>3 DEF SecretsInvariant

\* SecretsInvariant is inductive.
LEMMA NextSecrets ==
  ASSUME SecretsInvariant, [SecretsNext]_secretsVars
  PROVE  SecretsInvariant'
<1>1. CASE \E q \in Question : Pass(q)
  BY <1>1, PassSecrets
<1>2. CASE Reap
  BY <1>2, ReapSecrets
<1>3. ASSUME NEW t \in Slot, Requests(t)
      PROVE  SecretsInvariant'
  BY <1>3, AnswerSecrets, RevokeSecrets, SecretAssumption DEF Requests
<1>4. ASSUME NEW t \in Slot, AnswerSteps(t)
      PROVE  SecretsInvariant'
  BY <1>4, MintSecrets, ReadSecretSecrets, StoreSecrets, LookupSecrets, WithdrawSecrets
  DEF AnswerSteps
<1>5. ASSUME NEW t \in Slot, NEW u \in Human, Erase(t, u)
      PROVE  SecretsInvariant'
  BY <1>5, EraseSecrets
<1>6. ASSUME NEW t \in Slot, EraseSteps(t) \/ Purge(t, asks[t].human) \/ Abandon(t)
      PROVE  SecretsInvariant'
  BY <1>6, FindSecrets, DeriveSecrets, PurgeSecrets, AbandonSecrets DEF EraseSteps
<1>7. CASE UNCHANGED secretsVars
  <2>1. /\ SecretsTypeOK' = SecretsTypeOK
        /\ TagsShareKey' = TagsShareKey
        /\ KeysInHand' = KeysInHand
        /\ AliveUntilGrace' = AliveUntilGrace
        /\ ErasuresOnCourse' = ErasuresOnCourse
        /\ ErasedUnlinkable' = ErasedUnlinkable
    BY <1>7
    DEF secretsVars, handlerVars, SecretsTypeOK, TagsShareKey, KeysInHand,
        AliveUntilGrace, ErasuresOnCourse, InSight, AnsweringOf, ErasedUnlinkable
  <2> QED BY <2>1 DEF SecretsInvariant
<1> QED BY <1>1, <1>2, <1>3, <1>4, <1>5, <1>6, <1>7 DEF SecretsNext

-----------------------------------------------------------------------------
\* All that is tagged, and all that an erasure has in sight, is as the handlers
\* assume at each of their steps.
THEOREM SecretsAreInvariant == SecretsSpec => []SecretsInvariant
<1> QED BY InitSecrets, NextSecrets, PTL DEF SecretsSpec

\* However many first answers mint at once, the answers of a question share
\* one key, so that a human has one row.
THEOREM OneKey == SecretsSpec => []OneKeyPerQuestion
<1>1. SecretsInvariant => OneKeyPerQuestion
  BY DEF SecretsInvariant, TagsShareKey, OneKeyPerQuestion
<1> QED BY <1>1, SecretsAreInvariant, PTL

\* Every stored answer can be found again by its human until the grace of its
\* question is over.
THEOREM Reachable == SecretsSpec => []ReachableUntilGrace
<1>1. SecretsInvariant => ReachableUntilGrace
  BY SecretAssumption
  DEF SecretsInvariant, SecretsTypeOK, Envelope, TagsShareKey, AliveUntilGrace,
      ReachableUntilGrace
<1> QED BY <1>1, SecretsAreInvariant, PTL

\* An erasure leaves no answer that the broker could tie to its human, unless
\* one was in progress during the erasure.
THEOREM Erased == SecretsSpec => []ErasedUnlinkable
<1>1. SecretsInvariant => ErasedUnlinkable
  BY DEF SecretsInvariant
<1> QED BY <1>1, SecretsAreInvariant, PTL

\* A secret is stored once and destroyed once.
THEOREM SecretsDieOnce == SecretsSpec => SecretsOnlyDie
<1>1. SecretsInvariant /\ [SecretsNext]_secretsVars
        => [\A q \in Question :
              /\ secret[q] = Destroyed => secret'[q] = Destroyed
              /\ Live(q) => secret'[q] \in {secret[q], Destroyed}]_secretsVars
  <2> SUFFICES ASSUME SecretsInvariant, [SecretsNext]_secretsVars, NEW q \in Question
               PROVE  /\ secret[q] = Destroyed => secret'[q] = Destroyed
                      /\ Live(q) => secret'[q] \in {secret[q], Destroyed}
    OBVIOUS
  <2>1. CASE UNCHANGED secret
    BY <2>1
  <2>2. CASE Reap
    BY <2>2 DEF Reap, Due, Live
  <2>3. ASSUME NEW t \in Slot, Mint(t, asks[t].question)
        PROVE  /\ secret[q] = Destroyed => secret'[q] = Destroyed
               /\ Live(q) => secret'[q] \in {secret[q], Destroyed}
    BY <2>3, SecretAssumption DEF Mint, Live, SecretsInvariant, SecretsTypeOK
  <2>4. \/ UNCHANGED secret
        \/ Reap
        \/ \E t \in Slot : Mint(t, asks[t].question)
    BY DEF SecretsNext, secretsVars, Pass, Requests, Answer, Revoke, Begin, AnswerSteps,
           ReadSecret, Store, Lookup, Withdraw, Erase, EraseSteps, Find, Derive, Purge,
           Abandon
  <2> QED BY <2>1, <2>2, <2>3, <2>4
<1> QED BY <1>1, SecretsAreInvariant, PTL DEF SecretsSpec, SecretsOnlyDie
=============================================================================
