--------------------------- MODULE QuestionSecrets ---------------------------
(***************************************************************************)
(* The linkage secret of a question (packages/broker/src/                  *)
(* questionSecret.ts, voterTag.ts) and the handlers that derive voter tags *)
(* from it.  The secrets live in a database of their own, so that every    *)
(* access is a statement by itself, before or inside the transaction on    *)
(* the envelopes: an answer mints, reads and then stores; a revocation     *)
(* looks the secret up and then deletes; an erasure looks up one secret    *)
(* after the other and then deletes.  Between any two of these the reaper  *)
(* may destroy the secret.                                                 *)
(*                                                                         *)
(* An envelope is the record [question, human, key]: the row whose         *)
(* unique_identifier is the HMAC of question and human under key.  What    *)
(* the transactions do to counts and counters is in AnswerStore and        *)
(* Erasure; here each of them is one step.  Every human is registered, and *)
(* an account deletion derives its tags the way an invalidation does.      *)
(***************************************************************************)
EXTENDS Naturals, FiniteSets

CONSTANTS Question, Human,
          Slot,           \* concurrent requests of the broker
          Key,            \* what randomBytes(32) may return
          NoSecret,       \* question_secrets has no row for the question
          Destroyed,      \* the row's secret is NULL
          NoKey,          \* a handler that has derived nothing
          Nobody,         \* the slot is free
          Answerer        \* bound: humans who answer and revoke

ASSUME SecretAssumption ==
  /\ NoSecret \notin Key
  /\ Destroyed \notin Key \cup {NoSecret}
  /\ NoKey \notin Key
  /\ Answerer \subseteq Human

VARIABLES
  phase,      \* phase[q]: open, closed, or closed for longer than the grace
  secret,     \* question_secrets
  minted,     \* history: minted[q], the key that was stored for q
  rows,       \* envelopes
  revoked,    \* humans whose registration is revoked and tombstoned
  stage,      \* stage[t]: where the request of slot t is
  asks,       \* asks[t]: its question and human
  held,       \* held[t]: the key its tag has been derived with
  todo,       \* todo[t]: questions an erasure has still to derive a tag for
  tags,       \* tags[t]: the tags an erasure has derived
  racing      \* history: humans with an answer in progress during an erasure

handlerVars == <<stage, asks, held, todo, tags>>
secretsVars == <<phase, secret, minted, rows, revoked, handlerVars, racing>>

Envelope == [question : Question, human : Human, key : Key]

AnswerStage == {"mint", "read", "store"}
EraseStage  == {"find", "derive", "purge"}

Asked == [question : Question \cup {Nobody}, human : Human]

SecretsTypeOK ==
  /\ phase \in [Question -> {"open", "closed", "expired"}]
  /\ secret \in [Question -> Key \cup {NoSecret, Destroyed}]
  /\ minted \in [Question -> Key \cup {NoKey}]
  /\ rows \subseteq Envelope
  /\ revoked \subseteq Human
  /\ stage \in [Slot -> {"idle", "lookup", "withdraw"} \cup AnswerStage \cup EraseStage]
  /\ asks \in [Slot -> Asked \cup {Nobody}]
  /\ held \in [Slot -> Key \cup {NoKey}]
  /\ todo \in [Slot -> SUBSET Question]
  /\ tags \in [Slot -> SUBSET Envelope]
  /\ racing \subseteq Human

SecretsInit ==
  /\ phase = [q \in Question |-> "open"]
  /\ secret = [q \in Question |-> NoSecret]
  /\ minted = [q \in Question |-> NoKey]
  /\ rows = {}
  /\ revoked = {}
  /\ stage = [t \in Slot |-> "idle"]
  /\ asks = [t \in Slot |-> Nobody]
  /\ held = [t \in Slot |-> NoKey]
  /\ todo = [t \in Slot |-> {}]
  /\ tags = [t \in Slot |-> {}]
  /\ racing = {}

-----------------------------------------------------------------------------
(* Time, and the reaper.                                                   *)

\* closes_at passes; later, closes_at + grace does.
Pass(q) ==
  /\ phase[q] # "expired"
  /\ phase' = [phase EXCEPT ![q] = IF @ = "open" THEN "closed" ELSE "expired"]
  /\ UNCHANGED <<secret, minted, rows, revoked, handlerVars, racing>>

Live(q) == secret[q] \in Key

\* (faulty variants: the grace is left out; only questions with answers)
DueWithoutGrace == {q \in Question : Live(q) /\ phase[q] # "open"}
DueWithAnswers ==
  {q \in Question : /\ Live(q)
                    /\ phase[q] = "expired"
                    /\ \E r \in rows : r.question = q}

\* closes_at < now - grace AND secret IS NOT NULL.
Due == {q \in Question : Live(q) /\ phase[q] = "expired"}

\* One pass of the reaper is one UPDATE.  A pass that fails changes nothing.
Reap ==
  /\ Due # {}
  /\ secret' = [q \in Question |-> IF q \in Due THEN Destroyed ELSE secret[q]]
  /\ UNCHANGED <<phase, minted, rows, revoked, handlerVars, racing>>

-----------------------------------------------------------------------------
Goto(t, s) == stage' = [stage EXCEPT ![t] = s]

\* The request of t is over, answered or abandoned (an error, a crash).
Finish(t) ==
  /\ Goto(t, "idle")
  /\ asks' = [asks EXCEPT ![t] = Nobody]
  /\ held' = [held EXCEPT ![t] = NoKey]
  /\ todo' = [todo EXCEPT ![t] = {}]
  /\ tags' = [tags EXCEPT ![t] = {}]

Abandon(t) ==
  /\ stage[t] # "idle"
  /\ Finish(t)
  /\ UNCHANGED <<phase, secret, minted, rows, revoked, racing>>

Begin(t, q, u, s) ==
  /\ stage[t] = "idle"
  /\ asks' = [asks EXCEPT ![t] = [question |-> q, human |-> u]]
  /\ Goto(t, s)
  /\ UNCHANGED <<phase, secret, minted, rows, revoked, held, todo, tags>>

EnvelopeOf(t) ==
  [question |-> asks[t].question, human |-> asks[t].human, key |-> held[t]]

-----------------------------------------------------------------------------
(* POST /v1/envelopes.                                                     *)

ErasingOf(u) == {t \in Slot : stage[t] \in EraseStage /\ asks[t].human = u}
AnsweringOf(u) == {t \in Slot : stage[t] \in AnswerStage /\ asks[t].human = u}

Answer(t, q, u) ==
  /\ u \notin revoked
  /\ phase[q] = "open"
  /\ Begin(t, q, u, "mint")
  /\ racing' = IF ErasingOf(u) # {} THEN racing \cup {u} ELSE racing

\* A random key is never drawn twice; which of the others it is does not matter.
Fresh ==
  LET left == Key \ {minted[q] : q \in Question}
  IN  {k \in left : k = CHOOSE any \in left : TRUE}

\* (faulty variants: ON CONFLICT DO UPDATE; DO UPDATE where the secret is NULL)
MintOverwriting(t, q) ==
  /\ stage[t] = "mint"
  /\ \E k \in Fresh :
       /\ secret' = [secret EXCEPT ![q] = k]
       /\ minted' = [minted EXCEPT ![q] = k]
  /\ Goto(t, "read")
  /\ UNCHANGED <<phase, rows, revoked, asks, held, todo, tags, racing>>
MintReviving(t, q) ==
  /\ stage[t] = "mint"
  /\ IF Live(q)
     THEN UNCHANGED <<secret, minted>>
     ELSE \E k \in Fresh :
            /\ secret' = [secret EXCEPT ![q] = k]
            /\ minted' = [minted EXCEPT ![q] = k]
  /\ Goto(t, "read")
  /\ UNCHANGED <<phase, rows, revoked, asks, held, todo, tags, racing>>

\* ensureQuestionSecretKey, INSERT .. ON CONFLICT DO NOTHING.
Mint(t, q) ==
  /\ stage[t] = "mint"
  /\ IF secret[q] # NoSecret
     THEN UNCHANGED <<secret, minted>>
     ELSE \E k \in Fresh :
            /\ secret' = [secret EXCEPT ![q] = k]
            /\ minted' = [minted EXCEPT ![q] = k]
  /\ Goto(t, "read")
  /\ UNCHANGED <<phase, rows, revoked, asks, held, todo, tags, racing>>

\* ensureQuestionSecretKey, SELECT: whichever key won, or the answer is
\* refused because the secret is destroyed.
ReadSecret(t, q) ==
  /\ stage[t] = "read"
  /\ IF Live(q)
     THEN /\ held' = [held EXCEPT ![t] = secret[q]]
          /\ Goto(t, "store")
          /\ UNCHANGED <<asks, todo, tags>>
     ELSE Finish(t)
  /\ UNCHANGED <<phase, secret, minted, rows, revoked, racing>>

\* The transaction: a row with this tag is inserted, or replaced.
Store(t) ==
  /\ stage[t] = "store"
  /\ rows' = rows \cup {EnvelopeOf(t)}
  /\ Finish(t)
  /\ UNCHANGED <<phase, secret, minted, revoked, racing>>

-----------------------------------------------------------------------------
(* POST /v1/envelopes/revoke.                                              *)

Revoke(t, q, u) ==
  /\ u \notin revoked
  /\ Begin(t, q, u, "lookup")
  /\ UNCHANGED racing

\* getQuestionSecretKeyIfLive; without a key the answer is out of reach.
Lookup(t, q) ==
  /\ stage[t] = "lookup"
  /\ IF Live(q)
     THEN /\ held' = [held EXCEPT ![t] = secret[q]]
          /\ Goto(t, "withdraw")
          /\ UNCHANGED <<asks, todo, tags>>
     ELSE Finish(t)
  /\ UNCHANGED <<phase, secret, minted, rows, revoked, racing>>

Withdraw(t) ==
  /\ stage[t] = "withdraw"
  /\ rows' = rows \ {EnvelopeOf(t)}
  /\ Finish(t)
  /\ UNCHANGED <<phase, secret, minted, revoked, racing>>

-----------------------------------------------------------------------------
(* invalidateRegistrationAndVotes.                                         *)

Erase(t, u) ==
  /\ Begin(t, Nobody, u, "find")
  /\ racing' = IF AnsweringOf(u) # {} THEN racing \cup {u} ELSE racing

\* (faulty variant: open questions only)
FindOpen(t) ==
  /\ stage[t] = "find"
  /\ todo' = [todo EXCEPT ![t] = {r.question : r \in {e \in rows : phase[e.question] = "open"}}]
  /\ Goto(t, "derive")
  /\ UNCHANGED <<phase, secret, minted, rows, revoked, asks, held, tags, racing>>

\* SELECT DISTINCT question_id FROM envelopes.
Find(t) ==
  /\ stage[t] = "find"
  /\ todo' = [todo EXCEPT ![t] = {r.question : r \in rows}]
  /\ Goto(t, "derive")
  /\ UNCHANGED <<phase, secret, minted, rows, revoked, asks, held, tags, racing>>

\* The loop over these questions: voterTagIfLive, or the question is skipped.
Derive(t, u) ==
  /\ stage[t] = "derive"
  /\ \/ \E q \in todo[t] :
          /\ todo' = [todo EXCEPT ![t] = @ \ {q}]
          /\ tags' = IF Live(q)
                     THEN [tags EXCEPT ![t] =
                             @ \cup {[question |-> q, human |-> u, key |-> secret[q]]}]
                     ELSE tags
          /\ UNCHANGED stage
     \/ /\ todo[t] = {}
        /\ Goto(t, "purge")
        /\ UNCHANGED <<todo, tags>>
  /\ UNCHANGED <<phase, secret, minted, rows, revoked, asks, held, racing>>

\* deleteEnvelopesByVoterTags, and COMMIT with the registration revoked.
Purge(t, u) ==
  /\ stage[t] = "purge"
  /\ rows' = rows \ tags[t]
  /\ revoked' = revoked \cup {u}
  /\ Finish(t)
  /\ UNCHANGED <<phase, secret, minted, racing>>

-----------------------------------------------------------------------------
AnswerSteps(t) ==
  LET q == asks[t].question
  IN /\ stage[t] # "idle"
     /\ Mint(t, q) \/ ReadSecret(t, q) \/ Store(t) \/ Lookup(t, q) \/ Withdraw(t)

EraseSteps(t) ==
  stage[t] # "idle" /\ (Find(t) \/ Derive(t, asks[t].human))

Requests(t) ==
  \E q \in Question, u \in Answerer : Answer(t, q, u) \/ Revoke(t, q, u)

SecretsNext ==
  \/ \E q \in Question : Pass(q)
  \/ Reap
  \/ \E t \in Slot :
       \/ Requests(t) \/ AnswerSteps(t)
       \/ \E u \in Human : Erase(t, u)
       \/ EraseSteps(t)
       \/ stage[t] = "purge" /\ Purge(t, asks[t].human)
       \/ Abandon(t)

SecretsSpec == SecretsInit /\ [][SecretsNext]_secretsVars

-----------------------------------------------------------------------------
(* Properties.                                                             *)

\* "Concurrent first-answers race on the PK; ON CONFLICT DO NOTHING makes a
\* single random value win" (questionSecret.ts): all the rows of a question
\* carry the same key, whoever minted it, so the primary key of envelopes
\* keeps one answer per human per question.
OneKeyPerQuestion ==
  \A r, s \in rows : r.question = s.question => r.key = s.key

\* Until closes_at + grace, the tag of every stored answer can be derived
\* again, so its owner can revoke it and an erasure finds it; and once the
\* secret is gone no other takes its place.
ReachableUntilGrace ==
  \A r \in rows : phase[r.question] # "expired" => secret[r.question] = r.key

\* A secret is set once and destroyed once: it is never replaced, nor revived.
SecretsOnlyDie ==
  [][\A q \in Question :
       /\ secret[q] = Destroyed => secret'[q] = Destroyed
       /\ Live(q) => secret'[q] \in {secret[q], Destroyed}]_secretsVars

\* An invalidated human has no answer left that the broker could still tie to
\* them, however the reaper and the lookups interleave; answers in progress
\* during the erasure are left out (Erasure, DeletedLeavesNoAnswer).
ErasedUnlinkable ==
  \A r \in rows :
    r.human \in revoked \ racing => secret[r.question] # r.key

\* Why: all that is tagged, in the table or by a handler, is tagged with the
\* one key that was ever stored for its question ...
TagsShareKey ==
  /\ \A q \in Question : secret[q] \in
       IF minted[q] = NoKey THEN {NoSecret} ELSE {minted[q], Destroyed}
  /\ \A r \in rows : r.key = minted[r.question]
  /\ \A t \in Slot : held[t] # NoKey => held[t] = minted[asks[t].question]
KeysInHand ==
  \A t \in Slot :
    /\ held[t] # NoKey <=> stage[t] \in {"store", "withdraw"}
    /\ stage[t] \in AnswerStage \cup {"lookup", "withdraw"} =>
         asks[t] \in [question : Question, human : Human]
    /\ stage[t] \in EraseStage => asks[t] \in [question : {Nobody}, human : Human]
AliveUntilGrace == \A q \in Question : phase[q] # "expired" => secret[q] # Destroyed

\* ... and an erasure has, of the answers of its human, all in sight that can
\* still be tied to them.
InSight(t) ==
  \A r \in rows :
    r.human = asks[t].human /\ secret[r.question] = r.key =>
      \/ stage[t] = "derive" /\ r.question \in todo[t]
      \/ r \in tags[t]
ErasuresOnCourse ==
  /\ \A t \in Slot :
       stage[t] \in EraseStage /\ asks[t].human \notin racing =>
         /\ AnsweringOf(asks[t].human) = {}
         /\ stage[t] # "find" => InSight(t)
  /\ \A u \in revoked \ racing : AnsweringOf(u) = {}

SecretsInvariant ==
  /\ SecretsTypeOK
  /\ TagsShareKey
  /\ KeysInHand
  /\ AliveUntilGrace
  /\ ErasuresOnCourse
  /\ ErasedUnlinkable
=============================================================================
