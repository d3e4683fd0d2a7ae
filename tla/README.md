# Chorum in TLA+

TLA+ modules, TLC configurations and TLAPS proofs about Chorum, the system in which
verified humans answer questions through their AI agents and see the counted answers.
Everything is translated from the source; where the text below quotes a doc or a comment,
it is to compare it with what the code does. Paths are relative to the repository;
`broker/` is `packages/broker/src/`.

Run a model with `tlc -workers 2 -config X.cfg MC_X.tla`, check proofs with
`tlapm M_proofs.tla`. `PROJECT.json` lists the runs, the mutants (small faulty variants of
mapped definitions that every property must reject), the source lines of every definition,
the hazards, the findings and the theorems.

## 1. The system

| Component | State it keeps | Operations | Talks to |
|---|---|---|---|
| Broker: answer store (`broker/routes/envelopes.ts`, `routes/revocations.ts`, `queries.ts`, `aggregates.ts`) | Postgres: `envelopes` (question, voter tag), `aggregates`, counters in `registrations`; advisory lock per question | submit, override, revoke | agents (skill), secrets, classifier, web |
| Broker: registration and erasure (`routes/register.ts`, `routes/account.ts`, `queries.ts`) | `registrations`, `self_nullifier_invalidations` | register, invalidate, delete account | agents, web, listener |
| Broker: referrals, reputation, board (`routes/referrals.ts`, `routes/board.ts`, `reputation.ts`) | `referral_codes`, `referrals`, `reputation`, `board_members` | mint a code, redeem at registration, credit at activation, claim a seat | answer store (counters), web |
| Broker: question secrets, voter tags (`questionSecret.ts`, `voterTag.ts`) | `question_secrets` in an instance of its own, timer of the reaper | mint lazily, read if live, destroy after close + grace | answer store, erasure |
| Broker: on-chain listener (`selfRevocations.ts`) | `self_chain_cursors`, one loop | poll, apply logs, move the cursor | Ethereum RPC, erasure |
| Broker: tokens, asker sessions (`verify/*.ts`, `routes/askers.ts`) | `revoked_tokens`; nothing for sessions (signed) | verify, revoke, asker login | every route |
| Broker: question feed, gating (`routes/questions.ts`, `eligibility.ts`, `askerGating.ts`) | none | list, filter, decide | skill, web |
| Broker: rate limiter (`ratelimit.ts`) | windows in memory | check | every route |
| Self bridge (`packages/self-bridge`) | pending requests in memory | create, callback, poll | Self app, skill, broker |
| Topic classifier (`packages/classifier`) | `questions.topic` | batch: list, classify, set | database, LLM |
| Skill (`packages/skill`) | ledger (SQLite), policy, credentials, cron job | answer, override, revoke, budget guard, onboarding | broker, bridge, the host agent |
| ChatGPT MCP server (`packages/chatgpt-mcp`) | OAuth requests and codes in memory, credential file | authorize, consent, status, token | broker, bridge, skill binary |
| Web (`packages/web`) | `askers`, `questions`, rate limits in memory, the session in the tab's sessionStorage | ask, sign in, render | database, broker, bridge |

### What is hard about it

* The broker is a Node process with a pool of Postgres connections: every `await` is a
  point where other requests run, and transactions are READ COMMITTED, so two statements
  of one transaction see different committed states. Handlers check registration,
  question, tombstone and score first, and write later.
* `aggregates` is a derived table. It is incremented by first answers and rebuilt by
  overrides, revocations and erasures. Counting is exact only if everybody agrees about
  who may touch a question's row: `incrementAggregate` and the revocation take an advisory
  lock per question, the erasures do not.
* `answer_count` and `signal_count` gate asking and activate referrals. They are moved
  by deltas, zeroed by invalidations and clamped with `GREATEST(.., 0)`.
* Lock order: envelope row, question lock, aggregate row, registration row, referral
  row, reputation row. One path (the second INSERT of a submit) leaves it.
* Secrets are destroyed while handlers hold tags derived from them.
* The listener, the reaper, the classifier and the cron job of the skill are loops that
  must make up for failures and restarts; several of them keep a cursor or a record that
  is written after the fact.
* Nothing excludes the skill's processes from each other: the cron session, a chat and the
  command line read and write one ledger around a POST that may be lost.
* The bridge keeps its requests in memory and serves everybody who has a link; three
  programs poll it, each with its own idea of when to stop.
* The MCP server's handlers await each other's file, and an authorization passes through
  three kinds of ids.

### What makes each component correct

* Answer store: the published counts are those of the stored answers; the counters are
  those of the human's answers; one answer per human per question; a closed question
  gains none; every request is answered.
* Erasure: nothing of the person is left (or live) afterwards; other people's counts are
  not disturbed.
* Referrals: a code is used once; each activation is credited once and none is missed;
  reputation and seats are backed by referrals; deletion leaves nothing.
* Secrets: one secret per question, hence one row per human; destroyed for good, and
  eventually.
* Listener: nothing at or below the cursor is unapplied, only final logs are applied, and
  in the end all of them are (as the code stands none ever is, see section 4).
* Sign-in: a registration is of one human and true of them; a login ends; a deletion
  leaves no question that names its author.
* MCP server: an authorization whose proof has come in ends.
* Classifier: a topic is set once; a question the model can tag does not stay hidden.
* Skill: what is answered is what the user consented to; the ledger knows what the broker
  holds; the daily cap and the monthly budget hold, and the cron comes back.

## 2. Modules

| Module | Models | Status |
|---|---|---|
| `Tally` | `aggregates.ts` and the two ways to write an aggregate row, as functions of the stored answers | checked and proved about in `AnswerStore` |
| `AnswerStore` | submit, override, revoke, one action per SQL statement, on Postgres | checked and proved about (`AnswerStore_proofs`) |
| `BallotBox` | what the answer store promises: cast, replace, withdraw at one instant | abstract specification |
| `AnswerWaits` | the waits-for graph of `AnswerStore`, fairness, liveness | checked and proved about (`AnswerWaits_proofs`) |
| `Erasure` | `AnswerStore` with registration, invalidation and account deletion | checked and proved about (`Erasure_proofs`) |
| `Referrals` | codes, referral graph, crediting, board, and their deletion | checked and proved about (`Referrals_proofs`) |
| `QuestionSecrets` | the secret of a question, its reaper, and every handler that derives a tag from it | checked and proved about (`QuestionSecrets_proofs`) |
| `SelfRevocations` | the on-chain listener, its chain and its endpoint | checked and proved about in `Invalidations` |
| `Invalidations` | the two together: the erasure that a log asks for, crash, fairness | checked and proved about (`Invalidations_proofs`) |
| `Classifier` | the classifier's workers, the questions table, the feed, fairness | checked, also in `Answering`, and proved about (`Answering_proofs`) |
| `Skill` | list, submit, revoke, ledger, token, cron and budget of one user's skill | checked and proved about in `Answering` |
| `Answering` | the two together | checked and proved about (`Answering_proofs`) |
| `SelfBridge` | the bridge: requests, callbacks, restart, results | checked and proved about in `SignIn` |
| `SignIn` | `SelfBridge` with enrolment, login, the web gate, asking, deletion | checked and proved about (`SignIn_proofs`) |
| `McpServer` | `SelfBridge` with the OAuth server, the service and the credential file | checked |

`MC_*.tla` only add symmetry sets and the values of constants that a cfg cannot write. Definitions marked "(faulty variant ..)" are
used by nothing but the mutants.

### Answers: `Tally`, `AnswerStore`

The value of an answer is a member of `Answer`; those in `Signal` carry an opinion, the
rest are explicit no-signals. An aggregate is reduced to how many humans gave each
answer, which every published number (`counts`, `noSignal`, `total`) is a function of;
`Bump` (increment), `FirstAnswer` (insert) and `TallyOf` (recompute) are the three ways to
write it.

A request occupies a slot `t \in Tx`. `pc[t]` says which statement is next, `req[t]` what is
asked. The committed tables are `envelopes`, `aggregates`, `registrations`; uncommitted
writes are in `envWrite[t]`, `aggWrite[t]`, `regWrite[t]`, and `lock[q]` is the advisory
lock. The path of a submit is

    insert -> lockIncrement -> readAggregate -> writeAggregate -> countInsert -> commit
    insert -> lockOverride -> override -> snapshot -> rebuild -> (countOverride) -> commit
                                `-> retryInsert -> lockIncrement ..

and of a revocation `lockRevoke -> delete -> countRevoke -> snapshot -> rebuild -> commit`.
`Abort` is possible everywhere: an error, a lost connection, a crash of the broker, a
deadlock victim. The checks that only reject (signature, nonce, size, eligibility,
classification) are not modelled: requests they reject change nothing. The checks against
state that may change (live registration, open question) are guards of `Submit`/`Revoke`.

How Postgres is modelled (every assumption on code that is not in the repository):

* READ COMMITTED: a statement sees what is committed when it runs, and its own
  transaction's writes. A statement that waits for a row re-reads it when the wait ends
  (so waiting is a disabled action, not a state).
* A written row is locked until the end of the transaction. `SELECT .. FOR UPDATE` is
  modelled as writing the row back as it is; a row that does not exist cannot be locked.
* `INSERT .. ON CONFLICT` waits for an uncommitted row with the same key; `SELECT`,
  `UPDATE` and `DELETE` do not see such a row.
* Two statements are one action where the second touches only rows the first has locked
  (`SELECT .. FOR UPDATE` and `UPDATE` in `overrideEnvelope`, DELETE-or-upsert in
  `recomputeAggregate`, the tier update after a credit).

The voter tag is the pair (question, human): within a question it is injective while the
secret lives, and it lives throughout these modules (`OneKeyPerQuestion` and
`ReachableUntilGrace` of `QuestionSecrets` are why).

### Erasures: `Erasure`

`Register` of `AnswerStore` is split at its `await` into `RegisterCheck` (tombstone lookup)
and `RegisterUpsert`. An invalidation and an account deletion are transactions in the
same slots; they find the answered questions, delete all of the person's envelopes in one
statement, rebuild each affected aggregate (`EraseSnapshot`, `EraseRebuild`) and, for a
deletion, delete the registration. At most one invalidation runs at a time, as there is
one listener loop. It begins with a SELECT that binds an array as `ANY(..::text[])`
(`broker/queries.ts:360`), the form of which the comment at `queries.ts:257` says that
Postgres rejects it. So it throws, for every log: `SelectOutcomes = {"throws"}` is the code
as it stands. What comes after it is modelled as it will run once the bind is mended, with
`"answers"` among the outcomes. `rebuilt` and `departed` are history variables.

### Referrals: `Referrals`

One function `db` from row keys to rows for five tables, `work[t]` for uncommitted rows.
`create` and `claim` have no transaction, so their statements commit one by one. Of an
answer only its effect on the two counters is kept, constrained to what `AnswerStore`
can produce (total and signal within 0 and the number of answers). A registration does
not lapse here: `revoked_at` does not matter to a referral. `Expire` passes `expires_at`
of a code; the handler reads the clock before its transaction, which is `stale`.
`credits`, `lives` and `departed` are history variables.

### Secrets and invalidations: `QuestionSecrets`, `SelfRevocations`, `Invalidations`

The secrets live in a second Postgres instance, so no statement on them is part of a
transaction of the broker. `QuestionSecrets` therefore looks at the handlers from the
other side: their accesses to `question_secrets` are separate actions, and a transaction on
the envelopes is one (what happens inside it is in `AnswerStore` and `Erasure`):

    answer   mint (INSERT .. ON CONFLICT DO NOTHING) -> read (SELECT) -> store
    revoke   lookup -> withdraw
    erase    find (questions with answers) -> derive (one question at a time) -> purge

A tag is the envelope [question, human, key] itself: HMAC is taken to be injective, and
`randomBytes` never to repeat (`Fresh`). Time is `phase[q]`: open, closed, expired
(closed for longer than the grace); `closes_at` of a question does not change in the
code. The reaper is one UPDATE. Answers take the question to be open at their check only,
so one may stall and mint, or store, at any later time. `minted` and `racing` are history
variables: the key that was stored for a question; the humans who had an answer in
progress during an erasure of theirs, to whom `DeletedLeavesNoAnswer` of `Erasure` may
happen.

`SelfRevocations` is one poll at a time: `ReadCursor`, `LatestFinalBlock`, `FetchLogs`,
one `ApplyLog` per log, `SaveCursor`, with `Fail` (an exception or a restart) after any of
them. The chain is a sequence of sets of nullifiers. Its last `ReorgDepth` blocks may be
replaced. The endpoint may report a head up to `RpcLag` blocks behind, and answer
`eth_getLogs` arbitrarily for as many last blocks. That both are at most `Confirmations` is
`ListenerAssumption`: it is what the setting `selfRevocationConfirmations` is for, and
nothing in the code enforces it. A log without a nullifier where the configuration says
it is, is skipped by the code with a warning; such logs are not on the model's chain.

`Invalidations` runs the listener's erasures in a slot of `QuestionSecrets`: `SelectThrows`, the
SELECT of the paragraph on erasures, which ends the poll with the cursor where it was; or,
if it answers, `ApplyBegin`, the steps of the erasure, and `ApplyCommit`, which is `Purge`
and `ApplyLog` at once.
`PollFails` takes the erasure along, `Crash` all requests. Every human is registered;
an invalidation of an unregistered nullifier is `TombstoneOnly` in `Erasure`.

### From a question to an answer: `Classifier`, `Skill`, `Answering`

A topic column is the sequence of its tokens, NULL is `Untagged`. `Replies[q]` is what the
model may say about a question, as words; `NormaliseTopics` does what the code does to
them (known tokens, each once, at most `MaxTopics`), and a reply without a known token is a
failed call. A worker's tick is `StartTick` (the list), one `Classify` or `ClassifyFails` per
row, or `TickCrashes`. `Picked` is a query with an order and a limit (`ListUnclassified`), and the
same for the words of a reply.

In `Skill`, `job[p]` is the submission that process `p` is in:

    Sign (the checks, the signature) -> signed -> Retry (a failed attempt of the POST) ..
      -> Deliver (the last attempt) -> delivered -> RecordAnswer -> noted
      -> RecordSubmission -> filed -> CountSpend

`post_with_retry` makes up to five attempts with sleeps in between, and each is a step, so
that the user may revoke, and another process submit, between any two. A failed attempt
(`Retry`) may have been stored: `tries[p]` counts them, and `p` is in `lost` once one of them
was. The last one (`Deliver`) is stored and acknowledged, refused, or unacknowledged and
stored or not. `Dies` may happen at each stage. The cron session lists once (`List`), is offered
what `Answerable` holds, and handles each question once; a process the user starts may
submit anything. The ledger's tables are `rows`, `texts` and `spend`; the broker is its one
answer per question, `stored`. `decide` compares the block and allow lists with the whole
topic column and the light list with its tokens, and so does `Decide`. A ledger that cannot
be read counts as a count of 0 (`ledger.rs:156`), which lets a submission past the cap;
`misreads` counts how often. `ApplyBudgetSchedule` is best effort, as in `hermes.rs:176`: where
the job is not found or the update fails the schedule stays as it is, and nobody is told.
A cost recorded at the end of a session may be an estimate that the actual one replaces,
upwards or downwards (`CostSettles`).
`muddled` (questions on which the ledger may be behind the broker), `misreads` and `outdated`
(the schedule has not followed the month's cost: the first run of the month did not come,
did not list or could not update it, or the cost was corrected downwards) are history
variables: they say exactly what the properties exclude, each an event the code has no
answer to.

### Who is asking: `SelfBridge`, `SignIn`

A link is its request and its age threshold; a proof is valid or not, and a valid one
tells the truth of the human who scanned, and is bound to the key of the request or not,
which the callback checks. Anybody may scan any link. A callback is
`Scan`, then `Callback` or `CallbackFails` once the verification is over, which may be after
a restart. `SignIn` adds the three clients of the bridge that matter here: the skill's
enrolment (`BeginOnboarding`, `FetchBundles`, `Register` or the ways to fail), the tab
(`AskGate`, with `step[v]` its stage, `shown[v]` the request it polls for, and `replies[v]` the
answers to its polls that are under way, which may come in any order or to a stage that is
gone), and the server action that posts a question (`Post`, `InsertAsker`, `Posted`, each of
which may be the last). Credentials are signed by the broker, so holding one is having been
given it: a session is its human and whether it has expired, a token is as good as the
registration it must match. A registration revoked by an invalidation is as good as none,
since nobody returns from it (`Invalidate` needs the listener's SELECT mended).

`AgeBand` is `thresholdsToAgeBand`: the highest step proved, up to the next step of the
broker's ladder. The upper bound is concluded from a proof that is missing. It is right only
if every step the human could have proved had to be: the bridge waits for as many proofs as
it asked thresholds for, and it must ask for the ladder that the broker knows, or for 18 alone
(`LadderInSync`). That is a setting of one program and a constant of another, each with a
comment that says to keep them in step. With the bridge set to {18, 25} and the broker's
18, 25, 35, .. a 40-year-old who has proved all that was asked is registered as "25-34".

The body of a poll's answer is read after the tab has asked whether its stage is still there
(`ask-gate.tsx:575`), and not asked again: `Arrive` is the check, `Apply` what happens after the
reading, when the stage or the page may be gone.

### The MCP server: `McpServer`

A handler is a call that runs from `await` to `await`, with what it has read in its record:
`Consent -> BeginIdentity -> ReadAll -> WriteTemporary -> Rename`, `Status ->
CompleteIdentity -> ProofArrives -> (ReadAll -> WriteTemporary -> Rename) twice`, and the tools.
The file is `users`, its temporary copy `temporary`, which all writers share. `provider` is
what `SelfIdentityProvider` remembers, lost by a restart as are requests, codes and tokens.

## 3. Runs

| Run | Instance | States | Shows |
|---|---|---|---|
| `AnswerStore` | 2 questions, 2 humans, 2 answers (one a no-signal), 2 concurrent requests | 209,000 | `TypeOK`, `AggregatesExact`, `CountersExact`, `DuplicateNeverReturned`, `StoreInvariant`, `SettledOnlyShrinks`, `ImplementsBallotBox` |
| `AnswerWaits` | 1 question, 1 human, 1 answer, 3 requests, with fairness | 2,254 | `OnlyTheRetryDeadlocks`, `RequestsFinish` |
| `Erasure` | 1 question, 2 humans, 2 requests, both erasures, a SELECT that throws or answers | 1,350,000 | `DriftOnlyWhereErased`, `CountersExactUnlessDeparted` |
| `ErasureDrift` | the same with a no-signal answer and a SELECT that throws, so account deletions only | - | `AggregatesExact` violated |
| `Referrals` | a referrer, two referees, one of whom may delete the account, 2 codes, 2 requests | 1,180,000 | `CodeSingleUse`, `CreditedOncePerLife`, `PendingBelowBar`, `ReputationBacked`, `BoardSeatsEarned` |
| `Invalidations` | 1 question, 2 humans on the chain, one of whom answers and revokes in 2 concurrent requests; 2 keys; a chain of 2 blocks read from block 0, each of which invalidates nobody or both; confirmations, reorganisations and lag of 1 block; a SELECT that throws or answers; 1 failed poll or crash; with fairness | 296,000 | `OneKeyPerQuestion`, `ReachableUntilGrace`, `ErasedUnlinkable`, `SecretsInvariant`, `PollInvariant`, `NothingSkipped`, `OnlyFinalLogsCount`, `CursorMeansErased`, `SecretsOnlyDie`, `CursorAdvances`, `SecretsDestroyed` |
| `Answering` | 1 question, which may close and be tagged in two ways, one of them blocked; 2 workers; a cron and a chat, POSTs of 2 attempts, 1 misread count; options of which one begins the other; cap 1, budget of 1 session, months of 2 days | 628,000 | `AnsweringTypeOK`, `AnsweredWithConsent`, `LedgerKnowsStored`, `DailyCapOvershoot`, `ParkedOnlyOverBudget`, `TopicNeverRewritten`, `CronLeavesRetractedAlone` |
| `Classifier` | 3 questions, of which one is hopeless and one may close, 2 workers with batches of 2, with fairness | 2,185 | `OnlyHardStayHidden` |
| `Consent` | 1 crossover question, the default policy with a blocked topic | - | `GatedStaysUnanswered` violated |
| `SignIn` | 2 humans of different ages and countries, 1 enrolment for the whole ladder, 2 logins, 1 tab, 2 acts, with fairness | 638,000 | `SignInTypeOK`, `RegistrationTrue`, `DeletedUnlinked`, `LoginEnds` |
| `SignInDegraded` | the same with 3 acts | - | `AdultProofSuffices` violated |
| `McpLogin` | 1 human, 1 bridge request, 1 authorization, 2 calls, with fairness | - | `ProofEndsAuthorization` violated |

Why the bounds are enough. Interference in the answer store is between transactions on
the same question and on the same human; two requests give every pair of handlers in
every interleaving (insert against revoke, override against override, and the
retried INSERT, which needs a revocation to commit between two statements of a submit),
two questions and two humans make "same" and "other" both happen, and the counts are
sums over humans that the theorems of section 5 cover for any number. The waits-for
graph needs three requests: a cycle of two and a third that waits for it. That run has
one answer because no guard looks at its value. In `Referrals` the thresholds are 1 so that
one answer activates, the board takes two referrals so that the two credits must add up,
and `MaxActiveCodes` is 1 so that the cap is met; `MaxAnswers` 1 and `MaxLives` 1 bound the
counters and registrations. A human who has left does not return in this instance; the
return is covered by the theorem `CreditedAtMostOncePerLife` (an instance with `MaxLives` 2,
one referee and 562,000 states also passes).
In `Erasure` there is one answer value, so an override rewrites the row and leaves the
counters; the two-valued instance is too large to exhaust and is only used to find the
drift. In `Invalidations` two requests race
to mint; two blocks and the start at block 0 give polls of one and of two blocks, and polls
that go on from an earlier cursor; two logs per block let a poll fail between two logs; a
second key shows up only in the mutants, where a key is replaced. Questions do not interact
but in the loop of an erasure; a longer chain only repeats the poll, and the theorems have
any. `MaxBlock` and `MaxFailures` are in the guards of `Mine` and `Fail`; a SELECT that throws is not counted by `MaxFailures`, and may throw at
every poll. Symmetry is used in runs without liveness only.

In `Answering` two workers hold the same question, which they may tag differently, a
cap of one and two processes give the overshoot, two attempts are enough for one that is
stored without being acknowledged and one after it, and two days a month make "the first" and
"not the first". One question suffices, as it may be answered again and no step is about two; `Attempts` and
`MaxMisreads` are in the guards of `Retry` and of the misread count. Symmetry is in the workers. In
`Classifier` a batch holds one question more than are hopeless. In `SignIn` one tab is
enough, as tabs share nothing but the broker's tables; two logins let a tab go back and
start over with answers to the first still under way. `MaxActs` bounds the scans, the operator's
commands and the chain's invalidations together (`Act`), and nothing else: restarts, reloads,
expiries and deletions come at any time. Two acts are what it takes to complete the enrolment
or both logins, or one login and an invalidation. `McpLogin` needs one of everything; a second
call is there because the waiting page may be open twice.

Fairness (`SignIn`). The tab's interval fires every few seconds as long as it is not
cleared, and answers to it come back: weak fairness of `Poll`, `Arrive` and `Apply`. `LoginEnds`
starts when the bridge has all proofs, so nobody is assumed to scan.

Fairness (`McpLogin`). The page reloads itself for as long as it says "pending", and calls
go on: weak fairness of `Status` and of `CallStep`.

Fairness (`Invalidations`). The reaper's interval timer fires again after a failed pass,
and a request that was admitted takes its next step, if it is not abandoned: weak fairness
of `Reap` and of each request's `AnswerSteps` (`LoopsGoOn`). Nothing is assumed of the
listener, so that `SecretsDestroyed` holds also while it fails for ever.

Fairness (`Classifier`). `runForever` ticks again whatever becomes of a tick: weak fairness of
`StartTick`. A call may fail and a tick may crash again and again, but on no question every
time, unless the model has no usable reply for it: strong fairness, for each worker and
question, of getting past it. This is the premise of the comment at `classify.ts:97`.

Fairness (`AnswerWaits`). Postgres queues the transactions that wait for a lock and wakes
the first, so a request that can take its next step again and again takes it
(`SF_vars(Step(t))`). The deadlock detector rolls back a transaction that stays in a cycle
(`WF_vars(Deadlocked(t) /\ Abort(t))`). Nothing else is fair: no one must answer, no question
must close, no statement must fail.

`CHECK_DEADLOCK` is off in `SignIn`, `SignInDegraded` and `McpLogin` only, whose people may stop: nobody is left to
act. It is on everywhere else.

## 4. What the models say about the code

Confirmed, among others: the submit and revoke handlers keep counts and counters exact
under every interleaving and every rollback; the `DUPLICATE` answer is dead code, since the
retried INSERT runs under the question's lock with the row gone; two concurrent
activations are credited once and never zero times.

Secrets: `ON CONFLICT DO NOTHING` followed by a SELECT gives all answers of a question
one key; the broker can reach every stored answer until the grace is over; a stalled
answer may mint a secret for an expired question, and the next pass of the reaper
destroys it. Listener: no log is skipped or applied twice to any effect, whatever fails,
as the cursor is written last; and an answer that the listener's erasure misses was in
progress meanwhile, or its secret is gone. As the code stands this is of little use:
the SELECT of the first log throws, so nothing is applied at all (see below).

Answering: whichever worker writes first, the topic stays; whatever dies when, the broker
holds answers only to tagged questions whose topic the policy permits. As far as the skill's
own doings go, the ledger is behind the broker only after an attempt that was stored and
not acknowledged when no later one was either, a crash before the record, a refusal
recorded over an acceptance, or two processes on one question; a deletion of the account or
an invalidation at the broker also leaves it with answers that are gone, and is not in these
modules. The cron gives an answer that the user took back again only if the ledger has
lost it in one of these ways, or it was taken back while the cron was still posting it: the
first attempt is stored, the user revokes, and the next attempt stores it once more. The
cap is passed by at most one for each other process and one for each count that could not
be read. The cron is parked under its budget only until a list updates the schedule, which
may take another month if the first run of this one could not.

Sign-in: proofs of two humans never make one registration, although the bridge would hand
them out together, and the age band is right if the two ladders are in step; the only login
that polls for ever is one whose request the bridge has lost.

Disagreements (each with a violation run and a finding in `PROJECT.json`):

1. `ErasureDrift`. `recomputeAggregate` is documented to assume "the caller holds the
   advisory lock / is inside the deletion transaction" (`broker/queries.ts`). The erasures
   are in a transaction and take no lock. TLC's trace: a submit has inserted its row and
   incremented the aggregate, not yet committed; the account deletion of another human who
   answered that question takes its SELECT, waits for the aggregate row, and after the submit's
   commit overwrites the count with one that lacks the new answer.
   `DriftOnlyWhereErased` shows that nothing else drifts, and
   `CountersExactUnlessDeparted` that the counters do not.
2. `SignInDegraded`. `ARCHITECTURE_V0.md:437` says that only the proof for 18 is required and
   finer thresholds are optional, and line 445 that the passing set reconstructs a band. The
   bridge calls a request complete when it has a result for each threshold it asked for
   (`server.js:397`), and no adult below the top of the ladder can prove them all: TLC's trace is
   a 20-year-old whose proof for 18 is in, and whose enrolment polls until its deadline.
3. `Consent`. A topic column of two tokens is light as soon as one of them is
   (`policy.rs:93`), and equal to no entry of a block list of single topics (`policy.rs:226`).
   With the default policy a question tagged "philosophy religion" is answered, though
   `policy.rs:72` says that religion "stays gated", and a user who has blocked religion has
   it answered too.
4. `McpLogin`. The OAuth server completes an identity under the id of its own request
   (`oauth.ts:115`); the state in the store is the bridge's (`http-adapters.ts:27`), so
   `service.ts:21` throws, `oauth.ts:121` swallows it as "still waiting", and the page
   reloads for ever. The unit test passes because its stub completes any identity
   (`tests/service.test.ts:28`). With `auth[o].link` for `o` as the last argument but one of
   `Arrive` in `Status`, the property holds, with one call (1,324 states) and with two
   (291,000); only then are `Token` and the tools ever reached.

Two more statements of the repository are refuted by TLC on the instances above when they
are added as invariants: `DeletedLeavesNoAnswer` of `Erasure` (a submit admitted before a
deletion commits after it) and `DeletionErasesReputation` of `Referrals`, with the referrer
among the leavers (`deleteAccount` deletes the reputation row first; a referee's answer that
activates the referral afterwards inserts a new one).

Noticed while reading, without a run:

* reset of the MCP server is to "Revoke and remove" (`server.ts:13`), but revokes what the
  ledger of a directory made for that one command lists, which is nothing
  (`rust-signer.ts:26`); consent can be posted again while it is in flight.
* The SELECT every application of an on-chain log begins with (`broker/queries.ts:360`) binds a
  JS array as `ANY(..::text[])`, of which the comment at `queries.ts:257` says that "drizzle
  interpolates a JS array as a single text parameter, which Postgres then rejects". So every
  poll that finds a log fails at the first of them, the cursor stays, and nothing is ever
  invalidated, although the file "applies invalidations in the broker DB"
  (`selfRevocations.ts:4`). `Invalidations` with `SelectOutcomes = {"throws"}` is that listener.
* Once it is mended, a registration that looked up the tombstone before it was written can
  still clear `revoked_at` after it was set.
* As many hopeless questions as a batch holds, all older than the rest, starve the rest
  (`classifier/src/db.ts:48`), against `classify.ts:97`: "The model has to be wrong every tick for
  the question to stay hidden". TLC refutes `OnlyHardStayHidden` with `BatchSize` 1.
* An error in the output of a list restores a parked cron (`hermes.rs:197`), a malformed
  policy file counts as the default (`policy.rs:174`), and an expired token still lists
  (`tools.rs:56`).
* A tab with an unexpired session that the gate refuses has no way back but to wait
  (`ask-gate.tsx:137`).

The comment at `routes/envelopes.ts:174` calls the retried INSERT race-free: it is, in that
it cannot conflict with a committed row (proved), and it can be one side of a deadlock
with a first INSERT of the same human (`OnlyTheRetryDeadlocks`), which Postgres resolves.
A deletion with an asker session concurrent with a registration by the same human can
leave a referral edge without a registration; nothing in the code depends on it.

## 5. Proofs

Every theorem holds for any sets and numbers that satisfy the named assumptions, which say
that the sets a table is made of are finite where a count is taken (`Human`, `Question`,
`Proc`), that the special values (`NoRow`, `Untouched`, `Idle` ..) are no values of the code's,
that numbers of the configuration are natural, and that what a model replies or an option says
is a sequence. One lemma per action or statement shows that it keeps the invariant; a lemma
about a transaction's step is split into the acting request and the others.

### The answer store: `AnswerStore_proofs`

The lemmas about counting come first: adding, replacing and removing an answer change `TallyOf`
as `Bump`, `FirstAnswer` and a rebuild do, by cardinality of finite sets; `ElementCounts` says
what one element adds to a set. Then:

* `StoreIsInvariant`: `Spec => []StoreInvariant`;
* `TypeCorrect`, `AggregatesStayExact`, `CountersStayExact`, `DuplicateIsDead` follow from it;
* `SettledAnswersOnlyShrink`: the action property `SettledOnlyShrinks`;
* `StoreImplementsBallotBox`: `Spec => ImplementsBallotBox`.

`AggregatesExact` alone is not inductive: what a commit writes was computed statements
earlier from rows of other transactions. `TallyInvariant` adds

* `WritesOwnQuestion`: a transaction's uncommitted writes are on its own question;
* `OneWriterPerRow`: no two transactions have written the same envelope row;
* `RequestsOnCourse`: at each stage, who holds the question's lock, whether the row is
  there, and what `aggWrite` is worth: at `writeAggregate` exactly the committed row, at
  `rebuild` a snapshot equal to the tally of the visible rows, from then on
  `VisibleAggregate = TallyOf(VisibleRows)`.

The committing transaction holds the question's lock, so every other transaction on the
question is before its lock or has none of the aggregate in hand; the rows it has inserted
are another human's and uncommitted.

No advisory lock protects the counters, as one human may answer several questions at once.
`CounterInvariant` shows that the row lock of the registration does: whoever has written the
row has written the committed counters plus what its own row adds (`AnswerShift`,
`SignalShift`), and nobody else writes them until it ends (`OneCounterWriterPerHuman`); a
request that commits without having written them has replaced an answer by one of the same
weight (`CountedOnCourse`). `GREATEST(.., 0)` never cuts anything off, since a human with a row
to withdraw has it counted.

The refinement maps envelopes, aggregates and registrations to ballots, tally and credit.
Every statement, rollback and admission is a stutter, a registration is `Enroll`, and a commit
is `Cast`, `Withdraw` or, if it changes nothing, a stutter; that the credit is right at that
instant is what the counter invariant is for.

### Waits: `AnswerWaits_proofs`

`OnlyTheRetryCanDeadlock` is `Spec => []OnlyTheRetryDeadlocks`, for any number of concurrent
requests. `Waits(t)` is the least set that holds the blockers of `t` and with a transaction its
blockers, so that a property of all chains of waits is proved by naming the set of
transactions that have it. `WaitInvariant` adds to `StoreInvariant` that who holds a
question's lock has asked for it (`HoldersAsked`). Then every wait goes down in `WaitRank`
(the first INSERT, the question's lock, the registration, nothing), unless it is the
retry's or for a retry (`WaitGoesDown`): the aggregate is written under the lock only, and
a committed row can be written under the lock only, so that neither is waited for
by who holds the lock. A chain goes all the way down or passes through a retry
(`ChainGoesDown`).

### Erasures: `Erasure_proofs`

* `ErasureIsInvariant`: `EraseSpec => []EraseInvariant`;
* `ErasureTypeCorrect`, `DriftStaysWhereErased`, `CountersStayExactUnlessDeparted` and
  `DuplicateStaysDead` follow from it;
* `SettledOnlyShrinksUnderErasure`: `EraseSpec => SettledOnlyShrinks`.

Neither property is inductive, and `StoreInvariant` does not survive an erasure that commits
under a request in progress. What a request knows therefore splits in three
(`AnswerOnCourse`), and the lemmas of the answer store are stated for each by itself:

* `RowOnCourse`, what it holds and what its row is, is true whatever is erased: a
  written row is waited for, and an erasure only deletes;
* `TallyOnCourse`, what the counts in its hands are worth, is true while no erasure has
  rebuilt the question;
* `CountedOnCourse`, its account of the counters, is true while its human has not departed.

An erasure publishes counts only where it has deleted a row (`DeletesOnly`), so a question
that is not among those rebuilt is untouched by its commit; this is `DriftOnlyWhereErased`. For
the counters, an invalidation holds the registration from its first statement to its commit
(`HoldsAndMissesNone`). An answer of its human that commits meanwhile has not written the
counters, so it has replaced an answer by one of the same weight and brings no row that the
SELECT of the questions has not seen; so the DELETE misses none, and the zeros that
the commit writes are right. A first registration starts from zero rightly
because who is not registered and never departed has no answers (`RowsOfPresent`).
TLC checks `EraseInvariant` and `SettledOnlyShrinks` on the instance of the run `Erasure`, and
`EraseInvariant` also with two questions and one human, and with three transactions of one human.

### Referrals: `Referrals_proofs`

`ReferralsStayRight` is `Spec => []ReferralInvariant`; `CodesStaySingleUse`,
`CreditedAtMostOncePerLife`, `NoActivationMissed`, `ReputationStaysBacked` and `SeatsStayEarned`
follow. The invariant adds to the five properties that no two transactions write one row
(`WriteExclusive`), what each has read and written at its stage (`Course`), that codes come
before the referrals they make (`CodesIssued`), that a pending referral's credit is still to
come (`CreditsBounded`), and that a claim once let through stays justified (`ClaimsEarned`).
A statement writes in one workspace on rows nobody else has written, so all tables are
decided by commits; the course of a request leaves its commit one of five effects (a
registration with or without a referral, an answer with or without an activation, a
departure), and each keeps the data right. The others stay on their courses because no row
they have written changes.

### Secrets and the listener: `QuestionSecrets_proofs`, `Invalidations_proofs`

The same is done for the safety
properties of `QuestionSecrets` and `SelfRevocations`, for any sets and numbers that satisfy `SecretAssumption`
and `ListenerAssumption`. `SecretsInvariant` strengthens `ErasedUnlinkable` by: every key in
sight is the one key ever stored for its question (`TagsShareKey`); which handlers hold a
key (`KeysInHand`); keys live until the grace is over (`AliveUntilGrace`); and an erasure
whose human has no answer in progress has each linkable answer of theirs either in its
tags or in the questions it has still to visit (`ErasuresOnCourse`).
The listener's theorems hold whatever its SELECT does: with one that always throws the cursor
never passes a log, and what they say of applied logs is said of none. `PollInvariant` strengthens `NothingSkipped` and `OnlyFinalLogsCount` by what the poll has in
hand: its range starts after the cursor and ends at a final block, and each invalidation
of the range is applied or among the logs to apply.

`Invalidations_proofs`, which begins with the listener by itself, puts them together. `PartsStayRight`: both invariants hold of the
composition, and who has a tombstone is revoked; every step is a step of one or both parts
or leaves a part alone, but for a crash, which has a lemma of its own. `CursorIsErased` is
`CursorMeansErased`, which neither part can state. `ListenerIsRefined`: the composition implements
`ListenerSpec`, in which a log is applied at one instant.

### Classifier and skill: `Answering_proofs`

For any finite set of processes, any workers, questions, replies
and policy: `OnlyConsentedAnswers`, `TopicsStay`, `CapHolds`, `ParkedMeansSpent`,
`AnsweringTypeCorrect`, `LedgerStaysTrue`, `RetractedStaysRetracted`, and of the classifier by
itself (`ClassifierSpec`) `ClassifierStaysRight` and `TicksMakeProgress`.

A policy decision is taken on a topic read before the POST, so consent needs
more than the check: `ConsentInvariant` says of every submission past its check that the
question is tagged and the policy still permits its topic (`Permits`), which holds because a written
topic is never rewritten (`setTopic` writes where the column is NULL). `CapInvariant` is
that today's count plus the submissions past their check (`Busy`) is at most the cap plus
the other processes and the misread counts: each checks before any of the others has
counted, and midnight lowers the count only. `ParkedMeansSpent` is inductive once the types
are known: each event after which the schedule may not follow the cost sets `outdated`, and a
list that updates the schedule clears it.

The ledger's two properties are about one question at a time. `Kept(q)` says of a question that
is not muddled that an answer in flight is the only one and what it tells of the broker will be
in the ledger, that without one the ledger knows already, and that what the user took back
is recorded, or about to be, and not on the cron's list. In flight is also an answer that a
failed attempt has stored and a later one may still acknowledge. Each of the events after
which this is no longer so (a verdict that leaves a stored answer unacknowledged, a death
before the record, a refusal over an acceptance, two processes on one question, a
revocation while the cron posts) makes the question muddled in the same step.
The broker keeps not what it is sent but the option that classifies as; `SentIsKept` shows that
the two are the same for all the skill sends, for any options, also where one is the beginning
of another (`aggregates.ts:44` promises this; `LedgerStaysTrue` needs it).

`Picked` is a query with an order and a limit. It is defined by ranks, so that lemmas about
cardinality give what it returns: elements of its rows only, all of them when they fit
(`PickedAll`), as many as the limit when they do not (`PickedFull`). A full batch then has more
rows than there are hopeless questions, so one of them can be tagged, which is
`TicksMakeProgress`: why the run `Classifier`, whose batch has room for one more than the
hopeless question, starves none.

### Sign-in: `SignIn_proofs`

It is about `SelfBridge` and `SignIn` for any humans, requests, tabs, ladder
and thresholds (`SelfBridgeAssumption`, `SignInAssumption`): `TypeCorrect`,
`RegistrationIsTrue`, `DeletionUnlinks`. `TrueInvariant` follows each proof from the scan
(`verifying`) through the bridge (`pending`) to the enrolment that fetched it: it shows no
age its human has not reached, and what was fetched has a proof for every step asked for
(`FetchedWhole`, from `CompleteWhole`). With the ladders in step, the hypothesis of
`RegistrationIsTrue`, the band of such proofs has no upper bound that a missing one might
belie (`WholeBand`); a registration of several is true because
`VerifyEnrollment` makes them one human's. `UnlinkInvariant` adds that a departed human has
no registration, hence no counters, and that a posting is of somebody who had not
departed at the gate, or an administrator's. The latter needs at least one of the two
required counts to be positive, which `config.ts:222` does not enforce, so it is a
hypothesis of the theorem. The theorems are about `Spec`; the run's `FairSpec` has fewer
behaviours.

### Model-checked only

The liveness properties (`RequestsFinish`, `SecretsDestroyed`, `LoginEnds`, `OnlyHardStayHidden`) are
out of this prover's reach. Every invariant and action property of a passing run is a
theorem. `McpServer` has a violation run only.

## 6. Not modelled

Left out, and why:

* the wait graph of the erasures, which take no advisory locks: `AnswerWaits` has the answers
  only, and Postgres breaks whatever cycle there is by a rollback, which `EraseAbort` allows
  at any point;
* the list of revoked tokens and the expiry of a token at the broker: both refuse requests
  that are checked for a live registration as well;
* the broker's rate limiter, and scope and country eligibility: they only refuse;
* the OpenClaw host of the skill, which has no parking; a POST that reaches the broker after
  the client has given it up; what deletion or invalidation at the broker does to the answers
  the skill's ledger knows; a host with another time zone than the ledger's UTC;
* in `SignIn` the mode without authentication, and a client that registers with some of its
  proofs only (the skill sends them all; the broker would conclude an upper bound from
  those left out); the three queries of the gate are one step;
* in `McpServer` client ids, PKCE, and two overlapping writes to one temporary file that mix
  their contents;
* signatures, hashing and zero-knowledge proofs (taken as correct), rendering, logging and
  metrics, configuration parsing, migrations, deployment.
