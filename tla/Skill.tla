------------------------------- MODULE Skill --------------------------------
(***************************************************************************)
(* The answering skill on one user's machine (packages/skill): the tools   *)
(* list, submit, submit-no-signal and revoke, the local ledger, the        *)
(* delegation token, and the cron with its monthly budget.                 *)
(*                                                                         *)
(* Two kinds of process run the tools: the cron session, which lists once  *)
(* and answers what it was offered, and what the user starts by hand (a    *)
(* chat, the command line), which answers anything.  Nothing excludes one  *)
(* from the other: a submission is a chain of steps (checks, a POST that   *)
(* is retried, three statements on the ledger) that interleave and at any  *)
(* of which the process may die.                                           *)
(*                                                                         *)
(* The broker is what its answers show of it: it keeps one answer per      *)
(* question (stored), which a later one replaces; its feed are the         *)
(* questions the classifier has tagged.                                    *)
(***************************************************************************)
EXTENDS Classifier

CONSTANTS Proc, Cron,
          Option,       \* the options: sequences of words
          NoSignal,     \* submit-no-signal instead of an answer
          Said,         \* Said[p]: what p may submit: words, or NoSignal
          Nothing,      \* no answer, no match
          Idle,
          File,         \* the policy file: the keys it sets, or Unreadable
          Unreadable,
          Attempts,     \* POSTs of one submission (code: 5)
          MaxMisreads,  \* bound: submissions that misread the day's count
          Budget,       \* monthly budget, in cron sessions' cost
          DaysPerMonth

\* No policy file: no lists, fifty answers a day, and of the topics what the
\* code calls light (its list must cover the safe ones and no sensitive one).
DefaultPolicy == [allow |-> {}, block |-> {}, cap |-> 50, auto |-> FALSE, light |-> Safe]

\* load_policy: the keys of the file over the defaults; a file that cannot be
\* read or parsed counts as none.
LoadPolicy(file) == IF file = Unreadable THEN DefaultPolicy ELSE file @@ DefaultPolicy

Policy == LoadPolicy(File)

Text == Option \cup {NoSignal}

\* A submission past its checks: signed, delivered, noted (answer recorded),
\* filed (submission recorded, not counted).
Job == [at : {"signed", "delivered", "noted", "filed"}, q : Question, text : Text, ok : BOOLEAN]

ASSUME SkillAssumption ==
  /\ IsFiniteSet(Proc) /\ Cron \in Proc
  /\ File # Unreadable => DOMAIN File \subseteq DOMAIN DefaultPolicy
  /\ Policy.cap \in Nat
  /\ Attempts \in Nat \ {0}
  /\ MaxMisreads \in Nat
  /\ Budget \in Nat \ {0}
  /\ DaysPerMonth \in Nat \ {0, 1}
  /\ NoSignal \notin Option
  /\ Idle \notin Job
  /\ Option \subseteq Seq(STRING)
  /\ \A p \in Proc : \A said \in Said[p] \ {NoSignal} : Len(said) \in Nat

VARIABLES
  token,      \* delegation.token: none, usable, expired
  rows,       \* ledger, submissions: the outcome recorded for a question
  texts,      \* ledger, answers: the text recorded for a question
  spend,      \* ledger, question_spend of today
  misreads,   \* history: submissions let past the cap by a misread count
  job,        \* job[p]: the submission process p is in
  stored,     \* the answer the broker holds for a question
  retracted,  \* questions the user has taken an answer back from
  tries,      \* tries[p]: attempts of p's POST that have failed
  lost,       \* processes of which a failed attempt has stored the answer
  offered,    \* what the cron session was offered and has not handled
  schedule,   \* the cron job: none, daily, parked
  cron,       \* today's run: due, begun, listed, done
  day, cost,  \* day of the month, recorded cost of the month
  muddled,    \* history: see Muddles
  outdated    \* history: the schedule has not followed the month's cost

ledgerVars == <<rows, texts, spend, misreads>>
postVars   == <<tries, lost>>
brokerVars == <<stored, retracted, postVars>>
cronVars   == <<offered, schedule, cron, day, cost, outdated>>
skillVars  == <<token, ledgerVars, job, brokerVars, cronVars, muddled>>

SkillTypeOK ==
  /\ token \in {"none", "usable", "expired"}
  /\ rows \in [Question -> {"none", "accepted", "refused"}]
  /\ texts \in [Question -> Text \cup {Nothing}]
  /\ spend \in Nat
  /\ misreads \in Nat
  /\ job \in [Proc -> Job \cup {Idle}]
  /\ stored \in [Question -> Text \cup {Nothing}]
  /\ retracted \subseteq Question
  /\ tries \in [Proc -> 0..Attempts - 1]
  /\ lost \subseteq Proc
  /\ offered \subseteq Question
  /\ schedule \in {"none", "daily", "parked"}
  /\ cron \in {"due", "begun", "listed", "done"}
  /\ day \in 1..DaysPerMonth
  /\ cost \in 0..Budget
  /\ muddled \subseteq Question
  /\ outdated \in BOOLEAN

SkillInit ==
  /\ token = "none"
  /\ rows = [q \in Question |-> "none"]
  /\ texts = [q \in Question |-> Nothing]
  /\ spend = 0
  /\ misreads = 0
  /\ job = [p \in Proc |-> Idle]
  /\ stored = [q \in Question |-> Nothing]
  /\ retracted = {}
  /\ tries = [p \in Proc |-> 0]
  /\ lost = {}
  /\ offered = {}
  /\ schedule = "none"
  /\ cron = "due"
  /\ day = 1
  /\ cost = 0
  /\ muddled = {}
  /\ outdated = FALSE

-----------------------------------------------------------------------------
(* Pure parts: match_option and the policy gate.                           *)

\* (faulty variant: the agent's own words are sent)
MatchNothing(said) == said

\* match_option: the longest option the agent's words begin with.
MatchOption(said) ==
  LET hits == {o \in Option : o # <<>> /\ IsPrefix(o, said)}
  IN  IF hits = {} THEN Nothing
      ELSE CHOOSE o \in hits : \A other \in hits : Len(other) <= Len(o)

\* is_light_topic: any token of the topic.
IsLightTopic(t) == Policy.light \cap ToSet(t) # {}

\* What decide says of a topic column t: the lists are of whole columns.
Permits(t) ==
  /\ t \notin Policy.block
  /\ Policy.allow = {} \/ t \in Policy.allow
  /\ Policy.auto \/ IsLightTopic(t)

\* (faulty variant: the cap is passed by one)
DecideLate(t, answered, today) == ~answered /\ today <= Policy.cap /\ Permits(t)

\* decide.
Decide(t, answered, today) == ~answered /\ today < Policy.cap /\ Permits(t)

-----------------------------------------------------------------------------
(* Submitting.                                                             *)

\* load_usable.
Usable == token = "usable"

Handled(p, q) == IF p = Cron THEN offered \ {q} ELSE offered

\* What p may submit now: the cron session each question it was offered once.
MaySubmit(p, q) ==
  /\ job[p] = Idle
  /\ p = Cron => cron = "listed" /\ q \in offered

\* build_envelope, build_no_signal_envelope: what is signed is sent as it is,
\* in every attempt.
Envelope(q, text) == [at |-> "signed", q |-> q, text |-> text, ok |-> FALSE]

\* answered_today: a count that cannot be read is taken for 0, which matters
\* once the cap is reached.
PassesPolicy(q) ==
  \/ Decide(Shown(q), FALSE, spend) /\ UNCHANGED misreads
  \/ /\ spend >= Policy.cap
     /\ Decide(Shown(q), FALSE, 0)
     /\ misreads < MaxMisreads
     /\ misreads' = misreads + 1

\* The checks both submit tools share, then the signature: a usable token, the
\* question in the feed, the policy without this question's own row.
Sign(p, q, text) ==
  /\ MaySubmit(p, q)
  /\ Usable
  /\ q \in Feed
  /\ PassesPolicy(q)
  /\ job' = [job EXCEPT ![p] = Envelope(q, text)]
  /\ offered' = Handled(p, q)
  /\ UNCHANGED <<token, rows, texts, spend, brokerVars, schedule, cron, day, cost, muddled, outdated>>

\* submit_impl: what is said must begin with an option, which alone is sent.
SubmitAnswer(p, q) ==
  \E said \in Said[p] \ {NoSignal} :
    /\ MatchOption(said) # Nothing
    /\ Sign(p, q, MatchOption(said))

\* submit_no_signal_impl.
SubmitNoSignal(p, q) == NoSignal \in Said[p] /\ Sign(p, q, NoSignal)

\* An early return, or an agent that leaves the question alone.
PassOver(q) ==
  /\ MaySubmit(Cron, q)
  /\ offered' = offered \ {q}
  /\ UNCHANGED <<token, ledgerVars, job, brokerVars, schedule, cron, day, cost, muddled, outdated>>

\* A question on which p is not alone: another process is on it, or the cron
\* has it on offer.
Contended(p, q) ==
  \/ \E other \in Proc \ {p} : job[other] # Idle /\ job[other].q = q
  \/ p # Cron /\ q \in offered

\* A verdict that may leave the ledger behind the broker, or the cron's list
\* behind the ledger: p is not alone on its question, the answer was stored
\* but never acknowledged, or a refusal is recorded over an acceptance.
Muddles(p, stores, ok) ==
  LET q == job[p].q
  IN  \/ Contended(p, q)
      \/ (stores \/ p \in lost) /\ ~ok
      \/ ~ok /\ rows[q] = "accepted"

\* verifyBrokerSignature, checkExpiry: a token is what register gave, until it
\* expires.
TokenVerifies == token = "usable"

\* verifyAgentSignature: over the question and the answer of one envelope.
AgentSigned(envelope) == envelope.at = "signed"

\* classifyAnswer: the broker selects the option anew, by the rule of
\* match_option, and keeps only that.
ClassifyAnswer(text) == IF text = NoSignal THEN NoSignal ELSE MatchOption(text)

\* The broker's checks: the token, an open question, the signature, an answer
\* that selects an option.
BrokerTakes(envelope) ==
  /\ TokenVerifies
  /\ IsOpen(envelope.q)
  /\ AgentSigned(envelope)
  /\ ClassifyAnswer(envelope.text) # Nothing

\* One POST of the signed body: the broker stores the answer, or does not.
Post(p, stores) ==
  /\ job[p] # Idle /\ job[p].at = "signed"
  /\ stores => BrokerTakes(job[p])
  /\ IF stores
     THEN /\ stored' = [stored EXCEPT ![job[p].q] = ClassifyAnswer(job[p].text)]
          /\ retracted' = IF p = Cron THEN retracted ELSE retracted \ {job[p].q}
     ELSE UNCHANGED <<stored, retracted>>

\* post_with_retry, an attempt that ends it: an acknowledgement, a refusal, an
\* answer that cannot be parsed (which is no reason to try again), or the last
\* attempt fails as the others did.
Deliver(p) ==
  \E stores \in BOOLEAN, ok \in BOOLEAN :
    /\ Post(p, stores)
    /\ ok => stores
    /\ job' = [job EXCEPT ![p].at = "delivered", ![p].ok = ok]
    /\ tries' = [tries EXCEPT ![p] = 0]
    /\ lost' = lost \ {p}
    /\ muddled' = IF Muddles(p, stores, ok) THEN muddled \cup {job[p].q} ELSE muddled
    /\ UNCHANGED <<token, ledgerVars, cronVars>>

\* post_with_retry, any attempt but the last one that times out or is answered
\* by a 5xx, whatever the broker made of it: a sleep, and the same body again.
Retry(p) ==
  \E stores \in BOOLEAN :
    /\ Post(p, stores)
    /\ tries[p] < Attempts - 1
    /\ tries' = [tries EXCEPT ![p] = @ + 1]
    /\ lost' = IF stores THEN lost \cup {p} ELSE lost
    /\ muddled' = IF stores /\ Contended(p, job[p].q) THEN muddled \cup {job[p].q} ELSE muddled
    /\ UNCHANGED <<token, ledgerVars, job, cronVars>>

\* record_answer: INSERT OR REPLACE, whatever the broker said.
RecordAnswer(p) ==
  /\ job[p] # Idle /\ job[p].at = "delivered"
  /\ texts' = [texts EXCEPT ![job[p].q] = job[p].text]
  /\ job' = [job EXCEPT ![p].at = "noted"]
  /\ UNCHANGED <<token, rows, spend, misreads, brokerVars, cronVars, muddled>>

\* (faulty variant: INSERT OR IGNORE, the first outcome stays)
KeepSubmission(p) ==
  /\ job[p] # Idle /\ job[p].at = "noted"
  /\ rows' = [rows EXCEPT ![job[p].q] =
                IF @ # "none" THEN @ ELSE IF job[p].ok THEN "accepted" ELSE "refused"]
  /\ job' = [job EXCEPT ![p] = IF job[p].ok THEN [@ EXCEPT !.at = "filed"] ELSE Idle]
  /\ UNCHANGED <<token, texts, spend, misreads, brokerVars, cronVars, muddled>>

\* record_submission, the first statement: INSERT OR REPLACE.
RecordSubmission(p) ==
  /\ job[p] # Idle /\ job[p].at = "noted"
  /\ rows' = [rows EXCEPT ![job[p].q] = IF job[p].ok THEN "accepted" ELSE "refused"]
  /\ job' = [job EXCEPT ![p] = IF job[p].ok THEN [@ EXCEPT !.at = "filed"] ELSE Idle]
  /\ UNCHANGED <<token, texts, spend, misreads, brokerVars, cronVars, muddled>>

\* record_submission, the second: today's count, after an acceptance.
CountSpend(p) ==
  /\ job[p] # Idle /\ job[p].at = "filed"
  /\ spend' = spend + 1
  /\ job' = [job EXCEPT ![p] = Idle]
  /\ UNCHANGED <<token, rows, texts, misreads, brokerVars, cronVars, muddled>>

\* The process dies; 180 s after its start the plugin kills it.
Dies(p) ==
  /\ job[p] # Idle
  /\ job' = [job EXCEPT ![p] = Idle]
  /\ tries' = [tries EXCEPT ![p] = 0]
  /\ lost' = lost \ {p}
  /\ muddled' = IF job[p].at \in {"delivered", "noted"} \/ p \in lost
                THEN muddled \cup {job[p].q} ELSE muddled
  /\ UNCHANGED <<token, ledgerVars, stored, retracted, cronVars>>

\* The cron is at the POST of an answer to q, perhaps not for the first time.
CronPosts(q) == job[Cron] # Idle /\ job[Cron].q = q /\ job[Cron].at = "signed"

\* revoke_impl, by the user: the broker drops the answer, the ledger keeps its
\* rows.  The POST of a revocation is retried like the others; one that is
\* applied twice is two of these steps.
Revoke(p, q) ==
  /\ p # Cron
  /\ job[p] = Idle
  /\ Usable
  /\ stored[q] # Nothing
  /\ stored' = [stored EXCEPT ![q] = Nothing]
  /\ retracted' = retracted \cup {q}
  /\ muddled' = IF CronPosts(q) THEN muddled \cup {q} ELSE muddled
  /\ UNCHANGED <<token, ledgerVars, postVars, job, cronVars>>

-----------------------------------------------------------------------------
(* Listing, and the cron with its budget.                                  *)

\* finish: the month's sum against the budget.
OverBudget == cost >= Budget

\* report: a cost that cannot be read counts as within the budget.
BudgetReached(measured) == measured /\ OverBudget

\* (faulty variant: the ledger's acceptances are not consulted)
AnswerableAgain(today) ==
  IF token = "none" THEN {} ELSE {q \in Feed : Decide(Shown(q), FALSE, today)}

\* already_answered_ids.
Answered == {q \in Question : rows[q] = "accepted"}

\* list_impl: what the policy lets the agent answer.
Answerable(today) ==
  IF token = "none" THEN {}
  ELSE {q \in Feed : Decide(Shown(q), q \in Answered, today)}

\* (faulty variant: a parked cron is never restored)
ParkOnly(reached, works) ==
  IF works /\ reached /\ schedule # "none" THEN "parked" ELSE schedule

\* _apply_budget_schedule, of a list that did or did not say budget_reached.
\* Whatever else the list says, an error too, restores a parked cron.  It is
\* best effort: output that is not JSON, or any exception of the cron API,
\* leaves the schedule as it is.
ApplyBudgetSchedule(reached, works) ==
  CASE ~works \/ schedule = "none"              -> schedule
    [] works /\ schedule # "none" /\ reached    -> "parked"
    [] works /\ schedule # "none" /\ ~reached   -> "daily"

\* _handle_list.  The cost may be unreadable (the guard fails open), the
\* day's count too; the binary or the feed may fail, and so may what is done
\* to the schedule, which a list by hand does not touch at all.  The cron
\* session lists once.
List(p) ==
  \E measured, works, updates \in BOOLEAN, today \in {spend, 0} :
    LET reached == works /\ BudgetReached(measured)
        offers  == IF works /\ ~reached THEN Answerable(today) ELSE {}
    IN /\ p = Cron => cron = "begun"
       /\ schedule' = ApplyBudgetSchedule(reached, updates)
       /\ outdated' = (~updates /\ (outdated \/ (p = Cron /\ day = 1)))
       /\ IF p = Cron
          THEN /\ cron' = "listed"
               /\ offered' = offers
               /\ muddled' = muddled \cup
                     {q \in offers : \E other \in Proc : job[other] # Idle /\ job[other].q = q}
          ELSE UNCHANGED <<cron, offered, muddled>>
       /\ UNCHANGED <<token, ledgerVars, job, brokerVars, day, cost>>

\* The scheduler starts a session.
CronFires ==
  /\ cron = "due"
  /\ schedule = "daily" \/ (schedule = "parked" /\ day = 1)
  /\ cron' = "begun"
  /\ UNCHANGED <<token, ledgerVars, job, brokerVars, offered, schedule, day, cost, muddled, outdated>>

\* The session ends, also without having listed.  Its cost is what the host
\* recorded for it; only whether the month's sum has reached the budget
\* matters, so the sum stops there.
SessionEnds ==
  /\ cron \in {"begun", "listed"}
  /\ job[Cron] = Idle
  /\ cron' = "done"
  /\ offered' = {}
  /\ cost' \in {cost} \cup (IF OverBudget THEN {} ELSE {cost + 1})
  /\ outdated' = (outdated \/ (day = 1 /\ cron = "begun"))
  /\ UNCHANGED <<token, ledgerVars, job, brokerVars, schedule, day, muddled>>

\* collect_runs: an actual cost takes the place of a session's estimate, and
\* the month's sum may rise or fall.
CostSettles ==
  /\ cost > 0 \/ cron # "due"
  /\ cost' \in (0..Budget) \ {cost}
  /\ outdated' = (outdated \/ cost' < cost)
  /\ UNCHANGED <<token, ledgerVars, job, brokerVars, offered, schedule, cron, day, muddled>>

\* Midnight: today's count and, on the first, the month's cost start from
\* zero.  The run may have been missed (the gateway was down).
NewDay ==
  /\ cron \in {"due", "done"}
  /\ day' = (day % DaysPerMonth) + 1
  /\ cost' = IF day' = 1 THEN 0 ELSE cost
  /\ spend' = 0
  /\ cron' = "due"
  /\ outdated' = (day' # 1 /\ (outdated \/ (day = 1 /\ cron = "due")))
  /\ UNCHANGED <<token, rows, texts, misreads, job, brokerVars, offered, schedule, muddled>>

\* complete_onboarding stores a token, the install step or the next load of
\* the plugin registers the cron (_ensure_cron); the token expires.
Onboard ==
  /\ token # "usable"
  /\ token' = "usable"
  /\ UNCHANGED <<ledgerVars, job, brokerVars, cronVars, muddled>>

EnsureCron ==
  /\ token # "none"
  /\ schedule = "none"
  /\ schedule' = "daily"
  /\ UNCHANGED <<token, ledgerVars, job, brokerVars, offered, cron, day, cost, muddled, outdated>>

Expire ==
  /\ token = "usable"
  /\ token' = "expired"
  /\ UNCHANGED <<ledgerVars, job, brokerVars, cronVars, muddled>>

SkillStep ==
  \/ \E p \in Proc, q \in Question : SubmitAnswer(p, q) \/ SubmitNoSignal(p, q)
  \/ \E q \in Question : PassOver(q)
  \/ \E p \in Proc : \/ Deliver(p) \/ Retry(p) \/ RecordAnswer(p) \/ RecordSubmission(p)
                     \/ CountSpend(p) \/ Dies(p) \/ List(p)
  \/ \E p \in Proc, q \in Question : Revoke(p, q)
  \/ CronFires \/ SessionEnds \/ CostSettles \/ NewDay
  \/ Onboard \/ EnsureCron \/ Expire

-----------------------------------------------------------------------------
\* review_my_answers: what the user is shown of an accepted answer.
Review(q) == IF rows[q] = "accepted" THEN texts[q] ELSE Nothing

\* The ledger tells what the broker holds, for every question no process is
\* busy recording and that was not muddled: no answer stored by an attempt but
\* never acknowledged, no crash before the record, no refusal over an
\* acceptance, no two processes at once (tools.rs:221-225, broker.rs:42).
LedgerKnowsStored ==
  \A q \in Question \ (muddled \cup retracted) :
    (\A p \in Proc : job[p] # Idle => job[p].q # q) => Review(q) = stored[q]

\* The cap is read at the check and counted at the end: a day's count passes
\* it, by one for every other process and for every submission that could not
\* read it (ledger.rs:156), and by no more.
DailyCapOvershoot == spend <= Policy.cap + Cardinality(Proc) - 1 + misreads

\* The cron answers a question the user took back only if the ledger lost the
\* answer, or the user took it back while the cron was still posting it: an
\* acceptance that stays recorded keeps the question from being offered again
\* (ledger.rs:123).
CronLeavesRetractedAlone ==
  [][\A q \in retracted : stored[q] = Nothing /\ stored'[q] # Nothing =>
       q \notin retracted' \/ q \in muddled']_stored

\* A parked cron is a month over its budget, until the first run of the next
\* one lists.  It stays parked under its budget only if that run never came,
\* did not list, or could not update the schedule, or if the month's sum has
\* been corrected downwards since it was parked; and no longer than until a
\* list updates the schedule (hermes.rs:197, cost.rs:140).
ParkedOnlyOverBudget ==
  schedule = "parked" /\ ~OverBudget => outdated \/ (day = 1 /\ cron \in {"due", "begun"})

-----------------------------------------------------------------------------
(* Why the ledger knows, and the cron leaves retracted answers alone.      *)

\* p's answer to q is with the broker, or refused, and not yet in the ledger.
InFlight(p, q) ==
  /\ job[p] # Idle /\ job[p].q = q
  /\ job[p].at \in {"delivered", "noted"} \/ p \in lost

\* The broker has taken p's answer, acknowledged or not.
Taken(p) == job[p].ok \/ p \in lost

\* The cron may yet answer q.
OnCronsList(q) == q \in offered \/ CronPosts(q)

\* What holds of a question that was not muddled.  An answer in flight is the
\* only one, and what it says of the broker will be in the ledger; without
\* one the ledger knows already; what the user took back is in the ledger, or
\* on its way there, and not on the cron's list.
Kept(q) ==
  /\ \A p, other \in Proc : InFlight(p, q) /\ InFlight(other, q) => p = other
  /\ \A p \in Proc : InFlight(p, q) /\ ~Taken(p) => rows[q] # "accepted"
  /\ \A p \in Proc : InFlight(p, q) /\ job[p].at = "noted" => texts[q] = job[p].text
  /\ q \notin retracted =>
       /\ (\A p \in Proc : ~InFlight(p, q)) => Review(q) = stored[q]
       /\ \A p \in Proc :
            InFlight(p, q) => stored[q] = IF Taken(p) THEN job[p].text ELSE Nothing
  /\ q \in retracted => rows[q] = "accepted" \/ \E p \in Proc : InFlight(p, q) /\ Taken(p)
  /\ OnCronsList(q) =>
       /\ q \notin retracted /\ rows[q] # "accepted"
       /\ \A p \in Proc \ {Cron} : ~InFlight(p, q)

\* The inductive invariant of the ledger, together with the types.
LedgerInvariant ==
  /\ cron # "listed" => job[Cron] = Idle /\ offered = {}
  /\ job[Cron] # Idle => job[Cron].q \notin offered
  /\ \A p \in lost : job[p] # Idle /\ job[p].at = "signed"
  /\ \A q \in Question \ muddled : Kept(q)
=============================================================================
