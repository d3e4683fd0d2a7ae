-------------------------- MODULE Answering_proofs --------------------------
(***************************************************************************)
(* What holds of an answering user whoever runs it: nothing is answered    *)
(* without consent, the daily cap and the monthly budget hold, topics stay *)
(* as written and every tick of the classifier finds work, and the ledger  *)
(* knows what the broker stores.  For every taxonomy, policy, number of    *)
(* questions, workers and processes (finite where the code's tables are).  *)
(***************************************************************************)
EXTENDS Answering, FiniteSetTheorems, WellFoundedInduction, TLAPS

\* A submission in progress: what Sign makes, at one of its stages.
Shaped(j) ==
  /\ j = [at |-> j.at, q |-> j.q, text |-> j.text, ok |-> j.ok]
  /\ j.q \in Question

\* The topic of q is one the policy permits.
Consented(q) == topic[q] # Untagged /\ Permits(topic[q])

Busy == {p \in Proc : job[p] # Idle}

Tables ==
  /\ topic = [q \in Question |-> topic[q]]
  /\ stored = [q \in Question |-> stored[q]]
  /\ job = [p \in Proc |-> job[p]]
  /\ \A p \in Busy : Shaped(job[p])

\* What is on its way to the broker has been consented to: the invariant.
ConsentInvariant ==
  /\ Tables
  /\ \A p \in Busy : Consented(job[p].q)
  /\ AnsweredWithConsent

\* Nothing is submitted or stored at first.
LEMMA InitConsent == Init => ConsentInvariant
BY DEF Init, ClassifierInit, SkillInit, ConsentInvariant, Tables, Busy, AnsweredWithConsent

\* A step of the classifier writes a topic only where there is none.
LEMMA TopicStays ==
  ASSUME ClassifierStep, topic = [q \in Question |-> topic[q]]
  PROVE  /\ topic' = [q \in Question |-> topic'[q]]
         /\ \A q \in Question : topic[q] # Untagged => topic'[q] = topic[q]
<1>1. CASE UNCHANGED topic
  BY <1>1
<1>2. ASSUME NEW w \in Worker, Classify(w)
      PROVE  /\ topic' = [q \in Question |-> topic'[q]]
             /\ \A q \in Question : topic[q] # Untagged => topic'[q] = topic[q]
  BY <1>2 DEF Classify, SetTopic
<1> QED
  BY <1>1, <1>2 DEF ClassifierStep, Ask, Close, StartTick, ClassifyFails, TickCrashes

\* What the classifier does leaves consent as it is.
LEMMA ClassifierConsent ==
  ASSUME ConsentInvariant, ClassifierStep, UNCHANGED skillVars
  PROVE  ConsentInvariant'
<1>1. /\ topic' = [q \in Question |-> topic'[q]]
      /\ \A q \in Question : topic[q] # Untagged => topic'[q] = topic[q]
  BY TopicStays DEF ConsentInvariant, Tables
<1>2. /\ job' = job /\ stored' = stored
      /\ Busy' = Busy
  BY DEF skillVars, brokerVars, Busy
<1>3. Tables'
  BY <1>1, <1>2 DEF ConsentInvariant, Tables, Shaped
<1>4. ASSUME NEW p \in Busy' PROVE Consented(job[p].q)'
  <2>1. p \in Busy /\ job'[p].q = job[p].q /\ job[p].q \in Question
    BY <1>2 DEF ConsentInvariant, Tables, Shaped
  <2>2. Consented(job[p].q)
    BY <2>1 DEF ConsentInvariant
  <2> QED BY <1>1, <2>1, <2>2 DEF Consented, Policy, LoadPolicy
<1>5. AnsweredWithConsent'
  BY <1>1, <1>2 DEF ConsentInvariant, AnsweredWithConsent, Policy, LoadPolicy
<1> QED BY <1>3, <1>4, <1>5 DEF ConsentInvariant

\* A step of one process p, on the question it is on: it may end, or go on
\* with a consented question, and store an answer to such a one.
LEMMA ProcessConsent ==
  ASSUME ConsentInvariant, UNCHANGED classifierVars, NEW p \in Proc, NEW j,
         job' = [job EXCEPT ![p] = j],
         j # Idle => Shaped(j) /\ Consented(j.q),
         \/ UNCHANGED stored
         \/ \E q \in Question : \E x :
              /\ stored' = [stored EXCEPT ![q] = x]
              /\ x # Nothing => Consented(q)
  PROVE  ConsentInvariant'
<1>1. topic' = topic
  BY DEF classifierVars
<1>2. job' = [o \in Proc |-> job'[o]] /\ stored' = [q \in Question |-> stored'[q]]
  BY DEF ConsentInvariant, Tables
<1>3. ASSUME NEW o \in Busy' PROVE Shaped(job'[o]) /\ Consented(job'[o].q)
  <2>1. CASE o = p
    BY <1>2, <1>3, <2>1 DEF ConsentInvariant, Tables, Busy
  <2>2. CASE o # p
    BY <1>2, <1>3, <2>2 DEF ConsentInvariant, Tables, Busy
  <2> QED BY <2>1, <2>2
<1>4. ASSUME NEW q \in Question, stored'[q] # Nothing PROVE Consented(q)
  <2>1. CASE UNCHANGED stored
    BY <1>4, <2>1 DEF ConsentInvariant, AnsweredWithConsent, Consented
  <2>2. ASSUME NEW r \in Question, NEW x,
               stored' = [stored EXCEPT ![r] = x], x # Nothing => Consented(r)
        PROVE  Consented(q)
    <3>1. CASE q = r
      BY <1>4, <2>2, <3>1 DEF ConsentInvariant, Tables
    <3>2. CASE q # r
      BY <1>4, <2>2, <3>2 DEF ConsentInvariant, Tables, AnsweredWithConsent, Consented
    <3> QED BY <3>1, <3>2
  <2> QED BY <2>1, <2>2
<1> QED
  BY <1>1, <1>2, <1>3, <1>4
  DEF ConsentInvariant, Tables, AnsweredWithConsent, Consented, Shaped, Busy, Policy, LoadPolicy

\* The checks of a submission: what is signed has been consented to.
LEMMA SignConsent ==
  ASSUME ConsentInvariant, UNCHANGED classifierVars,
         NEW p \in Proc, NEW q \in Question, NEW text, Sign(p, q, text)
  PROVE  ConsentInvariant'
<1>1. /\ job' = [job EXCEPT ![p] = Envelope(q, text)]
      /\ UNCHANGED stored
  BY DEF Sign, brokerVars
<1>2. Shaped(Envelope(q, text))
  BY DEF Shaped, Envelope
<1>3. Consented(Envelope(q, text).q)
  BY DEF Sign, PassesPolicy, Feed, Decide, Shown, Consented, Envelope
<1> QED BY <1>1, <1>2, <1>3, ProcessConsent

\* An attempt stores an answer to the question that was checked.
LEMMA RetryConsent ==
  ASSUME ConsentInvariant, UNCHANGED classifierVars, NEW p \in Proc, Retry(p)
  PROVE  ConsentInvariant'
<1>1. PICK stores \in BOOLEAN :
        /\ job[p] # Idle
        /\ IF stores THEN stored' = [stored EXCEPT ![job[p].q] = ClassifyAnswer(job[p].text)]
                     ELSE UNCHANGED stored
        /\ job' = job
  BY DEF Retry, Post
<1>2. Shaped(job[p]) /\ Consented(job[p].q) /\ job' = [job EXCEPT ![p] = job[p]]
  BY <1>1 DEF ConsentInvariant, Tables, Busy
<1>3. job[p].q \in Question
  BY <1>2 DEF Shaped
<1> QED BY <1>1, <1>2, <1>3, ProcessConsent

\* So does the last one.
LEMMA DeliverConsent ==
  ASSUME ConsentInvariant, UNCHANGED classifierVars, NEW p \in Proc, Deliver(p)
  PROVE  ConsentInvariant'
<1>1. PICK stores \in BOOLEAN, ok \in BOOLEAN :
        /\ job[p] # Idle
        /\ IF stores THEN stored' = [stored EXCEPT ![job[p].q] = ClassifyAnswer(job[p].text)]
                     ELSE UNCHANGED stored
        /\ job' = [job EXCEPT ![p].at = "delivered", ![p].ok = ok]
  BY DEF Deliver, Post
<1> DEFINE i == [job[p] EXCEPT !.at = "delivered"]
           j == [i EXCEPT !.ok = ok]
<1>2. Shaped(job[p]) /\ Consented(job[p].q)
  BY <1>1 DEF ConsentInvariant, Tables, Busy
<1>3. Shaped(j) /\ j.q = job[p].q
  <2>1. Shaped(i) /\ i.q = job[p].q
    BY <1>2 DEF Shaped
  <2> HIDE DEF i
  <2> QED BY <2>1 DEF Shaped
<1>4. job' = [job EXCEPT ![p] = j]
  BY <1>1 DEF ConsentInvariant, Tables
<1>5. job[p].q \in Question
  BY <1>2 DEF Shaped
<1> HIDE DEF i, j
<1> QED BY <1>1, <1>2, <1>3, <1>4, <1>5, ProcessConsent

\* What follows the POST keeps the question, or ends.
LEMMA RecordConsent ==
  ASSUME ConsentInvariant, UNCHANGED classifierVars, NEW p \in Proc,
         RecordAnswer(p) \/ RecordSubmission(p) \/ CountSpend(p) \/ Dies(p)
  PROVE  ConsentInvariant'
<1>1. job[p] # Idle /\ UNCHANGED stored
  BY DEF RecordAnswer, RecordSubmission, CountSpend, Dies, brokerVars
<1>2. Shaped(job[p]) /\ Consented(job[p].q)
  BY <1>1 DEF ConsentInvariant, Tables, Busy
<1>3. PICK at : \/ job' = [job EXCEPT ![p] = [job[p] EXCEPT !.at = at]]
                \/ job' = [job EXCEPT ![p] = Idle]
  <2>1. CASE RecordAnswer(p)
    <3>1. job' = [job EXCEPT ![p] = [job[p] EXCEPT !.at = "noted"]]
      BY <2>1 DEF RecordAnswer, ConsentInvariant, Tables
    <3> QED BY <3>1
  <2>2. CASE RecordSubmission(p)
    <3>1. \/ job' = [job EXCEPT ![p] = [job[p] EXCEPT !.at = "filed"]]
          \/ job' = [job EXCEPT ![p] = Idle]
      BY <2>2 DEF RecordSubmission, ConsentInvariant, Tables
    <3> QED BY <3>1
  <2>3. CASE CountSpend(p) \/ Dies(p)
    BY <2>3 DEF CountSpend, Dies
  <2> QED BY <2>1, <2>2, <2>3
<1> DEFINE j == [job[p] EXCEPT !.at = at]
<1>4. Shaped(j) /\ j.q = job[p].q
  BY <1>2 DEF Shaped
<1> HIDE DEF j
<1>5. CASE job' = [job EXCEPT ![p] = j]
  BY <1>1, <1>2, <1>4, <1>5, ProcessConsent
<1>6. CASE job' = [job EXCEPT ![p] = Idle]
  BY <1>1, <1>6, ProcessConsent
<1> QED BY <1>3, <1>5, <1>6 DEF j

\* The user takes an answer back.
LEMMA RevokeConsent ==
  ASSUME ConsentInvariant, UNCHANGED classifierVars,
         NEW p \in Proc, NEW q \in Question, Revoke(p, q)
  PROVE  ConsentInvariant'
<1>1. /\ job[p] = Idle /\ job' = job
      /\ stored' = [stored EXCEPT ![q] = Nothing]
  BY DEF Revoke
<1>2. job' = [job EXCEPT ![p] = Idle]
  BY <1>1 DEF ConsentInvariant, Tables
<1> QED BY <1>1, <1>2, ProcessConsent

\* The cron, the clock and the token touch neither submissions nor answers.
LEMMA OtherConsent ==
  ASSUME ConsentInvariant, UNCHANGED <<topic, job, stored>>
  PROVE  ConsentInvariant'
BY DEF ConsentInvariant, Tables, Busy, Shaped, Consented, AnsweredWithConsent, Policy, LoadPolicy

\* The steps that leave submissions and answers alone.
QuietStep ==
  \/ \E q \in Question : PassOver(q)
  \/ \E p \in Proc : List(p)
  \/ CronFires \/ SessionEnds \/ CostSettles \/ NewDay
  \/ Onboard \/ EnsureCron \/ Expire

\* What the other steps leave alone.
LEMMA QuietStepQuiet == QuietStep => UNCHANGED <<job, stored>>
BY DEF QuietStep, PassOver, List, CronFires, SessionEnds, CostSettles, NewDay, Onboard,
       EnsureCron, Expire, brokerVars

\* Every step keeps what is submitted and stored consented to.
LEMMA NextConsent == ConsentInvariant /\ [Next]_answeringVars => ConsentInvariant'
<1> SUFFICES ASSUME ConsentInvariant, [Next]_answeringVars PROVE ConsentInvariant'
  OBVIOUS
<1>1. CASE ClassifierStep /\ UNCHANGED skillVars
  BY <1>1, ClassifierConsent
<1>2. CASE SkillStep /\ UNCHANGED classifierVars
  <2>1. ASSUME NEW p \in Proc, NEW q \in Question, SubmitAnswer(p, q) \/ SubmitNoSignal(p, q)
        PROVE  ConsentInvariant'
    BY <1>2, <2>1, SignConsent DEF SubmitAnswer, SubmitNoSignal
  <2>2. ASSUME NEW p \in Proc, Deliver(p) \/ Retry(p) PROVE ConsentInvariant'
    BY <1>2, <2>2, DeliverConsent, RetryConsent
  <2>3. ASSUME NEW p \in Proc, RecordAnswer(p) \/ RecordSubmission(p) \/ CountSpend(p) \/ Dies(p)
        PROVE  ConsentInvariant'
    BY <1>2, <2>3, RecordConsent
  <2>4. ASSUME NEW p \in Proc, NEW q \in Question, Revoke(p, q) PROVE ConsentInvariant'
    BY <1>2, <2>4, RevokeConsent
  <2>5. CASE QuietStep
    BY <1>2, <2>5, QuietStepQuiet, OtherConsent DEF classifierVars
  <2> QED BY <1>2, <2>1, <2>2, <2>3, <2>4, <2>5 DEF SkillStep, QuietStep
<1>3. CASE UNCHANGED answeringVars
  BY <1>3, OtherConsent DEF answeringVars, classifierVars, skillVars, brokerVars
<1> QED BY <1>1, <1>2, <1>3 DEF Next

\* Whatever processes submit at the same time, die or are refused, and whatever
\* the classifier writes meanwhile: the broker holds answers only to questions
\* whose topic the user's policy lets through (worker.ts:70, tools.rs:190).
THEOREM OnlyConsentedAnswers == Spec => []AnsweredWithConsent
<1>1. ConsentInvariant => AnsweredWithConsent
  BY DEF ConsentInvariant
<1> QED BY <1>1, InitConsent, NextConsent, PTL DEF Spec

\* However many workers hold the same question, its topic is written once
\* (db.ts:59).
THEOREM TopicsStay == Spec => TopicNeverRewritten
<1>1. ConsentInvariant /\ [Next]_answeringVars
        => [\A q \in Question : topic[q] # Untagged => topic'[q] = topic[q]]_topic
  BY TopicStays DEF Next, ConsentInvariant, Tables, answeringVars, classifierVars
<1> QED BY <1>1, InitConsent, NextConsent, PTL DEF Spec, TopicNeverRewritten

-----------------------------------------------------------------------------
(* The daily cap.                                                          *)

\* Every submission that is past its check may still be counted: together with
\* today's count they stay within the bound.  The invariant.
CapInvariant ==
  /\ spend \in Nat /\ misreads \in Nat
  /\ job = [p \in Proc |-> job[p]]
  /\ Busy # {} => Policy.cap >= 1
  /\ spend + Cardinality(Busy) <= Policy.cap + Cardinality(Proc) - 1 + misreads

\* The processes other than one are all but one.
LEMMA ProcCount ==
  /\ IsFiniteSet(Busy) /\ Cardinality(Busy) \in Nat
  /\ Cardinality(Busy) <= Cardinality(Proc)
  /\ Cardinality(Proc) \in Nat /\ Cardinality(Proc) >= 1
  /\ Policy.cap \in Nat
<1>1. IsFiniteSet(Proc) /\ Proc # {} /\ Policy.cap \in Nat
  BY SkillAssumption
<1>2. Busy \subseteq Proc
  BY DEF Busy
<1>3. IsFiniteSet(Busy) /\ Cardinality(Busy) <= Cardinality(Proc)
  BY <1>1, <1>2, FS_Subset
<1>4. Cardinality(Busy) \in Nat /\ Cardinality(Proc) \in Nat
  BY <1>1, <1>3, FS_CardinalityType
<1>5. Cardinality(Proc) # 0
  BY <1>1, FS_EmptySet
<1> QED BY <1>1, <1>3, <1>4, <1>5

\* At first nothing is counted and nobody is at work.
LEMMA InitCap == Init => CapInvariant
<1> SUFFICES ASSUME Init PROVE CapInvariant
  OBVIOUS
<1>1. spend = 0 /\ misreads = 0 /\ job = [p \in Proc |-> Idle] /\ Busy = {}
  BY DEF Init, SkillInit, Busy
<1>2. Cardinality(Busy) = 0
  BY <1>1, FS_EmptySet
<1> QED BY <1>1, <1>2, ProcCount DEF CapInvariant

\* A step that puts nobody to work keeps the invariant, also when midnight
\* puts the count back to zero.
LEMMA NobodyStarts ==
  ASSUME CapInvariant, job' = [p \in Proc |-> job'[p]], Busy' \subseteq Busy, misreads' = misreads,
         spend' = spend \/ (spend' = 0 /\ job' = job)
  PROVE  CapInvariant'
<1>1. IsFiniteSet(Busy') /\ Cardinality(Busy') <= Cardinality(Busy) /\ Cardinality(Busy') \in Nat
  BY ProcCount, FS_Subset, FS_CardinalityType
<1>2. Policy' = Policy
  BY DEF Policy, LoadPolicy
<1>3. CASE spend' = spend
  BY <1>1, <1>2, <1>3, ProcCount DEF CapInvariant
<1>4. CASE spend' = 0 /\ Busy = {}
  <2>1. Busy' = {} /\ Cardinality(Busy') = 0
    BY <1>4, FS_EmptySet
  <2> QED BY <1>2, <1>4, <2>1, ProcCount DEF CapInvariant
<1>5. CASE spend' = 0 /\ Busy # {}
  BY <1>1, <1>2, <1>5, ProcCount DEF CapInvariant
<1> QED BY <1>3, <1>4, <1>5

\* The check of the cap: one more is at work, and the count is below the cap or
\* was not read.
LEMMA SignCap ==
  ASSUME CapInvariant, NEW p \in Proc, NEW q \in Question, NEW text, Sign(p, q, text)
  PROVE  CapInvariant'
<1>1. /\ Policy.cap >= 1 /\ spend' = spend
      /\ \/ spend < Policy.cap /\ misreads' = misreads
         \/ misreads' = misreads + 1
      /\ job[p] = Idle
      /\ job' = [job EXCEPT ![p] = Envelope(q, text)]
  BY ProcCount DEF Sign, MaySubmit, PassesPolicy, Decide, CapInvariant
<1>2. Busy' \subseteq Proc /\ Busy' \subseteq Busy \cup {p} /\ p \notin Busy
  BY <1>1 DEF Busy, CapInvariant
<1>3. IsFiniteSet(Proc)
  BY SkillAssumption
<1>4. Cardinality(Busy') <= Cardinality(Proc) /\ Cardinality(Busy') \in Nat
  BY <1>2, <1>3, FS_Subset, FS_CardinalityType
<1>5. Policy' = Policy
  BY DEF Policy, LoadPolicy
<1>6. job' = [o \in Proc |-> job'[o]]
  BY <1>1 DEF CapInvariant
<1>7. Cardinality(Busy') <= Cardinality(Busy) + 1
  <2>1. IsFiniteSet(Busy \cup {p}) /\ Cardinality(Busy \cup {p}) = Cardinality(Busy) + 1
    BY <1>2, ProcCount, FS_AddElement
  <2> QED BY <1>2, <2>1, FS_Subset
<1> QED BY <1>1, <1>4, <1>5, <1>6, <1>7, ProcCount DEF CapInvariant

\* The count: one more is counted, and one fewer is at work.
LEMMA CountCap ==
  ASSUME CapInvariant, NEW p \in Proc, CountSpend(p)
  PROVE  CapInvariant'
<1>1. p \in Busy /\ spend' = spend + 1 /\ misreads' = misreads /\ job' = [job EXCEPT ![p] = Idle]
  BY DEF CountSpend, Busy
<1>2. Busy' = Busy \ {p} /\ job' = [o \in Proc |-> job'[o]]
  BY <1>1 DEF CapInvariant, Busy
<1>3. Cardinality(Busy') = Cardinality(Busy) - 1
  BY <1>1, <1>2, ProcCount, FS_RemoveElement
<1>4. Policy' = Policy
  BY DEF Policy, LoadPolicy
<1> QED BY <1>1, <1>2, <1>3, <1>4, ProcCount DEF CapInvariant

\* Every step keeps count and workers together within the bound.
LEMMA NextCap == CapInvariant /\ [Next]_answeringVars => CapInvariant'
<1> SUFFICES ASSUME CapInvariant, [Next]_answeringVars PROVE CapInvariant'
  OBVIOUS
<1>1. CASE UNCHANGED <<spend, misreads, job>>
  BY <1>1, NobodyStarts DEF CapInvariant, Busy
<1>2. CASE SkillStep
  <2>1. ASSUME NEW p \in Proc, NEW q \in Question, SubmitAnswer(p, q) \/ SubmitNoSignal(p, q)
        PROVE  CapInvariant'
    BY <2>1, SignCap DEF SubmitAnswer, SubmitNoSignal
  <2>2. ASSUME NEW p \in Proc,
               Deliver(p) \/ RecordAnswer(p) \/ RecordSubmission(p) \/ Dies(p)
        PROVE  CapInvariant'
    <3>1. job[p] # Idle /\ spend' = spend /\ misreads' = misreads
      BY <2>2 DEF Deliver, Post, RecordAnswer, RecordSubmission, Dies, ledgerVars
    <3>2. /\ job' = [o \in Proc |-> job'[o]]
          /\ \A o \in Proc \ {p} : job'[o] = job[o]
      BY <2>2 DEF CapInvariant, Deliver, RecordAnswer, RecordSubmission, Dies
    <3>3. Busy' \subseteq Busy
      BY <3>1, <3>2 DEF Busy
    <3> QED BY <3>1, <3>2, <3>3, NobodyStarts
  <2>3. ASSUME NEW p \in Proc, CountSpend(p) PROVE CapInvariant'
    BY <2>3, CountCap
  <2>4. CASE NewDay
    <3>1. spend' = 0 /\ misreads' = misreads /\ job' = job
      BY <2>4 DEF NewDay
    <3> QED BY <3>1, NobodyStarts DEF CapInvariant, Busy
  <2>5. ASSUME NEW p \in Proc, NEW q \in Question, Revoke(p, q) PROVE CapInvariant'
    BY <1>1, <2>5 DEF Revoke, ledgerVars
  <2>7. ASSUME NEW p \in Proc, Retry(p) PROVE CapInvariant'
    BY <1>1, <2>7 DEF Retry, ledgerVars
  <2>6. CASE QuietStep /\ ~NewDay
    <3>1. UNCHANGED <<spend, misreads, job>>
      BY <2>6 DEF QuietStep, PassOver, List, CronFires, SessionEnds, CostSettles, Onboard,
                  EnsureCron, Expire, ledgerVars
    <3> QED BY <1>1, <3>1
  <2> QED BY <1>2, <2>1, <2>2, <2>3, <2>4, <2>5, <2>6, <2>7 DEF SkillStep, QuietStep
<1>3. CASE ClassifierStep /\ UNCHANGED skillVars
  BY <1>1, <1>3 DEF skillVars, ledgerVars
<1>4. CASE UNCHANGED answeringVars
  BY <1>1, <1>4 DEF answeringVars, skillVars, ledgerVars
<1> QED BY <1>2, <1>3, <1>4 DEF Next

\* The cap is read at the check and counted at the end, and nothing keeps the
\* processes apart: a day's count passes the cap by at most one for each other
\* process, however many there are, and one for each submission that could not
\* read the count (tools.rs:225, policy.rs:208, ledger.rs:156).
THEOREM CapHolds == Spec => []DailyCapOvershoot
<1>1. CapInvariant => DailyCapOvershoot
  BY ProcCount DEF CapInvariant, DailyCapOvershoot
<1> QED BY <1>1, InitCap, NextCap, PTL DEF Spec

-----------------------------------------------------------------------------
(* The budget.                                                             *)

\* A parked cron is over its budget, or nobody has looked yet.  The invariant.
BudgetInvariant ==
  /\ cost \in 0..Budget
  /\ day \in 1..DaysPerMonth
  /\ cron \in {"due", "begun", "listed", "done"}
  /\ ParkedOnlyOverBudget

\* The cron is not there at first.
LEMMA InitBudget == Init => BudgetInvariant
BY SkillAssumption DEF Init, SkillInit, BudgetInvariant, ParkedOnlyOverBudget

\* A list that updates the schedule parks the cron only over its budget, and
\* whatever else it says restores it.
LEMMA ListBudget ==
  ASSUME BudgetInvariant, NEW p \in Proc, List(p)
  PROVE  BudgetInvariant'
<1>1. PICK measured \in BOOLEAN, works \in BOOLEAN, updates \in BOOLEAN :
        /\ schedule' = ApplyBudgetSchedule(works /\ BudgetReached(measured), updates)
        /\ outdated' = (~updates /\ (outdated \/ (p = Cron /\ day = 1)))
  BY DEF List
<1>2. UNCHANGED <<day, cost>> /\ cron' \in {cron, "listed"} /\ (p # Cron => cron' = cron)
  BY DEF List
<1>3. CASE updates
  <2>1. schedule' = "parked" => OverBudget
    <3>1. CASE works /\ BudgetReached(measured)
      BY <3>1 DEF BudgetReached
    <3>2. CASE ~(works /\ BudgetReached(measured))
      BY <1>1, <1>3, <3>2 DEF ApplyBudgetSchedule
    <3> QED BY <3>1, <3>2
  <2> QED BY <1>2, <2>1 DEF BudgetInvariant, ParkedOnlyOverBudget, OverBudget
<1>4. CASE ~updates
  <2>1. schedule' = schedule
    BY <1>1, <1>4 DEF ApplyBudgetSchedule
  <2>2. outdated' = (outdated \/ (p = Cron /\ day = 1))
    BY <1>1, <1>4
  <2> QED BY <1>2, <2>1, <2>2 DEF BudgetInvariant, ParkedOnlyOverBudget, OverBudget
<1> QED BY <1>3, <1>4

\* A session adds to the cost; one that has not listed on the first has missed
\* its chance.
LEMMA SessionBudget ==
  ASSUME BudgetInvariant, SessionEnds
  PROVE  BudgetInvariant'
<1>1. cost' \in 0..Budget /\ cost' >= cost
  BY SkillAssumption DEF SessionEnds, BudgetInvariant, OverBudget
<1>2. ~OverBudget' => ~OverBudget
  BY <1>1, SkillAssumption DEF OverBudget, BudgetInvariant
<1> QED BY <1>1, <1>2 DEF SessionEnds, BudgetInvariant, ParkedOnlyOverBudget

\* A sum corrected upwards leaves a parked cron parked for good reason; one
\* corrected downwards is remembered.
LEMMA SettlesBudget ==
  ASSUME BudgetInvariant, CostSettles
  PROVE  BudgetInvariant'
<1>1. /\ cost' \in 0..Budget /\ Budget \in Nat
      /\ UNCHANGED <<day, cron, schedule>>
      /\ outdated' = (outdated \/ cost' < cost)
  BY SkillAssumption DEF CostSettles
<1>2. ~OverBudget' /\ ~(cost' < cost) => ~OverBudget
  BY <1>1 DEF OverBudget, BudgetInvariant
<1> QED BY <1>1, <1>2 DEF BudgetInvariant, ParkedOnlyOverBudget

\* Midnight: the cost goes back to zero on the first, when the cron is due.
LEMMA MidnightBudget ==
  ASSUME BudgetInvariant, NewDay
  PROVE  BudgetInvariant'
<1>1. day' \in 1..DaysPerMonth
  BY SkillAssumption DEF NewDay, BudgetInvariant
<1>2. CASE day' = 1
  BY <1>1, <1>2, SkillAssumption DEF NewDay, BudgetInvariant, ParkedOnlyOverBudget
<1>3. CASE day' # 1
  BY <1>1, <1>3 DEF NewDay, BudgetInvariant, ParkedOnlyOverBudget, OverBudget
<1> QED BY <1>2, <1>3

\* The steps that look at neither the clock nor the budget.
LEMMA OtherBudget ==
  ASSUME BudgetInvariant, UNCHANGED <<day, cost, cron, outdated>>,
         schedule' \in {schedule, "daily"}
  PROVE  BudgetInvariant'
BY DEF BudgetInvariant, ParkedOnlyOverBudget, OverBudget

\* Every step keeps the invariant.
LEMMA NextBudget == BudgetInvariant /\ [Next]_answeringVars => BudgetInvariant'
<1> SUFFICES ASSUME BudgetInvariant, [Next]_answeringVars PROVE BudgetInvariant'
  OBVIOUS
<1>1. CASE UNCHANGED skillVars
  BY <1>1, OtherBudget DEF skillVars, cronVars
<1>2. ASSUME NEW p \in Proc, NEW q \in Question,
             SubmitAnswer(p, q) \/ SubmitNoSignal(p, q) \/ PassOver(q) \/ Revoke(p, q)
      PROVE  BudgetInvariant'
  BY <1>2, OtherBudget DEF SubmitAnswer, SubmitNoSignal, Sign, PassOver, Revoke, cronVars
<1>3. ASSUME NEW p \in Proc,
             \/ Deliver(p) \/ Retry(p) \/ RecordAnswer(p) \/ RecordSubmission(p)
             \/ CountSpend(p) \/ Dies(p)
      PROVE  BudgetInvariant'
  BY <1>3, OtherBudget DEF Deliver, Retry, RecordAnswer, RecordSubmission, CountSpend, Dies, cronVars
<1>4. CASE CronFires
  BY <1>4 DEF CronFires, BudgetInvariant, ParkedOnlyOverBudget, OverBudget
<1>5. CASE Onboard \/ EnsureCron \/ Expire
  BY <1>5, OtherBudget DEF Onboard, EnsureCron, Expire, cronVars
<1>6. Cron \in Proc
  BY SkillAssumption
<1> QED
  BY <1>1, <1>2, <1>3, <1>4, <1>5, <1>6, ListBudget, SessionBudget, SettlesBudget,
     MidnightBudget
  DEF Next, SkillStep, answeringVars

\* However sessions, clock and lists follow each other, whatever their cost,
\* whether they can read it and whether they can update the schedule: the cron
\* is parked in a month that is over its budget, and in another only as long
\* as no list has updated the schedule since the month began or its sum was
\* corrected downwards (hermes.rs:197, cost.rs:140).
THEOREM ParkedMeansSpent == Spec => []ParkedOnlyOverBudget
<1>1. BudgetInvariant => ParkedOnlyOverBudget
  BY DEF BudgetInvariant
<1> QED BY <1>1, InitBudget, NextBudget, PTL DEF Spec

-----------------------------------------------------------------------------
(* Picked, the elements at some positions of a sequence in their order.    *)

\* How many of K there are up to i.
Rank(K, i) == Cardinality({j \in K : j <= i})

\* Ranks are counts, at most that of the whole set.
LEMMA RankIsCount ==
  ASSUME NEW n \in Nat, NEW K \in SUBSET Nat, K \subseteq 1..n, NEW i \in Int
  PROVE  /\ IsFiniteSet(K) /\ Cardinality(K) \in Nat
         /\ Rank(K, i) \in Nat /\ Rank(K, i) <= Cardinality(K)
<1>1. IsFiniteSet(1..n)
  BY FS_Interval
<1>2. IsFiniteSet(K) /\ Cardinality(K) \in Nat
  BY <1>1, FS_Subset, FS_CardinalityType
<1>3. {j \in K : j <= i} \in SUBSET K
  OBVIOUS
<1> QED BY <1>2, <1>3, FS_Subset, FS_CardinalityType DEF Rank

\* A member of K has a higher rank than the number before it, by one; another
\* number has the same.
LEMMA RankGrows ==
  ASSUME NEW n \in Nat, NEW K \in SUBSET Nat, K \subseteq 1..n, NEW i \in Int
  PROVE  Rank(K, i) = IF i \in K THEN Rank(K, i - 1) + 1 ELSE Rank(K, i - 1)
<1> DEFINE Before == {j \in K : j <= i - 1}
<1>1. IsFiniteSet(Before)
  <2>1. IsFiniteSet(K) /\ Before \in SUBSET K
    BY RankIsCount
  <2> QED BY <2>1, FS_Subset
<1>a. \A j \in K : j \in Int
  OBVIOUS
<1>2. CASE i \in K
  <2>1. i \notin Before
    BY <1>2
  <2>2. \A j \in K : j <= i <=> j <= i - 1 \/ j = i
    BY <1>a
  <2>3. {j \in K : j <= i} = Before \cup {i}
    BY <1>2, <2>2
  <2> QED BY <1>1, <1>2, <2>1, <2>3, FS_AddElement DEF Rank
<1>3. CASE i \notin K
  <2>1. \A j \in K : j <= i <=> j <= i - 1
    BY <1>a, <1>3
  <2> QED BY <1>3, <2>1 DEF Rank
<1> QED BY <1>2, <1>3

\* Ranks grow along the members.
LEMMA RankMonotone ==
  ASSUME NEW n \in Nat, NEW K \in SUBSET Nat, K \subseteq 1..n, NEW i \in K, NEW h \in K, i < h
  PROVE  Rank(K, i) < Rank(K, h)
<1>a. \A j \in K : j \in Int
  OBVIOUS
<1>c. h \in Int /\ h \in K
  BY <1>a
<1>1. Rank(K, h) = Rank(K, h - 1) + 1
  BY <1>c, RankGrows, Zenon
<1>b. \A j \in K : j <= i => j <= h - 1
  BY <1>a
<1>2. {j \in K : j <= i} \in SUBSET {j \in K : j <= h - 1}
  BY <1>b
<1>3. {j \in K : j <= h - 1} \in SUBSET K /\ IsFiniteSet(K)
  BY RankIsCount
<1>4. IsFiniteSet({j \in K : j <= h - 1})
  BY <1>3, FS_Subset
<1>5. Rank(K, i) <= Rank(K, h - 1)
  BY <1>2, <1>4, FS_Subset DEF Rank
<1>6. Rank(K, i) \in Nat /\ Rank(K, h - 1) \in Nat
  <2>1. i \in Int /\ h - 1 \in Int
    BY <1>a
  <2> QED BY <2>1, RankIsCount
<1> QED BY <1>1, <1>5, <1>6

\* Every count up to that of K is the rank of a member: the least number
\* with at least that rank.
LEMMA RankTaken ==
  ASSUME NEW n \in Nat, NEW K \in SUBSET Nat, K \subseteq 1..n, NEW k \in 1..Cardinality(K)
  PROVE  \E i \in K : Rank(K, i) = k
<1> DEFINE T == {i \in 0..n : Rank(K, i) >= k}
<1>a. \A j \in K : j \in Int /\ j <= n /\ ~(j <= 0)
  OBVIOUS
<1>1. {j \in K : j <= n} = K
  BY <1>a
<1>2. Cardinality(K) \in Nat
  BY RankIsCount
<1>3. n \in T
  BY <1>1, <1>2 DEF Rank
<1>4. PICK i \in T : \A h \in T : ~(h < i)
  <2>1. T \subseteq Nat /\ T # {}
    BY <1>3
  <2>2. PICK i \in T : \A h \in T : ~(<<h, i>> \in OpToRel(<, Nat))
    BY <2>1, NatLessThanWellFounded, WFMin
  <2> QED BY <2>1, <2>2 DEF OpToRel
<1>5. {j \in K : j <= 0} = {}
  BY <1>a
<1>6. Rank(K, 0) = 0
  BY <1>5, FS_EmptySet DEF Rank
<1>7. i \in 0..n /\ Rank(K, i) >= k /\ i # 0
  BY <1>2, <1>6
<1>8. Rank(K, i - 1) < k
  <2>1. i - 1 \in 0..n /\ i - 1 < i
    BY <1>7
  <2>2. i - 1 \notin T
    BY <1>4, <2>1
  <2>3. i - 1 \in Int
    BY <2>1
  <2>4. Rank(K, i - 1) \in Nat
    BY <2>3, RankIsCount
  <2> QED BY <1>2, <2>1, <2>2, <2>4
<1>b. i \in Int /\ i - 1 \in Int
  BY <1>7
<1>9. Rank(K, i) \in Nat /\ Rank(K, i - 1) \in Nat
  BY <1>b, RankIsCount
<1>10. Rank(K, i) = IF i \in K THEN Rank(K, i - 1) + 1 ELSE Rank(K, i - 1)
  BY <1>b, RankGrows
<1>11. i \in K /\ Rank(K, i) = k
  BY <1>2, <1>7, <1>8, <1>9, <1>10
<1> QED BY <1>11

\* How many are picked.
Count(K, limit) == IF Cardinality(K) < limit THEN Cardinality(K) ELSE limit

\* What is picked: a sequence, at most limit long, of elements of s at
\* positions in K, the first at the first position and so on.
LEMMA PickedElements ==
  ASSUME NEW s, Len(s) \in Nat, DOMAIN s = 1..Len(s),
         NEW K \in SUBSET (DOMAIN s), NEW limit \in Nat
  PROVE  /\ Count(K, limit) \in Nat /\ Count(K, limit) <= limit
         /\ Count(K, limit) <= Cardinality(K)
         /\ Picked(s, K, limit) = [k \in 1..Count(K, limit) |-> Picked(s, K, limit)[k]]
         /\ \A k \in 1..Count(K, limit) :
              \E i \in K : Picked(s, K, limit)[k] = s[i] /\ Rank(K, i) = k
<1>1. K \in SUBSET Nat /\ K \subseteq 1..Len(s)
  OBVIOUS
<1>2. Cardinality(K) \in Nat
  BY <1>1, RankIsCount, 0 \in Int
<1>3. Count(K, limit) \in Nat /\ Count(K, limit) <= limit /\ Count(K, limit) <= Cardinality(K)
  BY <1>2 DEF Count
<1>4. Picked(s, K, limit) = [k \in 1..Count(K, limit) |-> s[CHOOSE i \in K : Rank(K, i) = k]]
  BY DEF Picked, Count, Rank
<1>5. ASSUME NEW k \in 1..Count(K, limit)
      PROVE  \E i \in K : Picked(s, K, limit)[k] = s[i] /\ Rank(K, i) = k
  <2>1. k \in 1..Cardinality(K)
    BY <1>2, <1>3
  <2>2. \E i \in K : Rank(K, i) = k
    BY <1>1, <2>1, RankTaken
  <2>3. Picked(s, K, limit)[k] = s[CHOOSE i \in K : Rank(K, i) = k]
    BY <1>4
  <2> QED BY <2>2, <2>3
<1> QED BY <1>3, <1>4, <1>5

\* Unless more are at K than the limit, every one of them is picked.
LEMMA PickedAll ==
  ASSUME NEW s, Len(s) \in Nat, DOMAIN s = 1..Len(s),
         NEW K \in SUBSET (DOMAIN s), NEW limit \in Nat,
         Count(K, limit) = Cardinality(K), NEW i \in K
  PROVE  \E k \in 1..Count(K, limit) : Picked(s, K, limit)[k] = s[i]
<1>1. K \in SUBSET Nat /\ K \subseteq 1..Len(s) /\ i \in Int
  OBVIOUS
<1>2. Rank(K, i) \in 1..Cardinality(K)
  <2>1. Cardinality(K) \in Nat /\ Rank(K, i) \in Nat /\ Rank(K, i) <= Cardinality(K)
    BY <1>1, RankIsCount
  <2>2. Rank(K, i) = Rank(K, i - 1) + 1
    BY <1>1, RankGrows
  <2>3. Rank(K, i - 1) \in Nat
    BY <1>1, i - 1 \in Int, RankIsCount
  <2> QED BY <2>1, <2>2, <2>3
<1>3. PICK h \in K : Picked(s, K, limit)[Rank(K, i)] = s[h] /\ Rank(K, h) = Rank(K, i)
  BY <1>2, PickedElements
<1>4. h = i
  <2>1. h \in Nat /\ i \in Nat
    BY <1>1
  <2>2. Rank(K, h) \in Nat
    BY <1>2, <1>3
  <2>3. h < i => Rank(K, h) < Rank(K, i)
    BY <1>1, RankMonotone
  <2>4. i < h => Rank(K, i) < Rank(K, h)
    BY <1>1, RankMonotone
  <2> QED BY <1>3, <2>1, <2>2, <2>3, <2>4
<1> QED BY <1>2, <1>3, <1>4

\* The elements of s at K are different.
Distinct(s, K) == \A h, j \in K : s[h] = s[j] => h = j

\* When the limit is reached in a sequence that does not repeat itself at K,
\* as many different elements are picked.
LEMMA PickedFull ==
  ASSUME NEW s, Len(s) \in Nat, DOMAIN s = 1..Len(s),
         NEW K \in SUBSET (DOMAIN s), NEW limit \in Nat, Distinct(s, K)
  PROVE  Picked(s, K, limit) \in Injection(1..Count(K, limit), {s[i] : i \in K})
<1> DEFINE out == Picked(s, K, limit)
           n == Count(K, limit)
<1>1. /\ n \in Nat
      /\ out = [k \in 1..n |-> out[k]]
      /\ \A k \in 1..n : \E i \in K : out[k] = s[i] /\ Rank(K, i) = k
  BY PickedElements
<1> HIDE DEF out, n
<1>2. \A k, l \in 1..n : out[k] = out[l] => k = l
  <2> TAKE k, l \in 1..n
  <2> HAVE out[k] = out[l]
  <2>1. PICK h \in K : out[k] = s[h] /\ Rank(K, h) = k
    BY <1>1
  <2>2. PICK j \in K : out[l] = s[j] /\ Rank(K, j) = l
    BY <1>1
  <2> QED BY <2>1, <2>2 DEF Distinct
<1>3. out \in [1..n -> {s[i] : i \in K}]
  BY <1>1
<1>4. out \in Injection(1..n, {s[i] : i \in K})
  BY <1>1, <1>2, <1>3 DEF Injection, IsInjective
<1> QED BY <1>4 DEF out, n

\* The topics of a reply: known tokens, at most MaxTopics.
LEMMA ClassifiedAreTopics == ASSUME NEW q \in Question PROVE Classified(q) \subseteq Topic
<1> SUFFICES ASSUME NEW raw \in Replies[q], NormaliseTopics(raw, MaxTopics) # <<>>
             PROVE  NormaliseTopics(raw, MaxTopics) \in Topic
  BY DEF Classified
<1> DEFINE K == {i \in DOMAIN raw : raw[i] \in Taxonomy /\ \A j \in 1..i-1 : raw[j] # raw[i]}
           out == Picked(raw, K, MaxTopics)
           n == Count(K, MaxTopics)
<1>1. Len(raw) \in Nat /\ DOMAIN raw = 1..Len(raw) /\ K \in SUBSET (DOMAIN raw) /\ MaxTopics \in Nat
  BY ClassifierAssumption
<1>2. NormaliseTopics(raw, MaxTopics) = out
  BY DEF NormaliseTopics
<1>3. \A i \in K : raw[i] \in Taxonomy
  OBVIOUS
<1> HIDE DEF K
<1>4. /\ n \in Nat /\ n <= MaxTopics
      /\ out = [k \in 1..n |-> out[k]]
      /\ \A k \in 1..n : \E i \in K : out[k] = raw[i]
  BY <1>1, PickedElements
<1>5. out \in [1..n -> Taxonomy]
  BY <1>3, <1>4
<1>6. n # 0
  BY <1>2, <1>4
<1>7. n \in 1..MaxTopics
  BY <1>1, <1>4, <1>6
<1> QED BY <1>2, <1>5, <1>7 DEF Topic

-----------------------------------------------------------------------------
(* The types of the classifier, and its progress.                          *)

\* The types, and that no question is listed twice.  The invariant.
ClassifierInvariant ==
  /\ asked \in Seq(Question)
  /\ \A i, j \in DOMAIN asked : asked[i] = asked[j] => i = j
  /\ batch \in [Worker -> Seq(Question)]
  /\ ClassifierTypeOK

\* The table is empty at first.
LEMMA InitClassifier == ClassifierInit => ClassifierInvariant
<1> SUFFICES ASSUME ClassifierInit PROVE ClassifierInvariant
  OBVIOUS
<1>1. ToSet(<<>>) = {} /\ Len(<<>>) = 0 /\ DOMAIN <<>> = {} /\ <<>> \in Seq(Question)
  BY DEF ToSet
<1> QED BY <1>1, ClassifierAssumption DEF ClassifierInit, ClassifierInvariant, ClassifierTypeOK

\* What a tick lists.
LEMMA ListUnclassifiedRows ==
  ASSUME ClassifierInvariant
  PROVE  /\ ListUnclassified(BatchSize) \in Seq(Question)
         /\ Len(ListUnclassified(BatchSize)) <= BatchSize
         /\ ToSet(ListUnclassified(BatchSize)) \subseteq {q \in ToSet(asked) : Unclassified(q)}
<1> DEFINE K == {i \in DOMAIN asked : Unclassified(asked[i])}
           listed == Picked(asked, K, BatchSize)
           n == Count(K, BatchSize)
<1>1. /\ asked \in Seq(Question) /\ Len(asked) \in Nat /\ DOMAIN asked = 1..Len(asked)
      /\ K \in SUBSET (DOMAIN asked) /\ BatchSize \in Nat
  BY ClassifierAssumption DEF ClassifierInvariant
<1>2. ListUnclassified(BatchSize) = listed
  BY DEF ListUnclassified
<1>3. \A i \in K : asked[i] \in {q \in ToSet(asked) : Unclassified(q)} /\ asked[i] \in Question
  BY <1>1 DEF ToSet
<1> HIDE DEF K
<1>4. /\ n \in Nat /\ n <= BatchSize
      /\ listed = [k \in 1..n |-> listed[k]]
      /\ \A k \in 1..n : \E i \in K : listed[k] = asked[i]
  BY <1>1, PickedElements
<1> HIDE DEF listed, n
<1>5. \A k \in 1..n : listed[k] \in {q \in ToSet(asked) : Unclassified(q)} /\ listed[k] \in Question
  BY <1>3, <1>4
<1>6. listed \in [1..n -> Question]
  BY <1>4, <1>5
<1>7. listed \in Seq(Question) /\ Len(listed) = n /\ DOMAIN listed = 1..n
  BY <1>4, <1>6
<1>8. ToSet(listed) \subseteq {q \in ToSet(asked) : Unclassified(q)}
  BY <1>5, <1>7 DEF ToSet
<1> QED BY <1>2, <1>4, <1>7, <1>8

\* What is left of a batch is part of it.
LEMMA TailIsPart ==
  ASSUME NEW S, NEW s \in Seq(S), s # <<>>
  PROVE  /\ Tail(s) \in Seq(S) /\ Len(Tail(s)) <= Len(s)
         /\ ToSet(Tail(s)) \subseteq ToSet(s)
<1>1. Tail(s) \in Seq(S) /\ Len(Tail(s)) = Len(s) - 1 /\ Len(s) \in Nat
  OBVIOUS
<1>2. \A i \in DOMAIN Tail(s) : i + 1 \in DOMAIN s /\ Tail(s)[i] = s[i + 1]
  OBVIOUS
<1> QED BY <1>1, <1>2 DEF ToSet

\* Every step of the classifier keeps the types.
LEMMA NextClassifier == ClassifierInvariant /\ [ClassifierStep]_classifierVars => ClassifierInvariant'
<1> SUFFICES ASSUME ClassifierInvariant, [ClassifierStep]_classifierVars
             PROVE  ClassifierInvariant'
  OBVIOUS
<1> USE DEF ClassifierInvariant, ClassifierTypeOK
<1>1. ASSUME NEW q \in Question, Ask(q) PROVE ClassifierInvariant'
  <2>1. /\ asked' = Append(asked, q) /\ q \notin ToSet(asked)
        /\ UNCHANGED <<topic, closed, batch>>
    BY <1>1 DEF Ask
  <2>2. asked' \in Seq(Question) /\ DOMAIN asked' = DOMAIN asked \cup {Len(asked) + 1}
    BY <2>1
  <2>3. asked'[Len(asked) + 1] = q /\ \A i \in DOMAIN asked : asked'[i] = asked[i]
    BY <2>1
  <2>4. \A i \in DOMAIN asked : asked[i] # q
    BY <2>1 DEF ToSet
  <2>5. \A i, j \in DOMAIN asked' : asked'[i] = asked'[j] => i = j
    BY <2>2, <2>3, <2>4
  <2>6. ToSet(asked) \subseteq ToSet(asked') /\ ToSet(asked') \subseteq Question
    BY <2>2, <2>3 DEF ToSet
  <2> QED BY <2>1, <2>2, <2>5, <2>6
<1>2. ASSUME NEW q \in Question, Close(q) PROVE ClassifierInvariant'
  BY <1>2 DEF Close
<1>3. ASSUME NEW w \in Worker, StartTick(w) PROVE ClassifierInvariant'
  <2>1. /\ batch' = [batch EXCEPT ![w] = ListUnclassified(BatchSize)]
        /\ UNCHANGED <<asked, topic, closed>>
    BY <1>3 DEF StartTick
  <2>2. /\ ListUnclassified(BatchSize) \in Seq(Question)
        /\ Len(ListUnclassified(BatchSize)) <= BatchSize
        /\ ToSet(ListUnclassified(BatchSize)) \subseteq ToSet(asked)
    BY ListUnclassifiedRows
  <2> QED BY <2>1, <2>2
<1>4. ASSUME NEW w \in Worker, Classify(w) \/ ClassifyFails(w) PROVE ClassifierInvariant'
  <2>1. /\ batch[w] # <<>> /\ batch[w] \in Seq(Question)
        /\ batch' = [batch EXCEPT ![w] = Tail(batch[w])]
        /\ UNCHANGED <<asked, closed>>
    BY <1>4 DEF Classify, ClassifyFails
  <2>2. /\ Tail(batch[w]) \in Seq(Question) /\ Len(Tail(batch[w])) <= Len(batch[w])
        /\ ToSet(Tail(batch[w])) \subseteq ToSet(batch[w])
    BY <2>1, TailIsPart
  <2>3. topic' \in [Question -> Topic \cup {Untagged}]
    <3>1. CASE Classify(w)
      <4>1. PICK topics \in Classified(Head(batch[w])) : SetTopic(Head(batch[w]), topics)
        BY <3>1 DEF Classify
      <4>2. Head(batch[w]) \in Question
        BY <2>1
      <4>3. topics \in Topic
        BY <4>1, <4>2, ClassifiedAreTopics
      <4> QED BY <4>1, <4>2, <4>3 DEF SetTopic
    <3>2. CASE ClassifyFails(w)
      BY <3>2 DEF ClassifyFails
    <3> QED BY <1>4, <3>1, <3>2
  <2>4. /\ Len(batch[w]) \in Nat /\ Len(Tail(batch[w])) \in Nat
        /\ Len(batch[w]) <= BatchSize /\ BatchSize \in Nat
        /\ ToSet(batch[w]) \subseteq ToSet(asked)
    BY <2>1, <2>2, ClassifierAssumption
  <2>5. Len(Tail(batch[w])) <= BatchSize /\ ToSet(Tail(batch[w])) \subseteq ToSet(asked)
    BY <2>2, <2>4
  <2> QED BY <2>1, <2>2, <2>3, <2>5
<1>5. ASSUME NEW w \in Worker, TickCrashes(w) PROVE ClassifierInvariant'
  <2>1. ToSet(<<>>) = {} /\ Len(<<>>) = 0 /\ <<>> \in Seq(Question)
    BY DEF ToSet
  <2> QED BY <1>5, <2>1, ClassifierAssumption DEF TickCrashes
<1>6. CASE UNCHANGED classifierVars
  BY <1>6 DEF classifierVars
<1> QED BY <1>1, <1>2, <1>3, <1>4, <1>5, <1>6 DEF ClassifierStep

\* Only finitely many questions have been asked.
LEMMA AskedIsFinite == ASSUME ClassifierInvariant PROVE IsFiniteSet(ToSet(asked))
<1>1. asked \in Seq(Question) /\ Len(asked) \in Nat /\ DOMAIN asked = 1..Len(asked)
  BY DEF ClassifierInvariant
<1>2. asked \in Surjection(1..Len(asked), ToSet(asked))
  BY <1>1 DEF Surjection, ToSet
<1> QED BY <1>1, <1>2, FS_Interval, FS_Surjection

\* A tick that lists none but hopeless questions, while one waits that is not,
\* is full of them: unless it is full it lists all that wait.
LEMMA HopelessFillTheTick ==
  ASSUME ClassifierInvariant, NEW r \in ToSet(asked) \ Hard, Unclassified(r),
         ToSet(ListUnclassified(BatchSize)) \subseteq Hard
  PROVE  BatchSize <= Cardinality({q \in ToSet(asked) \cap Hard : Unclassified(q)})
<1> DEFINE K == {i \in DOMAIN asked : Unclassified(asked[i])}
           listed == Picked(asked, K, BatchSize)
           n == Count(K, BatchSize)
           Hopeless == {q \in ToSet(asked) \cap Hard : Unclassified(q)}
<1>1. /\ asked \in Seq(Question) /\ Len(asked) \in Nat /\ DOMAIN asked = 1..Len(asked)
      /\ K \in SUBSET (DOMAIN asked) /\ BatchSize \in Nat
  BY ClassifierAssumption DEF ClassifierInvariant
<1>2. ListUnclassified(BatchSize) = listed
  BY DEF ListUnclassified
<1>3. PICK i \in K : asked[i] = r
  <2>1. PICK i \in DOMAIN asked : asked[i] = r
    BY DEF ToSet
  <2> QED BY <2>1
<1>4. Distinct(asked, K)
  BY <1>1 DEF ClassifierInvariant, Distinct
<1>5. Cardinality(K) \in Nat
  <2>1. K \in SUBSET Nat /\ K \subseteq 1..Len(asked)
    BY <1>1
  <2> QED BY <1>1, <2>1, RankIsCount, 0 \in Int
<1> HIDE DEF K
<1>6. listed \in Injection(1..n, {asked[h] : h \in K})
  BY <1>1, <1>4, PickedFull
<1>7. n # Cardinality(K)
  <2> SUFFICES ASSUME n = Cardinality(K) PROVE FALSE
    OBVIOUS
  <2>1. PICK k \in 1..n : listed[k] = asked[i]
    BY <1>1, PickedAll
  <2>2. DOMAIN listed = 1..n
    BY <1>6 DEF Injection
  <2>3. asked[i] \in ToSet(listed)
    BY <2>1, <2>2 DEF ToSet
  <2> QED BY <1>2, <1>3, <2>3
<1>8. n = BatchSize
  BY <1>1, <1>5, <1>7 DEF Count
<1> HIDE DEF listed, n
<1>9. ToSet(listed) \subseteq Hopeless
  BY <1>2, ListUnclassifiedRows
<1>10. listed \in Injection(1..n, Hopeless)
  <2>1. listed \in [1..n -> {asked[h] : h \in K}] /\ IsInjective(listed)
    BY <1>6 DEF Injection
  <2>2. \A k \in 1..n : listed[k] \in Hopeless
    BY <1>9, <2>1 DEF ToSet
  <2> HIDE DEF Hopeless
  <2> QED BY <2>1, <2>2 DEF Injection
<1>11. IsFiniteSet(Hopeless)
  BY AskedIsFinite, FS_Subset
<1>12. Cardinality(1..n) <= Cardinality(Hopeless)
  BY <1>10, <1>11, FS_Injection
<1>13. Cardinality(1..n) = BatchSize
  BY <1>1, <1>8, FS_Interval
<1> QED BY <1>12, <1>13

\* In every tick that leaves it enough room: only a worker with nothing left
\* of its batch lists, and what it lists is the oldest rows that wait.
LEMMA StepProgress ==
  ASSUME ClassifierInvariant, [ClassifierStep]_classifierVars,
         NEW w \in Worker, batch[w] = <<>>, batch'[w] # <<>>,
         Cardinality({q \in ToSet(asked) \cap Hard : Unclassified(q)}) < BatchSize,
         \E q \in ToSet(asked) \ Hard : Unclassified(q)
  PROVE  \E q \in ToSet(batch'[w]) \ Hard : Unclassified(q)
<1>1. PICK v \in Worker : StartTick(v) \/ Classify(v) \/ ClassifyFails(v) \/ TickCrashes(v)
  BY DEF ClassifierStep, Ask, Close, classifierVars
<1>2. v = w /\ StartTick(w)
  BY <1>1 DEF ClassifierInvariant, StartTick, Classify, ClassifyFails, TickCrashes
<1>3. batch'[w] = ListUnclassified(BatchSize)
  BY <1>2 DEF ClassifierInvariant, StartTick
<1>4. PICK r \in ToSet(asked) \ Hard : Unclassified(r)
  OBVIOUS
<1>5. ~(ToSet(batch'[w]) \subseteq Hard)
  <2> DEFINE c == Cardinality({q \in ToSet(asked) \cap Hard : Unclassified(q)})
  <2> SUFFICES ASSUME ToSet(batch'[w]) \subseteq Hard PROVE FALSE
    OBVIOUS
  <2>1. BatchSize <= c
    BY <1>3, <1>4, HopelessFillTheTick
  <2>2. IsFiniteSet({q \in ToSet(asked) \cap Hard : Unclassified(q)})
    BY AskedIsFinite, FS_Subset
  <2>3. c \in Nat /\ BatchSize \in Nat
    BY <2>2, FS_CardinalityType, ClassifierAssumption
  <2> HIDE DEF c
  <2>4. c < BatchSize
    BY DEF c
  <2> QED BY <2>1, <2>3, <2>4
<1> QED BY <1>3, <1>5, ListUnclassifiedRows

\* However many workers tick, fail and crash, and whatever is asked and closed
\* meanwhile: the classifier's tables keep their shape, topics stay, and no
\* tick passes over what it could tag as long as the hopeless leave a place.
THEOREM ClassifierStaysRight == ClassifierSpec => []ClassifierTypeOK
<1>1. ClassifierInvariant => ClassifierTypeOK
  BY DEF ClassifierInvariant
<1> QED BY <1>1, InitClassifier, NextClassifier, PTL DEF ClassifierSpec

\* No tick passes over a question the model can tag, however many questions
\* wait, workers tick and ticks crash, as long as the hopeless ones leave a
\* place in the batch (db.ts:48).
THEOREM TicksMakeProgress == ClassifierSpec => TickMakesProgress
<1>1. ClassifierInvariant /\ [ClassifierStep]_classifierVars =>
        [\A w \in Worker :
           /\ batch[w] = <<>> /\ batch'[w] # <<>>
           /\ Cardinality({q \in ToSet(asked) \cap Hard : Unclassified(q)}) < BatchSize
           /\ \E q \in ToSet(asked) \ Hard : Unclassified(q)
           => \E q \in ToSet(batch'[w]) \ Hard : Unclassified(q)]_batch
  BY StepProgress
<1> QED BY <1>1, InitClassifier, NextClassifier, PTL DEF ClassifierSpec, TickMakesProgress

-----------------------------------------------------------------------------
(* The types of the skill.                                                 *)

\* A match is an option, and none that the words begin with is longer: of the
\* options the words begin with, take one that leaves the fewest words over.
LEMMA MatchIsOption ==
  ASSUME NEW p \in Proc, NEW said \in Said[p] \ {NoSignal}, MatchOption(said) # Nothing
  PROVE  MatchOption(said) \in Option
<1> DEFINE hits == {o \in Option : o # <<>> /\ IsPrefix(o, said)}
           T == {n \in Nat : \E o \in hits : n = Len(said) - Len(o)}
<1> DEFINE longest == CHOOSE best \in hits : \A other \in hits : Len(other) <= Len(best)
<1>7. MatchOption(said) = IF hits = {} THEN Nothing ELSE longest
  BY DEF MatchOption, Zenon
<1>1. hits # {}
  BY <1>7
<1>2. Len(said) \in Nat /\ \A o \in hits : Len(o) \in Nat /\ Len(o) <= Len(said)
  BY SkillAssumption DEF IsPrefix
<1>3. \A o \in hits : Len(said) - Len(o) \in T
  BY <1>2
<1>4. PICK n \in T : \A m \in T : ~(m < n)
  <2>1. T \subseteq Nat /\ T # {}
    BY <1>1, <1>3
  <2>2. PICK n \in T : \A m \in T : ~(<<m, n>> \in OpToRel(<, Nat))
    BY <2>1, NatLessThanWellFounded, WFMin
  <2> QED BY <2>1, <2>2 DEF OpToRel
<1>5. PICK o \in hits : n = Len(said) - Len(o)
  OBVIOUS
<1>6. ASSUME NEW other \in hits PROVE Len(other) <= Len(o)
  <2>1. Len(said) - Len(other) \in T
    BY <1>3
  <2>2. ~(Len(said) - Len(other) < Len(said) - Len(o))
    BY <1>4, <1>5, <2>1
  <2>3. Len(said) \in Nat /\ Len(other) \in Nat /\ Len(o) \in Nat
    BY <1>2
  <2> QED BY <2>2, <2>3
<1>8. longest \in hits
  <2> HIDE DEF hits
  <2> QED BY <1>5, <1>6
<1> HIDE DEF longest
<1> QED BY <1>1, <1>7, <1>8

\* The broker keeps what the skill sends: the longest option that an option
\* begins with is that option.
LEMMA SentIsKept ==
  ASSUME NEW text \in Text, ClassifyAnswer(text) # Nothing
  PROVE  ClassifyAnswer(text) = text
<1> DEFINE hits == {o \in Option : o # <<>> /\ IsPrefix(o, text)}
<1> DEFINE longest == CHOOSE best \in hits : \A other \in hits : Len(other) <= Len(best)
<1>1. CASE text = NoSignal
  BY <1>1 DEF ClassifyAnswer
<1>2. CASE text \in Option
  <2>1. text # NoSignal /\ text \in Seq(STRING) /\ Option \subseteq Seq(STRING)
    BY <1>2, SkillAssumption
  <2>2. ClassifyAnswer(text) = IF hits = {} THEN Nothing ELSE longest
    BY <2>1, Zenon DEF ClassifyAnswer, MatchOption
  <2>3. \A o \in hits : o \in Seq(STRING) /\ Len(o) \in Nat /\ Len(o) <= Len(text)
                       /\ SubSeq(o, 1, Len(o)) = SubSeq(text, 1, Len(o))
    BY <2>1 DEF IsPrefix
  <2>4. hits # {}
    BY <2>2
  <2>5. text # <<>>
    BY <2>3, <2>4, <2>1
  <2>6. IsPrefix(text, text)
    BY <2>1 DEF IsPrefix
  <2>7. text \in hits /\ \A o \in hits : Len(o) <= Len(text)
    BY <1>2, <2>3, <2>5, <2>6
  <2> HIDE DEF hits
  <2>8. longest \in hits /\ Len(text) <= Len(longest)
    BY <2>7, Zenon
  <2>9. longest = text
    <3>1. Len(longest) = Len(text) /\ longest \in Seq(STRING)
      BY <2>1, <2>3, <2>8
    <3>2. SubSeq(longest, 1, Len(longest)) = SubSeq(text, 1, Len(text))
      BY <2>3, <2>8, <3>1
    <3> HIDE DEF longest
    <3> QED BY <2>1, <3>1, <3>2
  <2> QED BY <2>2, <2>4, <2>9
<1> QED BY <1>1, <1>2 DEF Text

\* Nothing is submitted, listed or recorded at first.
LEMMA InitSkill == SkillInit => SkillTypeOK
<1> SUFFICES ASSUME SkillInit PROVE SkillTypeOK
  OBVIOUS
<1>1. 1 \in 1..DaysPerMonth /\ 0 \in 0..Budget /\ 0 \in 0..Attempts - 1
  BY SkillAssumption
<1>2. /\ rows \in [Question -> {"none", "accepted", "refused"}]
      /\ texts \in [Question -> Text \cup {Nothing}]
      /\ stored \in [Question -> Text \cup {Nothing}]
      /\ job \in [Proc -> Job \cup {Idle}]
  BY DEF SkillInit
<1> QED BY <1>1, <1>2 DEF SkillInit, SkillTypeOK

\* A typed submission stays typed at its next stage.
LEMMA JobMovesOn ==
  ASSUME SkillTypeOK, NEW p \in Proc, job[p] # Idle,
         NEW at \in {"signed", "delivered", "noted", "filed"}, NEW ok \in BOOLEAN
  PROVE  /\ job[p] \in Job /\ job[p].q \in Question /\ job[p].text \in Text
         /\ [[job[p] EXCEPT !.at = at] EXCEPT !.ok = ok] \in Job
         /\ [job[p] EXCEPT !.at = at] \in Job
<1>1. job[p] \in Job
  BY DEF SkillTypeOK
<1>2. [job[p] EXCEPT !.at = at] \in Job
  BY <1>1 DEF Job
<1>3. ASSUME NEW j \in Job PROVE [j EXCEPT !.ok = ok] \in Job
  BY DEF Job
<1> QED BY <1>1, <1>2, <1>3 DEF Job

\* Every step of the skill keeps the types.
LEMMA NextSkill == SkillTypeOK /\ [SkillStep]_skillVars => SkillTypeOK'
<1> SUFFICES ASSUME SkillTypeOK, [SkillStep]_skillVars PROVE SkillTypeOK'
  OBVIOUS
<1>1. ASSUME NEW p \in Proc, NEW q \in Question, NEW text \in Text, Sign(p, q, text)
      PROVE  SkillTypeOK'
  <2>1. Envelope(q, text) \in Job
    BY DEF Envelope, Job
  <2> HIDE DEF Job
  <2>2. misreads' \in Nat
    <3>1. misreads' = misreads \/ misreads' = misreads + 1
      BY <1>1, Zenon DEF Sign, PassesPolicy
    <3> QED BY <3>1 DEF SkillTypeOK
  <2>3. job' \in [Proc -> Job \cup {Idle}]
    BY <1>1, <2>1 DEF Sign, SkillTypeOK
  <2>4. offered' \subseteq Question
    BY <1>1 DEF Sign, Handled, SkillTypeOK
  <2> QED BY <1>1, <2>2, <2>3, <2>4 DEF Sign, SkillTypeOK, brokerVars, postVars
<1>2. ASSUME NEW p \in Proc, NEW q \in Question, SubmitAnswer(p, q) \/ SubmitNoSignal(p, q)
      PROVE  SkillTypeOK'
  BY <1>1, <1>2, MatchIsOption DEF SubmitAnswer, SubmitNoSignal, Text
<1>3. ASSUME NEW q \in Question, PassOver(q) PROVE SkillTypeOK'
  BY <1>3 DEF PassOver, SkillTypeOK, ledgerVars, brokerVars, postVars
<1>4. ASSUME NEW p \in Proc, Deliver(p) PROVE SkillTypeOK'
  <2>1. PICK stores \in BOOLEAN, ok \in BOOLEAN :
          /\ job[p] # Idle
          /\ stores => ClassifyAnswer(job[p].text) # Nothing
          /\ IF stores
             THEN /\ stored' = [stored EXCEPT ![job[p].q] = ClassifyAnswer(job[p].text)]
                  /\ retracted' = IF p = Cron THEN retracted ELSE retracted \ {job[p].q}
             ELSE UNCHANGED <<stored, retracted>>
          /\ job' = [job EXCEPT ![p].at = "delivered", ![p].ok = ok]
          /\ tries' = [tries EXCEPT ![p] = 0]
          /\ lost' = lost \ {p}
          /\ muddled' = IF Muddles(p, stores, ok) THEN muddled \cup {job[p].q} ELSE muddled
          /\ UNCHANGED <<token, ledgerVars, cronVars>>
    BY <1>4 DEF Deliver, Post, BrokerTakes
  <2> DEFINE j == [[job[p] EXCEPT !.at = "delivered"] EXCEPT !.ok = ok]
  <2>2. job[p].q \in Question /\ job[p].text \in Text /\ j \in Job
    BY <2>1, JobMovesOn
  <2>3. job' = [job EXCEPT ![p] = j]
    BY <2>1 DEF SkillTypeOK
  <2> HIDE DEF j
  <2>4. /\ job' \in [Proc -> Job \cup {Idle}]
        /\ muddled' \subseteq Question
    BY <2>1, <2>2, <2>3 DEF SkillTypeOK
  <2>5. stores => ClassifyAnswer(job[p].text) \in Text
    BY <2>1, <2>2, SentIsKept
  <2>6. stored' \in [Question -> Text \cup {Nothing}] /\ retracted' \subseteq Question
    BY <2>1, <2>2, <2>5 DEF SkillTypeOK
  <2>7. tries' \in [Proc -> 0..Attempts - 1] /\ lost' \subseteq Proc
    BY <2>1, SkillAssumption DEF SkillTypeOK
  <2> QED BY <2>1, <2>4, <2>6, <2>7 DEF SkillTypeOK, ledgerVars, cronVars
<1>15. ASSUME NEW p \in Proc, Retry(p) PROVE SkillTypeOK'
  <2>1. PICK stores \in BOOLEAN :
          /\ job[p] # Idle
          /\ stores => ClassifyAnswer(job[p].text) # Nothing
          /\ IF stores
             THEN /\ stored' = [stored EXCEPT ![job[p].q] = ClassifyAnswer(job[p].text)]
                  /\ retracted' = IF p = Cron THEN retracted ELSE retracted \ {job[p].q}
             ELSE UNCHANGED <<stored, retracted>>
          /\ tries[p] < Attempts - 1
          /\ tries' = [tries EXCEPT ![p] = @ + 1]
          /\ lost' \in {lost, lost \cup {p}}
          /\ muddled' \in {muddled, muddled \cup {job[p].q}}
          /\ UNCHANGED <<token, ledgerVars, job, cronVars>>
    BY <1>15 DEF Retry, Post, BrokerTakes
  <2>2. job[p].q \in Question /\ job[p].text \in Text
    BY <2>1, JobMovesOn
  <2>3. stores => ClassifyAnswer(job[p].text) \in Text
    BY <2>1, <2>2, SentIsKept
  <2>4. stored' \in [Question -> Text \cup {Nothing}] /\ retracted' \subseteq Question
    BY <2>1, <2>2, <2>3 DEF SkillTypeOK
  <2>5. tries' \in [Proc -> 0..Attempts - 1]
    <3>1. tries[p] \in 0..Attempts - 1 /\ tries[p] + 1 \in 0..Attempts - 1
      BY <2>1, SkillAssumption DEF SkillTypeOK
    <3> QED BY <2>1, <3>1 DEF SkillTypeOK
  <2>6. lost' \subseteq Proc /\ muddled' \subseteq Question
    BY <2>1, <2>2 DEF SkillTypeOK
  <2> QED BY <2>1, <2>4, <2>5, <2>6 DEF SkillTypeOK, ledgerVars, cronVars
<1>5. ASSUME NEW p \in Proc, RecordAnswer(p) PROVE SkillTypeOK'
  <2>1. job[p] # Idle
    BY <1>5 DEF RecordAnswer
  <2>2. /\ job[p].q \in Question /\ job[p].text \in Text
        /\ [job[p] EXCEPT !.at = "noted"] \in Job
    BY <2>1, JobMovesOn
  <2>3. job' = [job EXCEPT ![p] = [job[p] EXCEPT !.at = "noted"]]
    BY <1>5 DEF RecordAnswer, SkillTypeOK
  <2>4. job' \in [Proc -> Job \cup {Idle}]
    BY <2>2, <2>3 DEF SkillTypeOK
  <2> QED BY <1>5, <2>2, <2>4 DEF RecordAnswer, SkillTypeOK, brokerVars, postVars, cronVars
<1>6. ASSUME NEW p \in Proc, RecordSubmission(p) PROVE SkillTypeOK'
  <2>1. job[p] # Idle
    BY <1>6 DEF RecordSubmission
  <2>2. /\ job[p].q \in Question /\ job[p].text \in Text
        /\ [job[p] EXCEPT !.at = "filed"] \in Job
    BY <2>1, JobMovesOn
  <2>3. \/ job' = [job EXCEPT ![p] = [job[p] EXCEPT !.at = "filed"]]
        \/ job' = [job EXCEPT ![p] = Idle]
    BY <1>6 DEF RecordSubmission, SkillTypeOK
  <2>4. job' \in [Proc -> Job \cup {Idle}]
    BY <2>2, <2>3 DEF SkillTypeOK
  <2> QED BY <1>6, <2>2, <2>4 DEF RecordSubmission, SkillTypeOK, brokerVars, postVars, cronVars
<1>7. ASSUME NEW p \in Proc, CountSpend(p) \/ Dies(p) PROVE SkillTypeOK'
  <2>1. job[p] # Idle
    BY <1>7 DEF CountSpend, Dies
  <2>2. job[p].q \in Question
    BY <2>1, JobMovesOn
  <2>3. CASE CountSpend(p)
    BY <2>2, <2>3 DEF CountSpend, SkillTypeOK, brokerVars, postVars, cronVars
  <2>4. CASE Dies(p)
    <3>1. tries' \in [Proc -> 0..Attempts - 1] /\ lost' \subseteq Proc
      BY <2>4, SkillAssumption DEF Dies, SkillTypeOK
    <3> QED BY <2>2, <2>4, <3>1 DEF Dies, SkillTypeOK, ledgerVars, cronVars
  <2> QED BY <1>7, <2>3, <2>4
<1>8. ASSUME NEW p \in Proc, List(p) PROVE SkillTypeOK'
  <2>1. ASSUME NEW reached \in BOOLEAN, NEW updates \in BOOLEAN
        PROVE  ApplyBudgetSchedule(reached, updates) \in {"none", "daily", "parked"}
    BY DEF ApplyBudgetSchedule, SkillTypeOK
  <2>2. \A today : Answerable(today) \subseteq Question
    BY DEF Answerable, Feed
  <2>3. PICK measured \in BOOLEAN, works \in BOOLEAN, updates \in BOOLEAN, today \in {spend, 0} :
          /\ schedule' = ApplyBudgetSchedule(works /\ BudgetReached(measured), updates)
          /\ outdated' = (~updates /\ (outdated \/ (p = Cron /\ day = 1)))
          /\ offered' \in {offered, {}, Answerable(today)}
          /\ cron' \in {cron, "listed"}
          /\ \E offers \in {{}, Answerable(today)} :
               muddled' \in {muddled, muddled \cup
                 {q \in offers : \E other \in Proc : job[other] # Idle /\ job[other].q = q}}
          /\ UNCHANGED <<token, ledgerVars, job, brokerVars, day, cost>>
    BY <1>8 DEF List
  <2>4. (works /\ BudgetReached(measured)) \in BOOLEAN
    BY DEF BudgetReached
  <2>5. schedule' \in {"none", "daily", "parked"}
    BY <2>1, <2>3, <2>4
  <2>6. outdated' \in BOOLEAN /\ offered' \subseteq Question /\ muddled' \subseteq Question
    BY <2>2, <2>3 DEF SkillTypeOK
  <2> QED BY <2>3, <2>5, <2>6 DEF SkillTypeOK, ledgerVars, brokerVars, postVars
<1>9. ASSUME NEW p \in Proc, NEW q \in Question, Revoke(p, q) PROVE SkillTypeOK'
  BY <1>9 DEF Revoke, SkillTypeOK, ledgerVars, postVars, cronVars
<1>10. CASE CronFires
  BY <1>10 DEF CronFires, SkillTypeOK, ledgerVars, brokerVars, postVars
<1>11. CASE SessionEnds
  <2>1. cost' \in 0..Budget
    BY <1>11, SkillAssumption DEF SessionEnds, SkillTypeOK, OverBudget
  <2> QED BY <1>11, <2>1 DEF SessionEnds, SkillTypeOK, ledgerVars, brokerVars, postVars
<1>16. CASE CostSettles
  BY <1>16 DEF CostSettles, SkillTypeOK, ledgerVars, brokerVars, postVars
<1>12. CASE NewDay
  <2>1. day' \in 1..DaysPerMonth /\ cost' \in 0..Budget
    BY <1>12, SkillAssumption DEF NewDay, SkillTypeOK
  <2> QED BY <1>12, <2>1 DEF NewDay, SkillTypeOK, brokerVars, postVars
<1>13. CASE Onboard \/ EnsureCron \/ Expire
  BY <1>13 DEF Onboard, EnsureCron, Expire, SkillTypeOK, ledgerVars, brokerVars, postVars,
              cronVars
<1>14. CASE UNCHANGED skillVars
  BY <1>14 DEF skillVars, SkillTypeOK, ledgerVars, brokerVars, postVars, cronVars
<1> QED
  BY <1>2, <1>3, <1>4, <1>5, <1>6, <1>7, <1>8, <1>9, <1>10, <1>11, <1>12, <1>13, <1>14, <1>15, <1>16
  DEF SkillStep

\* Classifier and skill keep their tables in shape: what a reply is reduced to
\* is a topic, what is sent is an option, not the agent's own words.
THEOREM AnsweringTypeCorrect == Spec => []AnsweringTypeOK
<1> DEFINE Types == ClassifierInvariant /\ SkillTypeOK
<1>1. Init => Types
  BY InitClassifier, InitSkill DEF Init
<1>2. Types /\ [Next]_answeringVars => Types'
  BY NextClassifier, NextSkill DEF Next, answeringVars
<1>3. Types => AnsweringTypeOK
  BY DEF ClassifierInvariant, AnsweringTypeOK
<1> HIDE DEF Types
<1> QED BY <1>1, <1>2, <1>3, PTL DEF Spec

-----------------------------------------------------------------------------
(* The ledger and the broker.                                              *)

\* The next stage of a submission, field by field.
LEMMA NextStage ==
  ASSUME SkillTypeOK, NEW p \in Proc, job[p] # Idle,
         NEW at \in {"signed", "delivered", "noted", "filed"}, NEW ok \in BOOLEAN
  PROVE  /\ [job[p] EXCEPT !.at = at] # Idle
         /\ [job[p] EXCEPT !.at = at].at = at
         /\ [job[p] EXCEPT !.at = at].q = job[p].q
         /\ [job[p] EXCEPT !.at = at].text = job[p].text
         /\ [job[p] EXCEPT !.at = at].ok = job[p].ok
         /\ [[job[p] EXCEPT !.at = at] EXCEPT !.ok = ok] # Idle
         /\ [[job[p] EXCEPT !.at = at] EXCEPT !.ok = ok].at = at
         /\ [[job[p] EXCEPT !.at = at] EXCEPT !.ok = ok].q = job[p].q
         /\ [[job[p] EXCEPT !.at = at] EXCEPT !.ok = ok].text = job[p].text
         /\ [[job[p] EXCEPT !.at = at] EXCEPT !.ok = ok].ok = ok
<1> DEFINE i == [job[p] EXCEPT !.at = at]
           j == [i EXCEPT !.ok = ok]
<1>1. job[p] \in Job /\ i \in Job /\ j \in Job
  BY JobMovesOn
<1>2. i # Idle /\ j # Idle
  BY <1>1, SkillAssumption
<1>3. i.at = at /\ i.q = job[p].q /\ i.text = job[p].text /\ i.ok = job[p].ok
  BY <1>1 DEF Job
<1>4. j.at = i.at /\ j.q = i.q /\ j.text = i.text /\ j.ok = ok
  <2> HIDE DEF i
  <2> QED BY <1>1 DEF Job
<1> HIDE DEF i, j
<1>5. /\ i # Idle /\ i.at = at /\ i.q = job[p].q /\ i.text = job[p].text
      /\ i.ok = job[p].ok
      /\ j # Idle /\ j.at = at /\ j.q = job[p].q /\ j.text = job[p].text
      /\ j.ok = ok
  BY <1>2, <1>3, <1>4
<1> QED BY <1>5 DEF i, j

\* What a step leaves alone of a question stays kept.
LEMMA KeptIfUntouched ==
  ASSUME NEW q \in Question, Kept(q),
         rows'[q] = rows[q], texts'[q] = texts[q], stored'[q] = stored[q],
         q \in retracted' <=> q \in retracted,
         \A p \in Proc : InFlight(p, q)' <=> InFlight(p, q),
         \A p \in Proc : InFlight(p, q) =>
            /\ job'[p].ok = job[p].ok /\ job'[p].text = job[p].text
            /\ job'[p].at = job[p].at /\ (p \in lost' <=> p \in lost),
         OnCronsList(q)' => OnCronsList(q)
  PROVE  Kept(q)'
BY DEF Kept, Review, Taken

\* Nothing is in flight, offered or taken back at first.
LEMMA InitLedger == Init => LedgerInvariant
<1> SUFFICES ASSUME Init PROVE LedgerInvariant
  OBVIOUS
<1>1. Cron \in Proc
  BY SkillAssumption
<1>2. /\ job[Cron] = Idle /\ offered = {} /\ retracted = {} /\ cron = "due"
      /\ \A p \in Proc : job[p] = Idle
      /\ lost = {}
      /\ \A q \in Question : rows[q] = "none" /\ stored[q] = Nothing
  BY <1>1 DEF Init, SkillInit
<1> QED BY <1>2 DEF LedgerInvariant, Kept, InFlight, OnCronsList, CronPosts, Review

\* A check puts nothing in flight, and takes what the cron answers from its list.
LEMMA SignLedger ==
  ASSUME SkillTypeOK, LedgerInvariant,
         NEW p \in Proc, NEW r \in Question, NEW text, Sign(p, r, text)
  PROVE  LedgerInvariant'
<1> DEFINE e == Envelope(r, text)
<1>1. /\ job[p] = Idle /\ job' = [job EXCEPT ![p] = e]
      /\ p = Cron => cron = "listed" /\ r \in offered
      /\ offered' = IF p = Cron THEN offered \ {r} ELSE offered
      /\ UNCHANGED <<rows, texts, stored, retracted, lost, cron, muddled>>
      /\ p \notin lost
  BY DEF Sign, MaySubmit, Handled, brokerVars, postVars, LedgerInvariant
<1>2. e.at = "signed" /\ e.q = r
  BY DEF Envelope
<1> HIDE DEF e
<1>3. Cron \in Proc /\ job'[p] = e /\ \A o \in Proc \ {p} : job'[o] = job[o]
  BY <1>1, SkillAssumption DEF SkillTypeOK
<1>4. ASSUME NEW q \in Question \ muddled' PROVE Kept(q)'
  <2>1. Kept(q)
    BY <1>1, <1>4 DEF LedgerInvariant
  <2>2. \A o \in Proc : InFlight(o, q)' <=> InFlight(o, q)
    BY <1>1, <1>2, <1>3 DEF InFlight
  <2>3. \A o \in Proc : InFlight(o, q) => job'[o] = job[o]
    BY <1>1, <1>3 DEF InFlight
  <2>4. OnCronsList(q)' => OnCronsList(q)
    BY <1>1, <1>2, <1>3 DEF OnCronsList, CronPosts
  <2> QED BY <1>1, <2>1, <2>2, <2>3, <2>4, KeptIfUntouched
<1>5. /\ cron' # "listed" => job'[Cron] = Idle /\ offered' = {}
      /\ job'[Cron] # Idle => job'[Cron].q \notin offered'
  BY <1>1, <1>2, <1>3 DEF LedgerInvariant
<1>6. \A o \in lost' : job'[o] # Idle /\ job'[o].at = "signed"
  BY <1>1, <1>3, SkillTypeOK DEF LedgerInvariant, SkillTypeOK
<1> QED BY <1>4, <1>5, <1>6 DEF LedgerInvariant

\* An attempt that fails: alone on its question, it leaves the answer it stored
\* in flight; otherwise the question is muddled.
LEMMA RetryLedger ==
  ASSUME SkillTypeOK, LedgerInvariant, NEW p \in Proc, Retry(p)
  PROVE  LedgerInvariant'
<1>0. PICK r : r = job[p].q
  OBVIOUS
<1>a. PICK stores \in BOOLEAN :
        /\ job[p] # Idle /\ job[p].at = "signed"
        /\ stores => ClassifyAnswer(job[p].text) # Nothing
        /\ IF stores
           THEN /\ stored' = [stored EXCEPT ![r] = ClassifyAnswer(job[p].text)]
                /\ retracted' = IF p = Cron THEN retracted ELSE retracted \ {r}
           ELSE UNCHANGED <<stored, retracted>>
        /\ lost' = IF stores THEN lost \cup {p} ELSE lost
        /\ muddled' = IF stores /\ Contended(p, r) THEN muddled \cup {r} ELSE muddled
        /\ UNCHANGED <<token, ledgerVars, job, cronVars>>
  BY <1>0 DEF Retry, Post, BrokerTakes
<1>1. /\ job[p] # Idle /\ job[p].at = "signed" /\ r \in Question
      /\ UNCHANGED <<rows, texts, job, offered, cron>>
      /\ lost \subseteq lost' /\ \A o \in Proc \ {p} : o \in lost' <=> o \in lost
      /\ \A o \in lost' : o \in lost \/ o = p
      /\ muddled \subseteq muddled'
  BY <1>0, <1>a, JobMovesOn DEF ledgerVars, cronVars
<1>2. \A q \in Question : OnCronsList(q)' <=> OnCronsList(q)
  BY <1>1 DEF OnCronsList, CronPosts
<1>3. ASSUME NEW q \in Question \ muddled', q # r \/ ~stores PROVE Kept(q)'
  <2>1. Kept(q)
    BY <1>1, <1>3 DEF LedgerInvariant
  <2>2. stored'[q] = stored[q] /\ (q \in retracted' <=> q \in retracted)
    BY <1>1, <1>3, <1>a DEF SkillTypeOK
  <2>3. \A o \in Proc : job[o] # Idle /\ job[o].q = q => (o \in lost' <=> o \in lost)
    BY <1>0, <1>1, <1>3, <1>a
  <2>4. \A o \in Proc : InFlight(o, q)' <=> InFlight(o, q)
    BY <1>1, <2>3 DEF InFlight
  <2>5. \A o \in Proc : InFlight(o, q) => job'[o] = job[o] /\ (o \in lost' <=> o \in lost)
    BY <1>1, <2>3 DEF InFlight
  <2> QED BY <1>1, <1>2, <2>1, <2>2, <2>4, <2>5, KeptIfUntouched
<1>4. ASSUME r \notin muddled', stores PROVE Kept(r)'
  <2>1. /\ \A o \in Proc \ {p} : ~(job[o] # Idle /\ job[o].q = r)
        /\ p # Cron => r \notin offered
    BY <1>a, <1>4 DEF Contended
  <2>2. Kept(r)
    BY <1>1, <1>4 DEF LedgerInvariant
  <2>3. p \in lost' /\ stored'[r] = job[p].text
    BY <1>1, <1>4, <1>a, JobMovesOn, SentIsKept DEF SkillTypeOK
  <2>4. \A o \in Proc : InFlight(o, r)' <=> o = p
    BY <1>0, <1>1, <2>1, <2>3 DEF InFlight
  <2>5. OnCronsList(r)' => p = Cron /\ r \notin retracted' /\ rows[r] # "accepted"
    <3>1. CASE p = Cron
      BY <1>1, <1>2, <1>4, <1>a, <2>2, <3>1 DEF Kept
    <3>2. CASE p # Cron
      BY <1>1, <1>2, <2>1, <3>2, SkillAssumption DEF OnCronsList, CronPosts
    <3> QED BY <3>1, <3>2
  <2> QED BY <1>1, <2>3, <2>4, <2>5 DEF Kept, Taken
<1>5. /\ cron' # "listed" => job'[Cron] = Idle /\ offered' = {}
      /\ job'[Cron] # Idle => job'[Cron].q \notin offered'
      /\ \A o \in lost' : job'[o] # Idle /\ job'[o].at = "signed"
  BY <1>1 DEF LedgerInvariant
<1> QED BY <1>3, <1>4, <1>5 DEF LedgerInvariant

\* The last attempt: alone on its question, acknowledged or refused, it leaves an
\* answer in flight that says what the broker holds; otherwise the question
\* is muddled.
LEMMA DeliverLedger ==
  ASSUME SkillTypeOK, LedgerInvariant, NEW p \in Proc, Deliver(p)
  PROVE  LedgerInvariant'
<1>0. PICK r : r = job[p].q
  OBVIOUS
<1>a. PICK stores \in BOOLEAN, ok \in BOOLEAN :
        /\ job[p] # Idle /\ job[p].at = "signed"
        /\ ok => stores
        /\ stores => ClassifyAnswer(job[p].text) # Nothing
        /\ IF stores
           THEN /\ stored' = [stored EXCEPT ![r] = ClassifyAnswer(job[p].text)]
                /\ retracted' = IF p = Cron THEN retracted ELSE retracted \ {r}
           ELSE UNCHANGED <<stored, retracted>>
        /\ job' = [job EXCEPT ![p].at = "delivered", ![p].ok = ok]
        /\ lost' = lost \ {p}
        /\ muddled' = IF Muddles(p, stores, ok) THEN muddled \cup {r} ELSE muddled
        /\ UNCHANGED <<token, ledgerVars, cronVars>>
  BY <1>0 DEF Deliver, Post, BrokerTakes
<1>b. stores => ClassifyAnswer(job[p].text) = job[p].text
  BY <1>a, JobMovesOn, SentIsKept
<1>1. /\ job[p] # Idle /\ job[p].at = "signed"
      /\ ok => stores
      /\ IF stores
         THEN /\ stored' = [stored EXCEPT ![r] = job[p].text]
              /\ retracted' = IF p = Cron THEN retracted ELSE retracted \ {r}
         ELSE UNCHANGED <<stored, retracted>>
      /\ job' = [job EXCEPT ![p].at = "delivered", ![p].ok = ok]
      /\ lost' = lost \ {p}
      /\ muddled' = IF Muddles(p, stores, ok) THEN muddled \cup {r} ELSE muddled
      /\ UNCHANGED <<token, ledgerVars, cronVars>>
  BY <1>a, <1>b
<1> DEFINE i == [job[p] EXCEPT !.at = "delivered"]
           j == [i EXCEPT !.ok = ok]
<1>2. job' = [job EXCEPT ![p] = j]
  BY <1>1 DEF SkillTypeOK
<1>3. j # Idle /\ j.at = "delivered" /\ j.q = r /\ j.text = job[p].text /\ j.ok = ok
  <2>1. i # Idle /\ i.at = "delivered" /\ i.q = r /\ i.text = job[p].text /\ i \in Job
    BY <1>0, <1>1, NextStage, JobMovesOn, TRUE \in BOOLEAN
  <2>2. j \in Job
    BY <1>1, JobMovesOn, "delivered" \in {"signed", "delivered", "noted", "filed"}
  <2> HIDE DEF i
  <2> QED BY <2>1, <2>2, SkillAssumption DEF Job
<1>4. r \in Question
  BY <1>0, <1>1, JobMovesOn
<1> HIDE DEF i, j
<1>5. Cron \in Proc /\ job'[p] = j /\ \A o \in Proc \ {p} : job'[o] = job[o]
  BY <1>2, SkillAssumption DEF SkillTypeOK
<1>6. UNCHANGED <<rows, texts, offered, cron>>
  BY <1>1 DEF ledgerVars, cronVars
<1>7. ASSUME NEW q \in Question \ muddled', q # r PROVE Kept(q)'
  <2>1. Kept(q)
    BY <1>1, <1>7 DEF LedgerInvariant
  <2>2. stored'[q] = stored[q] /\ (q \in retracted' <=> q \in retracted)
    BY <1>1, <1>4, <1>7 DEF SkillTypeOK
  <2>3. \A o \in Proc : InFlight(o, q)' <=> InFlight(o, q)
    BY <1>0, <1>1, <1>3, <1>5, <1>7 DEF InFlight
  <2>4. \A o \in Proc : InFlight(o, q) => job'[o] = job[o] /\ (o \in lost' <=> o \in lost)
    BY <1>0, <1>1, <1>3, <1>5, <1>7 DEF InFlight
  <2>5. OnCronsList(q)' => OnCronsList(q)
    BY <1>3, <1>5, <1>6, <1>7 DEF OnCronsList, CronPosts
  <2> QED BY <1>6, <2>1, <2>2, <2>3, <2>4, <2>5, KeptIfUntouched
<1>8. ASSUME r \notin muddled' PROVE Kept(r)'
  <2>1. ~Muddles(p, stores, ok) /\ r \notin muddled
    BY <1>1, <1>8
  <2>2. /\ \A o \in Proc \ {p} : ~(job[o] # Idle /\ job[o].q = r)
        /\ p # Cron => r \notin offered
        /\ stores \/ p \in lost => ok
        /\ ~ok => rows[r] # "accepted"
    BY <1>0, <2>1 DEF Muddles, Contended
  <2>3. Kept(r)
    BY <1>4, <2>1 DEF LedgerInvariant
  <2>4. ~ok => \A o \in Proc : ~InFlight(o, r)
    BY <1>0, <1>1, <2>2 DEF InFlight
  <2>5. \A o \in Proc : InFlight(o, r)' <=> o = p
    BY <1>3, <1>5, <2>2 DEF InFlight
  <2>6. ~OnCronsList(r)'
    BY <1>0, <1>1, <1>3, <1>5, <1>6, <2>2 DEF OnCronsList, CronPosts, LedgerInvariant
  <2>7. /\ job'[p].at # "noted" /\ job'[p].ok = ok /\ job'[p].text = job[p].text
        /\ Taken(p)' <=> ok
    BY <1>1, <1>3, <1>5 DEF Taken
  <2>8. stored'[r] = IF ok THEN job[p].text ELSE stored[r]
    BY <1>1, <1>4, <2>2 DEF SkillTypeOK
  <2>9. CASE ok
    BY <1>6, <2>5, <2>6, <2>7, <2>8, <2>9 DEF Kept
  <2>10. CASE ~ok
    <3>1. retracted' = retracted
      BY <1>1, <2>10, <2>2
    <3>2. r \notin retracted /\ stored[r] = Nothing
      BY <2>2, <2>3, <2>4, <2>10 DEF Kept, Review
    <3> QED BY <1>6, <2>2, <2>5, <2>6, <2>7, <2>8, <2>10, <3>1, <3>2 DEF Kept
  <2> QED BY <1>1, <2>9, <2>10
<1>9. /\ cron' # "listed" => job'[Cron] = Idle /\ offered' = {}
      /\ job'[Cron] # Idle => job'[Cron].q \notin offered'
  <2>1. job[p] # Idle
    BY <1>1
  <2>2. CASE p = Cron
    BY <1>0, <1>3, <1>5, <1>6, <2>1, <2>2 DEF LedgerInvariant
  <2>3. CASE p # Cron
    BY <1>5, <1>6, <2>3 DEF LedgerInvariant
  <2> QED BY <2>2, <2>3
<1>10. \A o \in lost' : job'[o] # Idle /\ job'[o].at = "signed"
  BY <1>1, <1>5 DEF LedgerInvariant, SkillTypeOK
<1> QED BY <1>4, <1>7, <1>8, <1>9, <1>10 DEF LedgerInvariant

\* The answer is noted: its question stays as it is, its text is known.
LEMMA NoteLedger ==
  ASSUME SkillTypeOK, LedgerInvariant, NEW p \in Proc, RecordAnswer(p)
  PROVE  LedgerInvariant'
<1>0. PICK r : r = job[p].q
  OBVIOUS
<1> DEFINE j == [job[p] EXCEPT !.at = "noted"]
<1>1. /\ job[p] # Idle /\ job[p].at = "delivered"
      /\ texts' = [texts EXCEPT ![r] = job[p].text]
      /\ job' = [job EXCEPT ![p] = j]
      /\ UNCHANGED <<rows, stored, retracted, lost, offered, cron, muddled>>
      /\ p \notin lost
  BY <1>0 DEF RecordAnswer, SkillTypeOK, brokerVars, postVars, cronVars, LedgerInvariant
<1>2. j # Idle /\ j.at = "noted" /\ j.q = r /\ j.text = job[p].text /\ j.ok = job[p].ok
  BY <1>0, <1>1, NextStage, TRUE \in BOOLEAN
<1>3. r \in Question
  BY <1>0, <1>1, JobMovesOn, TRUE \in BOOLEAN
<1> HIDE DEF j
<1>4. Cron \in Proc /\ job'[p] = j /\ \A o \in Proc \ {p} : job'[o] = job[o]
  BY <1>1, SkillAssumption DEF SkillTypeOK
<1>5. \A q \in Question : \A o \in Proc : InFlight(o, q)' <=> InFlight(o, q)
  BY <1>0, <1>1, <1>2, <1>4 DEF InFlight
<1>6. \A q \in Question : OnCronsList(q)' => OnCronsList(q)
  BY <1>1, <1>2, <1>4 DEF OnCronsList, CronPosts
<1>7. ASSUME NEW q \in Question \ muddled', q # r PROVE Kept(q)'
  <2>1. Kept(q)
    BY <1>1, <1>7 DEF LedgerInvariant
  <2>2. texts'[q] = texts[q]
    BY <1>1, <1>3, <1>7 DEF SkillTypeOK
  <2>3. \A o \in Proc : InFlight(o, q) => job'[o] = job[o]
    BY <1>0, <1>4, <1>7 DEF InFlight
  <2> QED BY <1>1, <1>5, <1>6, <2>1, <2>2, <2>3, KeptIfUntouched
<1>8. ASSUME r \notin muddled' PROVE Kept(r)'
  <2>1. Kept(r)
    BY <1>1, <1>3, <1>8 DEF LedgerInvariant
  <2>2. \A o \in Proc : InFlight(o, r) <=> o = p
    BY <1>0, <1>1, <2>1 DEF Kept, InFlight
  <2>3. \A o \in Proc : InFlight(o, r)' <=> o = p
    BY <1>3, <1>5, <2>2
  <2>4. /\ texts'[r] = job'[p].text /\ job'[p].text = job[p].text
        /\ Taken(p) <=> job[p].ok
        /\ Taken(p)' <=> job[p].ok
    BY <1>1, <1>2, <1>3, <1>4 DEF SkillTypeOK, Taken
  <2>5. ~OnCronsList(r)
    BY <1>0, <1>1, <2>1, <2>2 DEF Kept, OnCronsList, CronPosts, LedgerInvariant
  <2>6. ~OnCronsList(r)'
    BY <1>3, <1>6, <2>5
  <2>7. /\ ~job[p].ok => rows[r] # "accepted"
        /\ r \notin retracted => stored[r] = IF job[p].ok THEN job[p].text ELSE Nothing
        /\ r \in retracted => rows[r] = "accepted" \/ job[p].ok
    BY <2>1, <2>2, <2>4 DEF Kept
  <2> QED BY <1>1, <2>3, <2>4, <2>6, <2>7 DEF Kept
<1>9. /\ cron' # "listed" => job'[Cron] = Idle /\ offered' = {}
      /\ job'[Cron] # Idle => job'[Cron].q \notin offered'
  BY <1>0, <1>1, <1>2, <1>4 DEF LedgerInvariant
<1>10. \A o \in lost' : job'[o] # Idle /\ job'[o].at = "signed"
  BY <1>1, <1>4 DEF LedgerInvariant, SkillTypeOK
<1> QED BY <1>3, <1>7, <1>8, <1>9, <1>10 DEF LedgerInvariant

\* The submission is recorded: what was in flight is in the ledger.
LEMMA FileLedger ==
  ASSUME SkillTypeOK, LedgerInvariant, NEW p \in Proc, RecordSubmission(p)
  PROVE  LedgerInvariant'
<1>0. PICK r : r = job[p].q
  OBVIOUS
<1> DEFINE i == [job[p] EXCEPT !.at = "filed"]
           j == IF job[p].ok THEN i ELSE Idle
<1>1. /\ job[p] # Idle /\ job[p].at = "noted"
      /\ rows' = [rows EXCEPT ![r] = IF job[p].ok THEN "accepted" ELSE "refused"]
      /\ job' = [job EXCEPT ![p] = j]
      /\ UNCHANGED <<texts, stored, retracted, lost, offered, cron, muddled>>
      /\ p \notin lost
  BY <1>0 DEF RecordSubmission, SkillTypeOK, brokerVars, postVars, cronVars, LedgerInvariant
<1>2. i # Idle /\ i.at = "filed" /\ i.q = r
  BY <1>0, <1>1, NextStage, TRUE \in BOOLEAN
<1>3. r \in Question
  BY <1>0, <1>1, JobMovesOn, TRUE \in BOOLEAN
<1>4. j # Idle => j.at = "filed" /\ j.q = r
  BY <1>2
<1> HIDE DEF i, j
<1>5. Cron \in Proc /\ job'[p] = j /\ \A o \in Proc \ {p} : job'[o] = job[o]
  BY <1>1, SkillAssumption DEF SkillTypeOK
<1>6. \A q \in Question : OnCronsList(q)' => OnCronsList(q)
  BY <1>1, <1>4, <1>5 DEF OnCronsList, CronPosts
<1>7. ASSUME NEW q \in Question \ muddled', q # r PROVE Kept(q)'
  <2>1. Kept(q)
    BY <1>1, <1>7 DEF LedgerInvariant
  <2>2. rows'[q] = rows[q]
    BY <1>1, <1>3, <1>7 DEF SkillTypeOK
  <2>3. \A o \in Proc : InFlight(o, q)' <=> InFlight(o, q)
    BY <1>0, <1>1, <1>4, <1>5, <1>7 DEF InFlight
  <2>4. \A o \in Proc : InFlight(o, q) => job'[o] = job[o]
    BY <1>0, <1>5, <1>7 DEF InFlight
  <2> QED BY <1>1, <1>6, <2>1, <2>2, <2>3, <2>4, KeptIfUntouched
<1>8. ASSUME r \notin muddled' PROVE Kept(r)'
  <2>1. Kept(r)
    BY <1>1, <1>3, <1>8 DEF LedgerInvariant
  <2>2. \A o \in Proc : InFlight(o, r) <=> o = p
    BY <1>0, <1>1, <2>1 DEF Kept, InFlight
  <2>3. \A o \in Proc : ~InFlight(o, r)'
    BY <1>1, <1>4, <1>5, <2>2 DEF InFlight
  <2>4. ~OnCronsList(r)
    BY <1>0, <1>1, <2>1, <2>2 DEF Kept, OnCronsList, CronPosts, LedgerInvariant
  <2>5. ~OnCronsList(r)'
    BY <1>3, <1>6, <2>4
  <2>6. /\ ~job[p].ok => rows[r] # "accepted"
        /\ texts[r] = job[p].text
        /\ r \notin retracted => stored[r] = IF job[p].ok THEN job[p].text ELSE Nothing
        /\ r \in retracted => rows[r] = "accepted" \/ job[p].ok
    BY <1>1, <2>1, <2>2 DEF Kept, Taken
  <2>7. rows'[r] = IF job[p].ok THEN "accepted" ELSE "refused"
    BY <1>1, <1>3 DEF SkillTypeOK
  <2> QED BY <1>1, <2>3, <2>5, <2>6, <2>7 DEF Kept, Review
<1>9. /\ cron' # "listed" => job'[Cron] = Idle /\ offered' = {}
      /\ job'[Cron] # Idle => job'[Cron].q \notin offered'
  BY <1>0, <1>1, <1>4, <1>5 DEF LedgerInvariant
<1>10. \A o \in lost' : job'[o] # Idle /\ job'[o].at = "signed"
  BY <1>1, <1>5 DEF LedgerInvariant, SkillTypeOK
<1> QED BY <1>3, <1>7, <1>8, <1>9, <1>10 DEF LedgerInvariant

\* A submission is counted, or its process dies: what was in flight is muddled.
LEMMA EndLedger ==
  ASSUME SkillTypeOK, LedgerInvariant, NEW p \in Proc, CountSpend(p) \/ Dies(p)
  PROVE  LedgerInvariant'
<1>0. PICK r : r = job[p].q
  OBVIOUS
<1>1. /\ job[p] # Idle
      /\ job' = [job EXCEPT ![p] = Idle]
      /\ UNCHANGED <<rows, texts, stored, retracted, offered, cron>>
      /\ muddled \subseteq muddled'
      /\ lost' = lost \ {p}
      /\ job[p].at \in {"delivered", "noted"} \/ p \in lost => r \in muddled'
  <2>1. CASE CountSpend(p)
    <3>1. p \notin lost
      BY <2>1 DEF CountSpend, LedgerInvariant
    <3> QED BY <1>0, <2>1, <3>1 DEF CountSpend, brokerVars, postVars, cronVars
  <2>2. CASE Dies(p)
    BY <1>0, <2>2 DEF Dies, ledgerVars, cronVars
  <2> QED BY <2>1, <2>2
<1>2. Cron \in Proc /\ job'[p] = Idle /\ \A o \in Proc \ {p} : job'[o] = job[o]
  BY <1>1, SkillAssumption DEF SkillTypeOK
<1>3. ASSUME NEW q \in Question \ muddled' PROVE Kept(q)'
  <2>1. Kept(q)
    BY <1>1, <1>3 DEF LedgerInvariant
  <2>2. ~InFlight(p, q)
    BY <1>0, <1>1, <1>3 DEF InFlight
  <2>3. \A o \in Proc : InFlight(o, q)' <=> InFlight(o, q)
    BY <1>1, <1>2, <2>2 DEF InFlight
  <2>4. \A o \in Proc : InFlight(o, q) => job'[o] = job[o] /\ (o \in lost' <=> o \in lost)
    BY <1>1, <1>2, <2>2
  <2>5. OnCronsList(q)' => OnCronsList(q)
    BY <1>1, <1>2 DEF OnCronsList, CronPosts
  <2> QED BY <1>1, <2>1, <2>3, <2>4, <2>5, KeptIfUntouched
<1>4. /\ cron' # "listed" => job'[Cron] = Idle /\ offered' = {}
      /\ job'[Cron] # Idle => job'[Cron].q \notin offered'
  BY <1>1, <1>2 DEF LedgerInvariant
<1>5. \A o \in lost' : job'[o] # Idle /\ job'[o].at = "signed"
  BY <1>1, <1>2 DEF LedgerInvariant, SkillTypeOK
<1> QED BY <1>3, <1>4, <1>5 DEF LedgerInvariant

\* The user takes an answer back: it is in the ledger or on its way there, and
\* so was not on the cron's list, unless the cron is still posting it.
LEMMA RevokeLedger ==
  ASSUME SkillTypeOK, LedgerInvariant, NEW p \in Proc, NEW r \in Question, Revoke(p, r)
  PROVE  LedgerInvariant'
<1>1. /\ stored[r] # Nothing
      /\ stored' = [stored EXCEPT ![r] = Nothing]
      /\ retracted' = retracted \cup {r}
      /\ muddled' = IF CronPosts(r) THEN muddled \cup {r} ELSE muddled
      /\ UNCHANGED <<rows, texts, job, lost, offered, cron>>
  BY DEF Revoke, ledgerVars, postVars, cronVars
<1>2. \A q \in Question : \A o \in Proc : InFlight(o, q)' <=> InFlight(o, q)
  BY <1>1 DEF InFlight
<1>3. \A q \in Question : OnCronsList(q)' <=> OnCronsList(q)
  BY <1>1 DEF OnCronsList, CronPosts
<1>4. ASSUME NEW q \in Question \ muddled', q # r PROVE Kept(q)'
  <2>1. Kept(q)
    BY <1>1, <1>4 DEF LedgerInvariant
  <2>2. stored'[q] = stored[q] /\ (q \in retracted' <=> q \in retracted)
    BY <1>1, <1>4 DEF SkillTypeOK
  <2> QED BY <1>1, <1>2, <1>3, <2>1, <2>2, KeptIfUntouched
<1>5. ASSUME r \notin muddled' PROVE Kept(r)'
  <2>1. Kept(r)
    BY <1>1, <1>5 DEF LedgerInvariant
  <2>2. rows[r] = "accepted" \/ \E o \in Proc : InFlight(o, r) /\ Taken(o)
    BY <1>1, <2>1 DEF Kept, Review
  <2>3. ~OnCronsList(r)
    <3>1. SUFFICES ASSUME r \in offered PROVE FALSE
      BY <1>1, <1>5 DEF OnCronsList
    <3>2. \E o \in Proc : InFlight(o, r) /\ o = Cron
      BY <2>1, <2>2, <3>1 DEF Kept, OnCronsList
    <3> QED BY <3>1, <3>2 DEF InFlight, LedgerInvariant
  <2>4. ~OnCronsList(r)' /\ r \in retracted'
    BY <1>1, <1>3, <2>3
  <2> QED BY <1>1, <1>2, <2>1, <2>2, <2>4 DEF Kept, Taken
<1>6. /\ cron' # "listed" => job'[Cron] = Idle /\ offered' = {}
      /\ job'[Cron] # Idle => job'[Cron].q \notin offered'
  BY <1>1 DEF LedgerInvariant
<1>7. \A o \in lost' : job'[o] # Idle /\ job'[o].at = "signed"
  BY <1>1 DEF LedgerInvariant
<1> QED BY <1>4, <1>5, <1>6, <1>7 DEF LedgerInvariant

\* What is listed is not in the ledger; unless a process is on it, it is not
\* with the broker, nor was it taken back.
LEMMA ListLedger ==
  ASSUME SkillTypeOK, LedgerInvariant, List(Cron)
  PROVE  LedgerInvariant'
<1>a. PICK today \in {spend, 0} : \E offers \in {{}, Answerable(today)} :
        /\ offered' = offers
        /\ muddled' = muddled \cup
             {q \in offers : \E other \in Proc : job[other] # Idle /\ job[other].q = q}
        /\ cron = "begun" /\ cron' = "listed"
        /\ UNCHANGED <<rows, texts, stored, retracted, lost, job>>
  BY DEF List, ledgerVars, brokerVars, postVars
<1>1. PICK offers \in {{}, Answerable(today)} :
        /\ offered' = offers
        /\ muddled' = muddled \cup
             {q \in offers : \E other \in Proc : job[other] # Idle /\ job[other].q = q}
        /\ cron = "begun" /\ cron' = "listed"
        /\ UNCHANGED <<rows, texts, stored, retracted, lost, job>>
  BY <1>a
<1>2. job[Cron] = Idle
  BY <1>1 DEF LedgerInvariant
<1>3. \A q \in Question : \A o \in Proc : InFlight(o, q)' <=> InFlight(o, q)
  BY <1>1 DEF InFlight
<1>4. ASSUME NEW q \in Question \ muddled' PROVE Kept(q)'
  <2>1. Kept(q)
    BY <1>1, <1>4 DEF LedgerInvariant
  <2>2. CASE q \in offers
    <3>1. q \in Answerable(today)
      BY <1>1, <2>2
    <3>2. rows[q] # "accepted"
      BY <3>1 DEF Answerable, Answered, Decide
    <3>3. \A o \in Proc : ~InFlight(o, q)
      BY <1>1, <1>4, <2>2 DEF InFlight
    <3>4. q \notin retracted
      BY <2>1, <3>2, <3>3 DEF Kept
    <3> QED BY <1>1, <1>3, <2>1, <3>2, <3>3, <3>4 DEF Kept, Review
  <2>3. CASE q \notin offers
    <3>1. ~OnCronsList(q)'
      BY <1>1, <1>2, <2>3 DEF OnCronsList, CronPosts
    <3> QED BY <1>1, <1>3, <2>1, <3>1, KeptIfUntouched
  <2> QED BY <2>2, <2>3
<1> QED BY <1>1, <1>2, <1>4 DEF LedgerInvariant

\* The steps that leave submissions, ledger and broker alone and add nothing
\* to the cron's list.
LEMMA QuietLedger ==
  ASSUME LedgerInvariant,
         UNCHANGED <<rows, texts, stored, retracted, lost, job, muddled>>,
         offered' \subseteq offered,
         cron' # "listed" => job[Cron] = Idle /\ offered' = {}
  PROVE  LedgerInvariant'
<1>1. ASSUME NEW q \in Question \ muddled' PROVE Kept(q)'
  <2>1. Kept(q)
    BY <1>1 DEF LedgerInvariant
  <2>2. \A o \in Proc : InFlight(o, q)' <=> InFlight(o, q)
    BY DEF InFlight
  <2>3. OnCronsList(q)' => OnCronsList(q)
    BY DEF OnCronsList, CronPosts
  <2> QED BY <2>1, <2>2, <2>3, KeptIfUntouched
<1> QED BY <1>1 DEF LedgerInvariant

\* Every step keeps the ledger's invariant.
LEMMA NextLedger == SkillTypeOK /\ LedgerInvariant /\ [Next]_answeringVars => LedgerInvariant'
<1> SUFFICES ASSUME SkillTypeOK, LedgerInvariant, [Next]_answeringVars PROVE LedgerInvariant'
  OBVIOUS
<1>1. CASE UNCHANGED skillVars
  BY <1>1, QuietLedger DEF skillVars, ledgerVars, brokerVars, postVars, cronVars, LedgerInvariant
<1>2. ASSUME NEW p \in Proc, NEW q \in Question, SubmitAnswer(p, q) \/ SubmitNoSignal(p, q)
      PROVE  LedgerInvariant'
  BY <1>2, SignLedger DEF SubmitAnswer, SubmitNoSignal
<1>3. ASSUME NEW q \in Question, PassOver(q) PROVE LedgerInvariant'
  <2>1. offered' \subseteq offered /\ cron = "listed" /\ cron' = cron
    BY <1>3 DEF PassOver, MaySubmit
  <2> QED BY <1>3, <2>1, QuietLedger DEF PassOver, ledgerVars, brokerVars, postVars
<1>4. ASSUME NEW p \in Proc, List(p) PROVE LedgerInvariant'
  <2>1. CASE p = Cron
    BY <1>4, <2>1, ListLedger
  <2>2. CASE p # Cron
    BY <1>4, <2>2, QuietLedger DEF List, ledgerVars, brokerVars, postVars, LedgerInvariant
  <2> QED BY <2>1, <2>2
<1>5. CASE CronFires \/ SessionEnds \/ CostSettles
  BY <1>5, QuietLedger DEF CronFires, SessionEnds, CostSettles, ledgerVars, brokerVars, postVars,
                           LedgerInvariant
<1>6. CASE NewDay
  BY <1>6, QuietLedger DEF NewDay, brokerVars, postVars, LedgerInvariant
<1>7. CASE Onboard \/ EnsureCron \/ Expire
  BY <1>7, QuietLedger DEF Onboard, EnsureCron, Expire, ledgerVars, brokerVars, postVars,
                           cronVars, LedgerInvariant
<1> QED
  BY <1>1, <1>2, <1>3, <1>4, <1>5, <1>6, <1>7,
     RetryLedger, DeliverLedger, NoteLedger, FileLedger, EndLedger, RevokeLedger
  DEF Next, SkillStep, answeringVars

\* Only a POST puts an answer where there was none; the cron's is about a
\* question of its list, which was not taken back unless it was muddled.
LEMMA NothingComesBack ==
  ASSUME SkillTypeOK, LedgerInvariant, [Next]_answeringVars,
         NEW q \in retracted, stored[q] = Nothing, stored'[q] # Nothing
  PROVE  q \notin retracted' \/ q \in muddled'
<1>1. q \in Question
  BY DEF SkillTypeOK
<1>2. SkillStep
  BY DEF Next, answeringVars, skillVars, brokerVars
<1>3. ASSUME NEW p \in Proc, Deliver(p) \/ Retry(p) PROVE q \notin retracted' \/ q \in muddled'
  <2>1. /\ job[p] # Idle /\ job[p].at = "signed"
        /\ stored' \in {stored, [stored EXCEPT ![job[p].q] = ClassifyAnswer(job[p].text)]}
        /\ stored' # stored =>
             retracted' = IF p = Cron THEN retracted ELSE retracted \ {job[p].q}
        /\ muddled \subseteq muddled'
    BY <1>3 DEF Deliver, Retry, Post
  <2>2. job[p].q = q /\ stored' # stored
    BY <1>1, <2>1 DEF SkillTypeOK
  <2>3. CASE p # Cron
    BY <2>1, <2>2, <2>3
  <2>4. CASE p = Cron
    <3>1. OnCronsList(q)
      BY <2>1, <2>2, <2>4 DEF OnCronsList, CronPosts
    <3>2. q \in muddled
      BY <1>1, <3>1 DEF LedgerInvariant, Kept
    <3> QED BY <2>1, <3>2
  <2> QED BY <2>3, <2>4
<1>4. ASSUME NEW p \in Proc, NEW r \in Question, Revoke(p, r) PROVE FALSE
  BY <1>1, <1>4 DEF Revoke, SkillTypeOK
<1>5. ASSUME UNCHANGED stored PROVE FALSE
  BY <1>5
<1>6. ASSUME NEW p \in Proc, NEW r \in Question, SubmitAnswer(p, r) \/ SubmitNoSignal(p, r)
      PROVE  UNCHANGED stored
  BY <1>6 DEF SubmitAnswer, SubmitNoSignal, Sign, brokerVars
<1>7. ASSUME NEW p \in Proc,
             \/ RecordAnswer(p) \/ RecordSubmission(p)
             \/ CountSpend(p) \/ Dies(p)
      PROVE  UNCHANGED stored
  BY <1>7 DEF RecordAnswer, RecordSubmission, CountSpend, Dies, brokerVars
<1> QED
  BY <1>2, <1>3, <1>4, <1>5, <1>6, <1>7, QuietStepQuiet DEF SkillStep, QuietStep

\* What the induction carries.
SkillInvariant == SkillTypeOK /\ LedgerInvariant

\* The types and the ledger's invariant hold together.
LEMMA SkillIsInvariant == Spec => []SkillInvariant
<1>1. Init => SkillInvariant
  BY InitSkill, InitLedger DEF Init, SkillInvariant
<1>2. SkillInvariant /\ [Next]_answeringVars => SkillInvariant'
  BY NextSkill, NextLedger DEF Next, answeringVars, SkillInvariant
<1> QED BY <1>1, <1>2, PTL DEF Spec

\* Whichever processes submit, retract and list at the same time, however often
\* an attempt of theirs fails, and wherever one dies: for a question nobody is
\* recording, and to which no answer was lost, raced or refused after an
\* acceptance, the ledger says what the broker holds (tools.rs:221-225).
THEOREM LedgerStaysTrue == Spec => []LedgerKnowsStored
<1>1. SkillInvariant => LedgerKnowsStored
  BY DEF SkillInvariant, LedgerInvariant, Kept, LedgerKnowsStored, InFlight
<1> QED BY <1>1, SkillIsInvariant, PTL

\* What the user took back the cron does not answer again, unless the ledger
\* lost the answer or the cron was still posting it (ledger.rs:123, broker.rs:49).
THEOREM RetractedStaysRetracted == Spec => CronLeavesRetractedAlone
<1>1. SkillInvariant /\ [Next]_answeringVars
        => [\A q \in retracted : stored[q] = Nothing /\ stored'[q] # Nothing =>
              q \notin retracted' \/ q \in muddled']_stored
  BY NothingComesBack DEF SkillInvariant
<1> QED BY <1>1, SkillIsInvariant, PTL DEF Spec, CronLeavesRetractedAlone
=============================================================================
