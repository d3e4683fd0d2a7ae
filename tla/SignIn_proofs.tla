---------------------------- MODULE SignIn_proofs ----------------------------
(***************************************************************************)
(* Types, the truth of registrations and the unlinking of deleted accounts *)
(* for any number of humans, requests, tabs, and steps of the ladder.      *)
(***************************************************************************)
EXTENDS SignIn, SequenceTheorems, FiniteSetTheorems, TLAPS

-----------------------------------------------------------------------------
(* Types, one part of the state after the other.                           *)

\* The empty system has the types.
LEMMA InitTypes == Init => SignInTypeOK
<1> SUFFICES ASSUME Init PROVE SignInTypeOK
  OBVIOUS
<1>1. BridgeTypeOK
  BY DEF Init, BridgeInit, BridgeTypeOK
<1>2. TabTypeOK
  BY DEF Init, TabTypeOK
<1>3. RecordTypeOK
  BY DEF Init, RecordTypeOK
<1>4. PostTypeOK
  BY SignInAssumption DEF Init, PostTypeOK
<1>5. acts \in 0..MaxActs
  BY SignInAssumption DEF Init
<1> QED BY <1>1, <1>2, <1>3, <1>4, <1>5 DEF SignInTypeOK

\* A new request starts with no results.
LEMMA PostRequestTypes ==
  ASSUME BridgeTypeOK, NEW r \in Request, PostRequest(r)
  PROVE  BridgeTypeOK'
BY DEF PostRequest, BridgeTypeOK

\* A scanned proof is of a step of its own request's ladder.
LEMMA ScanTypes ==
  ASSUME BridgeTypeOK, NEW h \in Human, NEW r \in Request, Scan(h, r)
  PROVE  BridgeTypeOK'
<1>1. Thresholds(r) \subseteq AgeThresholds \cup {18}
  BY DEF Thresholds, ProfileThresholds
<1>2. PICK t \in Thresholds(r), flaw \in {"none", "invalid", "unbound"} :
        verifying' = verifying \cup
          {[request |-> r, threshold |-> t, human |-> h,
            valid |-> flaw # "invalid", bound |-> flaw # "unbound"]}
  BY Zenon DEF Scan
<1> DEFINE valid == flaw # "invalid"
           bound == flaw # "unbound"
           p == [request |-> r, threshold |-> t, human |-> h, valid |-> valid, bound |-> bound]
<1>3. valid \in BOOLEAN /\ bound \in BOOLEAN
  OBVIOUS
<1>4. verifying' = verifying \cup {p}
  BY <1>2, Zenon
<1> HIDE DEF valid, bound
<1>5. p \in Proof /\ p.threshold \in Thresholds(p.request)
  BY <1>1, <1>3 DEF Proof
<1>6. UNCHANGED <<minted, pending>>
  BY DEF Scan
<1> HIDE DEF p
<1> QED BY <1>4, <1>5, <1>6 DEF BridgeTypeOK

\* A routed result lands on the ladder of its own request.
LEMMA CallbackTypes ==
  ASSUME BridgeTypeOK, NEW p \in verifying, Callback(p)
  PROVE  BridgeTypeOK'
BY DEF Callback, BridgeTypeOK, Proof, VerifyOne

\* A failed verification and a restart only forget.
LEMMA OtherBridgeTypes ==
  ASSUME BridgeTypeOK,
         BridgeRestarts \/ UNCHANGED bridgeVars \/ \E p \in verifying : CallbackFails(p)
  PROVE  BridgeTypeOK'
BY DEF CallbackFails, BridgeRestarts, BridgeTypeOK, bridgeVars

\* What the bridge hands out is of the request's own human and ladder.
LEMMA ResultsTypes ==
  ASSUME BridgeTypeOK, NEW r \in Request, pending[r] # NoEntry
  PROVE  /\ Results(r) \subseteq Proof
         /\ Identifiers(r) \subseteq Human
BY DEF Results, Identifiers, VerifyOne, BridgeTypeOK, Proof

\* What a status call may answer.
LEMMA StatusTypes ==
  ASSUME BridgeTypeOK, NEW r \in Login, Complete(r)
  PROVE  Status(r) \subseteq Reply
<1>1. Identifiers(r) \subseteq Human
  BY ResultsTypes DEF Complete, Login
<1>2. ASSUME NEW h \in Human, NEW x \in Welcome(r, h) PROVE x \in Reply
  <2> DEFINE can(a) == CanAsk(Counts(h), a)
  <2>1. \A a : can(a) \in BOOLEAN
    BY DEF CanAsk
  <2> HIDE DEF can
  <2>2. \A a : [request |-> r, human |-> h, cleared |-> can(a), at |-> "sent"] \in Reply
    BY <2>1 DEF Reply
  <2>3. \E a : x = [request |-> r, human |-> h, cleared |-> can(a), at |-> "sent"]
    BY <1>2, Zenon DEF Welcome, can
  <2> QED BY <2>2, <2>3
<1>3. [request |-> r, human |-> None, cleared |-> FALSE, at |-> "sent"] \in Reply
  BY DEF Reply
<1>4. ASSUME NEW x \in Status(r) PROVE x \in Reply
  <2>1. \/ x = [request |-> r, human |-> None, cleared |-> FALSE, at |-> "sent"]
        \/ \E h \in Identifiers(r) : x \in Welcome(r, h)
    BY <1>4, Zenon DEF Status
  <2> QED BY <1>1, <1>2, <1>3, <2>1
<1> QED BY <1>4

\* A step to another stage.
LEMMA GoToTypes ==
  ASSUME TabTypeOK, NEW v \in Tab,
         NEW s \in {"away", "intro", "scan", "score", "cleared", "form"}, GoTo(v, s),
         session' \in [Tab -> Session \cup {None}], saved' \in [Tab -> Session \cup {None}],
         replies' \in [Tab -> SUBSET Reply]
  PROVE  TabTypeOK'
BY DEF GoTo, TabTypeOK

\* The tab.
LEMMA TabTypes ==
  ASSUME BridgeTypeOK, TabTypeOK, TabStep
  PROVE  TabTypeOK'
<1> USE DEF TabTypeOK
<1>1. ASSUME NEW v \in Tab, Visit(v) PROVE TabTypeOK'
  BY <1>1 DEF Visit
<1>2. ASSUME NEW v \in Tab, Press(v) PROVE TabTypeOK'
  <2>1. PICK s \in {"intro", "scan", "form"} : GoTo(v, s)
    BY <1>2 DEF Press
  <2> QED BY <1>2, <2>1, GoToTypes DEF Press
<1>3. ASSUME NEW v \in Tab, StartFails(v) PROVE TabTypeOK'
  BY <1>3 DEF StartFails
<1>4. ASSUME NEW v \in Tab, ShowLink(v) PROVE TabTypeOK'
  BY <1>4 DEF ShowLink
<1>5. ASSUME NEW v \in Tab, Poll(v) PROVE TabTypeOK'
  <2>1. shown[v] \in Login /\ Complete(shown[v])
    BY <1>5 DEF Poll
  <2>2. Status(shown[v]) \subseteq Reply
    BY <2>1, StatusTypes
  <2> QED BY <1>5, <2>2 DEF Poll
<1>6. ASSUME NEW v \in Tab, NEW m \in replies[v], Arrive(v, m) PROVE TabTypeOK'
  <2>1. m \in Reply /\ [m EXCEPT !.at = "read"] \in Reply
    BY <1>6 DEF Reply
  <2> QED BY <1>6, <2>1 DEF Arrive
<1>7. ASSUME NEW v \in Tab, NEW m \in replies[v], ApplyFailed(v, m) PROVE TabTypeOK'
  <2> DEFINE shows == shown[v] = m.request
             now == failed[v] \/ shows
  <2>1. now \in BOOLEAN
    OBVIOUS
  <2>2. failed' = [failed EXCEPT ![v] = now]
    BY <1>7, Zenon DEF ApplyFailed
  <2> HIDE DEF now
  <2> QED BY <1>7, <2>1, <2>2 DEF ApplyFailed
<1>8. ASSUME NEW v \in Tab, NEW m \in replies[v], ApplyVerified(v, m) PROVE TabTypeOK'
  <2> DEFINE s == [human |-> m.human, live |-> TRUE]
  <2>1. s \in Session
    BY <1>8 DEF ApplyVerified, Reply, Session
  <2>2. /\ saved' = [saved EXCEPT ![v] = s]
        /\ session' = session \/ session' = [session EXCEPT ![v] = s]
    BY <1>8, Zenon DEF ApplyVerified
  <2>3. replies' \in [Tab -> SUBSET Reply]
    BY <1>8 DEF ApplyVerified
  <2> HIDE DEF s
  <2>4. /\ session' \in [Tab -> Session \cup {None}]
        /\ saved' \in [Tab -> Session \cup {None}]
    BY <2>1, <2>2
  <2>5. UNCHANGED <<step, shown, failed>> \/ \E t \in {"cleared", "score"} : GoTo(v, t)
    BY <1>8 DEF ApplyVerified
  <2> QED BY <2>3, <2>4, <2>5, GoToTypes
<1> QED BY <1>1, <1>2, <1>3, <1>4, <1>5, <1>6, <1>7, <1>8 DEF TabStep, Apply

\* Leaving, starting over and expiring.
LEMMA VisitorTypes ==
  ASSUME TabTypeOK, NEW v \in Tab, Leave(v) \/ Reset(v) \/ SessionExpires(v)
  PROVE  TabTypeOK'
<1> USE DEF TabTypeOK
<1>1. CASE Leave(v)
  <2> DEFINE read == {m \in replies[v] : m.at # "sent"}
             left == {[m EXCEPT !.at = "left"] : m \in read}
  <2>1. left \subseteq Reply
    BY DEF Reply
  <2>2. replies' = [replies EXCEPT ![v] = {}] \/ replies' = [replies EXCEPT ![v] = left]
    BY <1>1, Zenon DEF Leave
  <2> HIDE DEF left
  <2>3. replies' \in [Tab -> SUBSET Reply]
    BY <2>1, <2>2
  <2> QED BY <1>1, <2>3 DEF Leave, GoTo
<1>2. CASE Reset(v)
  BY <1>2 DEF Reset, GoTo
<1>3. CASE SessionExpires(v)
  <2>1. \A s \in Session \cup {None} : Expired(s) \in Session \cup {None}
    BY DEF Expired, Session
  <2> QED BY <1>3, <2>1 DEF SessionExpires
<1> QED BY <1>1, <1>2, <1>3

\* The proofs of an enrolment that the broker accepts make a registration.
LEMMA RegistrationType ==
  ASSUME RecordTypeOK, NEW e \in Enrolment, NEW p \in enrol[e].proofs,
         VerifyEnrollment(enrol[e].proofs, KeyOf[e])
  PROVE  /\ VerifyOne(p).uniqueIdentifier \in Human
         /\ Upserted(VerifyOne(p).uniqueIdentifier, KeyOf[e],
                     AgeBand({VerifyOne(x).olderThan : x \in enrol[e].proofs})) \in Registration
<1> DEFINE h == VerifyOne(p).uniqueIdentifier
           ages == {VerifyOne(x).olderThan : x \in enrol[e].proofs}
<1>1. enrol[e].proofs \subseteq Proof
  BY DEF RecordTypeOK
<1>2. h \in Human /\ ages \subseteq AgeThresholds \cup {18}
  BY <1>1 DEF VerifyOne, Proof
<1>3. AgeBand(ages) # None
  <2>1. {x.olderThan : x \in {VerifyOne(y) : y \in enrol[e].proofs}} = ages
    OBVIOUS
  <2> QED BY <2>1 DEF VerifyEnrollment
<1>6. AgeBand(ages) \in {AgeBand(a) : a \in SUBSET (AgeThresholds \cup {18})} \ {None}
  BY <1>2, <1>3
<1>4. regs[h] = None \/ (regs[h].total \in Nat /\ regs[h].signal \in Nat)
  BY <1>2 DEF RecordTypeOK, Registration
<1> HIDE DEF h, ages
<1> DEFINE band == AgeBand(ages)
<1>7. band \in {AgeBand(a) : a \in SUBSET (AgeThresholds \cup {18})} \ {None}
  BY <1>6
<1> HIDE DEF band
<1>5. Upserted(h, KeyOf[e], band) \in Registration
  BY <1>2, <1>4, <1>7 DEF Upserted, Registration
<1> QED BY <1>2, <1>5 DEF h, ages, band

\* Enrolling, from the links to the registration.
LEMMA EnrolTypes ==
  ASSUME BridgeTypeOK, RecordTypeOK, EnrolStep
  PROVE  RecordTypeOK'
<1> PICK e \in Enrolment :
      BeginOnboarding(e) \/ FetchBundles(e) \/ GiveUp(e) \/ Register(e) \/ RegisterRefused(e)
  BY DEF EnrolStep
<1>1. CASE BeginOnboarding(e)
  BY <1>1 DEF BeginOnboarding, RecordTypeOK
<1>2. CASE FetchBundles(e)
  <2>1. Results(e) \subseteq Proof
    BY <1>2, ResultsTypes, SignInAssumption DEF FetchBundles, Complete
  <2> QED BY <1>2, <2>1 DEF FetchBundles, RecordTypeOK
<1>3. CASE GiveUp(e) \/ RegisterRefused(e)
  BY <1>3 DEF GiveUp, RegisterRefused, RecordTypeOK
<1>4. CASE Register(e)
  <2>1. VerifyEnrollment(enrol[e].proofs, KeyOf[e])
    BY <1>4 DEF Register
  <2> DEFINE h(p) == VerifyOne(p).uniqueIdentifier
             entry(p) == Upserted(h(p), KeyOf[e],
                           AgeBand({VerifyOne(x).olderThan : x \in enrol[e].proofs}))
  <2>4. PICK p \in enrol[e].proofs :
          regs' = [regs EXCEPT ![h(p)] = entry(p)] /\ departed' = departed \ {h(p)}
    BY <1>4 DEF Register
  <2>5. h(p) \in Human /\ entry(p) \in Registration
    BY <2>1, RegistrationType
  <2> HIDE DEF h, entry
  <2>2. regs' \in [Human -> Registration \cup {None}] /\ departed' \subseteq Human
    BY <2>4, <2>5 DEF RecordTypeOK
  <2>3. enrol' = [enrol EXCEPT ![e] = [at |-> "done", proofs |-> {}]]
        /\ UNCHANGED <<invalid, admins>>
    BY <1>4 DEF Register
  <2> QED BY <2>2, <2>3 DEF RecordTypeOK
<1> QED BY <1>1, <1>2, <1>3, <1>4

\* What answers, the operator, the chain and the human do to the records.
LEMMA RecordTypes ==
  ASSUME RecordTypeOK, RecordStep \/ AgentStep
  PROVE  RecordTypeOK'
<1> USE DEF RecordTypeOK
<1>1. ASSUME NEW h \in Human, CountAnswer(h) PROVE RecordTypeOK'
  <2> DEFINE counted == [regs[h] EXCEPT !.total = @ + 1]
  <2>1. PICK signal \in 0..1 : regs' = [regs EXCEPT ![h] = [counted EXCEPT !.signal = @ + signal]]
    BY <1>1 DEF CountAnswer
  <2>2. regs[h] \in Registration
    BY <1>1 DEF CountAnswer
  <2>3. counted \in Registration
    BY <2>2 DEF Registration
  <2> HIDE DEF counted
  <2>4. [counted EXCEPT !.signal = @ + signal] \in Registration
    BY <2>3 DEF Registration
  <2>5. UNCHANGED <<enrol, invalid, admins, departed>>
    BY <1>1 DEF CountAnswer
  <2> QED BY <2>1, <2>4, <2>5
<1>2. ASSUME NEW h \in Human, GrantAdmin(h) \/ RevokeAdmin(h) PROVE RecordTypeOK'
  BY <1>2 DEF GrantAdmin, RevokeAdmin
<1>3. ASSUME NEW h \in Human, Invalidate(h) PROVE RecordTypeOK'
  BY <1>3 DEF Invalidate
<1>4. ASSUME NEW h \in Human, DeleteAccount(h) PROVE RecordTypeOK'
  BY <1>4 DEF DeleteAccount
<1> QED BY <1>1, <1>2, <1>3, <1>4 DEF RecordStep, AdminStep, AgentStep

\* What the look-up of a rank returns is an answer.
LEMMA RankTypes == \A h : MayBeAdmin(h) \subseteq BOOLEAN
<1> TAKE h
<1> DEFINE granted == IsAskerAdmin(h)
<1>1. granted \in BOOLEAN
  BY DEF IsAskerAdmin
<1>2. MayBeAdmin(h) = {TRUE} \/ MayBeAdmin(h) = {FALSE, granted}
  BY Zenon DEF MayBeAdmin
<1> HIDE DEF granted
<1> QED BY <1>1, <1>2

\* A question let through is one of somebody known.
LEMMA LetThroughTypes ==
  ASSUME PostTypeOK, NEW v \in Tab, NEW h \in Human, LetThrough(v, h)
  PROVE  posting' \in [Tab -> Posting \cup {None}]
<1> DEFINE was == h \notin departed
<1>1. was \in BOOLEAN
  OBVIOUS
<1>2. PICK admin \in MayBeAdmin(h) :
        posting' = [posting EXCEPT ![v] =
                      [human |-> h, stage |-> "asker", wasMember |-> was, admin |-> admin]]
  BY Zenon DEF LetThrough
<1>3. admin \in BOOLEAN
  BY <1>2, RankTypes, Zenon
<1> HIDE DEF was
<1> QED BY <1>1, <1>2, <1>3 DEF PostTypeOK, Posting

\* Posting, step by step.
LEMMA PostTypes ==
  ASSUME TabTypeOK, RecordTypeOK, PostTypeOK,
         PostStep \/ \E v \in Tab : WindowSlides(v)
  PROVE  PostTypeOK'
<1> USE DEF PostTypeOK
<1>1. ASSUME NEW v \in Tab, TakeSlot(v) PROVE slots' \in [Tab -> 0..QuestionLimit]
  BY <1>1, SignInAssumption DEF TakeSlot
<1>2. ASSUME NEW v \in Tab, Post(v) PROVE PostTypeOK'
  <2>1. PICK h \in Human : LetThrough(v, h)
    <3>1. CASE SessionHolds(session[v]) /\ LetThrough(v, session[v].human)
      <4>1. session[v].human \in Human
        BY <3>1 DEF SessionHolds, SessionVerifies, TabTypeOK, Session
      <4> QED BY <3>1, <4>1
    <3> QED BY <1>2, <3>1 DEF Post
  <2>2. posting' \in [Tab -> Posting \cup {None}]
    BY <2>1, LetThroughTypes
  <2> QED BY <1>1, <1>2, <2>2 DEF Post
<1>3. ASSUME NEW v \in Tab, PostRefused(v) PROVE PostTypeOK'
  BY <1>1, <1>3 DEF PostRefused
<1>4. ASSUME NEW v \in Tab, InsertAsker(v) PROVE PostTypeOK'
  <2> DEFINE late == posting[v].wasMember /\ posting[v].human \in departed
             row  == [human |-> posting[v].human, late |-> late, admin |-> posting[v].admin]
  <2>1. posting[v] \in Posting
    BY <1>4 DEF InsertAsker
  <2>2. late \in BOOLEAN
    OBVIOUS
  <2>3. askers' = Append(askers, row)
    BY <1>4, Zenon DEF InsertAsker
  <2>7. UNCHANGED slots
    BY <1>4 DEF InsertAsker
  <2>4. posting' = [posting EXCEPT ![v] = [posting[v] EXCEPT !.stage = "question"]]
    BY <1>4 DEF InsertAsker
  <2> HIDE DEF late
  <2>5. row \in Asker
    BY <2>1, <2>2 DEF Posting, Asker
  <2>6. [posting[v] EXCEPT !.stage = "question"] \in Posting
    BY <2>1 DEF Posting
  <2> HIDE DEF row
  <2> QED BY <2>3, <2>4, <2>5, <2>6, <2>7
<1>5. ASSUME NEW v \in Tab, Posted(v) PROVE PostTypeOK'
  BY <1>5 DEF Posted
<1>6. ASSUME NEW v \in Tab, WindowSlides(v) PROVE PostTypeOK'
  BY <1>6, SignInAssumption DEF WindowSlides
<1> QED BY <1>2, <1>3, <1>4, <1>5, <1>6 DEF PostStep

\* Unlinking keeps the table a table.
LEMMA UnlinkedTypes ==
  ASSUME PostTypeOK, NEW h \in Human
  PROVE  /\ Unlinked(h) \in Seq(Asker) /\ DOMAIN Unlinked(h) = DOMAIN askers
         /\ \A i \in DOMAIN askers :
              /\ Unlinked(h)[i].human = IF askers[i].human = h THEN None ELSE askers[i].human
              /\ Unlinked(h)[i].late = askers[i].late /\ Unlinked(h)[i].admin = askers[i].admin
<1>1. \A x \in Asker : /\ [x EXCEPT !.human = None] \in Asker
                       /\ [x EXCEPT !.human = None].human = None
                       /\ [x EXCEPT !.human = None].late = x.late
                       /\ [x EXCEPT !.human = None].admin = x.admin
  BY DEF Asker
<1>2. \A i \in DOMAIN askers : askers[i] \in Asker
  BY DEF PostTypeOK
<1>3. DOMAIN askers = 1..Len(askers) /\ Len(askers) \in Nat
  BY DEF PostTypeOK
<1>4. \A i \in DOMAIN askers :
        Unlinked(h)[i] = IF askers[i].human = h THEN [askers[i] EXCEPT !.human = None] ELSE askers[i]
  BY Zenon DEF Unlinked
<1>5. Unlinked(h) = [i \in DOMAIN askers |-> Unlinked(h)[i]]
  BY Zenon DEF Unlinked
<1>6. \A i \in DOMAIN askers : Unlinked(h)[i] \in Asker
  BY <1>1, <1>2, <1>4
<1>7. Unlinked(h) \in [1..Len(askers) -> Asker]
  BY <1>3, <1>5, <1>6
<1>8. Unlinked(h) \in Seq(Asker)
  BY <1>3, <1>7, SeqDef
<1>9. DOMAIN Unlinked(h) = DOMAIN askers
  BY Zenon DEF Unlinked
<1>10. ASSUME NEW i \in DOMAIN askers
       PROVE  /\ Unlinked(h)[i].human = IF askers[i].human = h THEN None ELSE askers[i].human
              /\ Unlinked(h)[i].late = askers[i].late /\ Unlinked(h)[i].admin = askers[i].admin
  <2>1. CASE askers[i].human = h
    <3>1. Unlinked(h)[i] = [askers[i] EXCEPT !.human = None]
      BY <1>4, <2>1, Zenon
    <3>2. askers[i] \in Asker
      BY <1>2
    <3>3. /\ [askers[i] EXCEPT !.human = None].human = None
          /\ [askers[i] EXCEPT !.human = None].late = askers[i].late
          /\ [askers[i] EXCEPT !.human = None].admin = askers[i].admin
      BY <3>2 DEF Asker
    <3> QED BY <2>1, <3>1, <3>3, Zenon
  <2>2. CASE askers[i].human # h
    BY <1>4, <2>2, Zenon
  <2> QED BY <2>1, <2>2
<1> QED BY <1>8, <1>9, <1>10

\* Every step, part by part.
LEMMA NextTypes == SignInTypeOK /\ [Next]_signInVars => SignInTypeOK'
<1> SUFFICES ASSUME SignInTypeOK, [Next]_signInVars PROVE SignInTypeOK'
  OBVIOUS
<1>0. BridgeTypeOK /\ TabTypeOK /\ RecordTypeOK /\ PostTypeOK /\ acts \in 0..MaxActs
  BY DEF SignInTypeOK
<1>a. UNCHANGED bridgeVars => BridgeTypeOK'
  BY <1>0, OtherBridgeTypes
<1>b. UNCHANGED tabVars => TabTypeOK'
  BY <1>0 DEF tabVars, TabTypeOK
<1>c. UNCHANGED dbVars => RecordTypeOK'
  BY <1>0 DEF dbVars, RecordTypeOK
<1>d. UNCHANGED postVars => PostTypeOK'
  BY <1>0 DEF postVars, PostTypeOK
<1>e. UNCHANGED acts \/ Act => acts' \in 0..MaxActs
  BY <1>0, SignInAssumption DEF Act
<1>1. CASE BridgeStep /\ UNCHANGED <<tabVars, dbVars, postVars, acts>>
  <2>1. BridgeTypeOK'
    BY <1>0, <1>1, CallbackTypes, OtherBridgeTypes DEF BridgeStep
  <2> QED BY <1>1, <2>1, <1>b, <1>c, <1>d, <1>e DEF SignInTypeOK
<1>2. CASE OutsideStep
  <2>1. BridgeTypeOK'
    BY <1>0, <1>2, ScanTypes, OtherBridgeTypes DEF OutsideStep
  <2>2. UNCHANGED <<tabVars, dbVars, postVars>> /\ (UNCHANGED acts \/ Act)
    BY <1>2 DEF OutsideStep
  <2> QED BY <2>1, <2>2, <1>b, <1>c, <1>d, <1>e DEF SignInTypeOK
<1>3. CASE EnrolStep /\ UNCHANGED acts
  <2>1. RecordTypeOK'
    BY <1>0, <1>3, EnrolTypes
  <2>2. UNCHANGED <<tabVars, postVars>>
    BY <1>3 DEF EnrolStep, BeginOnboarding, FetchBundles, GiveUp, Register, RegisterRefused
  <2>3. UNCHANGED bridgeVars \/ \E e \in Request : PostRequest(e)
    BY <1>3, SignInAssumption
       DEF EnrolStep, BeginOnboarding, FetchBundles, GiveUp, Register, RegisterRefused
  <2>4. BridgeTypeOK'
    BY <1>0, <1>a, <2>3, PostRequestTypes
  <2> QED BY <1>3, <2>1, <2>2, <2>4, <1>b, <1>d, <1>e DEF SignInTypeOK
<1>4. CASE AgentStep /\ UNCHANGED acts
  <2>1. RecordTypeOK'
    BY <1>0, <1>4, RecordTypes
  <2>2. UNCHANGED <<bridgeVars, tabVars, postVars>>
    BY <1>4 DEF AgentStep, CountAnswer
  <2> QED BY <1>4, <2>1, <2>2, <1>a, <1>b, <1>d, <1>e DEF SignInTypeOK
<1>5. CASE TabStep /\ UNCHANGED acts
  <2>1. TabTypeOK'
    BY <1>0, <1>5, TabTypes
  <2>2. UNCHANGED <<dbVars, postVars>>
    BY <1>5 DEF TabStep, Visit, Press, StartFails, ShowLink, Poll, Arrive, Apply, ApplyFailed, ApplyVerified
  <2>3. UNCHANGED bridgeVars \/ \E r \in Request : PostRequest(r)
    <3>1. ASSUME NEW v \in Tab, ShowLink(v) PROVE \E r \in Request : PostRequest(r)
      BY <3>1 DEF ShowLink, LoginStart, Login
    <3> QED BY <1>5, <3>1 DEF TabStep, Visit, Press, StartFails, Poll, Arrive, Apply, ApplyFailed, ApplyVerified
  <2>4. BridgeTypeOK'
    BY <1>0, <1>a, <2>3, PostRequestTypes
  <2> QED BY <1>5, <2>1, <2>2, <2>4, <1>c, <1>d, <1>e DEF SignInTypeOK
<1>6. CASE PostStep /\ UNCHANGED acts
  <2>1. PostTypeOK'
    BY <1>0, <1>6, PostTypes
  <2>2. UNCHANGED <<bridgeVars, tabVars, dbVars>>
    BY <1>6 DEF PostStep, Post, PostRefused, InsertAsker, Posted
  <2> QED BY <1>6, <2>1, <2>2, <1>a, <1>b, <1>c, <1>e DEF SignInTypeOK
<1>7. CASE RecordStep
  <2>1. RecordTypeOK'
    BY <1>0, <1>7, RecordTypes
  <2>2. UNCHANGED <<bridgeVars, tabVars>> /\ (UNCHANGED acts \/ Act)
    BY <1>7 DEF RecordStep, AdminStep, GrantAdmin, RevokeAdmin, Invalidate, DeleteAccount
  <2>3. PostTypeOK'
    <3>1. ASSUME NEW h \in Human, DeleteAccount(h) PROVE PostTypeOK'
      <4>1. askers' = Unlinked(h) /\ UNCHANGED <<posting, slots>>
        BY <3>1 DEF DeleteAccount
      <4>2. Unlinked(h) \in Seq(Asker)
        BY <1>0, UnlinkedTypes
      <4> QED BY <1>0, <4>1, <4>2 DEF PostTypeOK
    <3>2. CASE UNCHANGED postVars
      BY <3>2, <1>d
    <3> QED BY <1>7, <3>1, <3>2 DEF RecordStep, AdminStep, GrantAdmin, RevokeAdmin, Invalidate
  <2> QED BY <2>1, <2>2, <2>3, <1>a, <1>b, <1>e DEF SignInTypeOK
<1>8. CASE VisitorStep /\ UNCHANGED acts
  <2>1. PICK v \in Tab : Leave(v) \/ Reset(v) \/ SessionExpires(v) \/ WindowSlides(v)
    BY <1>8 DEF VisitorStep
  <2>2. UNCHANGED <<bridgeVars, dbVars>>
    BY <2>1 DEF Leave, Reset, SessionExpires, WindowSlides
  <2>3. TabTypeOK' /\ PostTypeOK'
    <3>1. CASE Leave(v) \/ Reset(v) \/ SessionExpires(v)
      <4>1. UNCHANGED postVars
        BY <3>1 DEF Leave, Reset, SessionExpires
      <4> QED BY <1>0, <1>d, <3>1, <4>1, VisitorTypes
    <3>2. CASE WindowSlides(v)
      <4>1. UNCHANGED tabVars
        BY <3>2 DEF WindowSlides
      <4> QED BY <1>0, <1>b, <3>2, <4>1, PostTypes
    <3> QED BY <2>1, <3>1, <3>2
  <2> QED BY <1>8, <2>2, <2>3, <1>a, <1>c, <1>e DEF SignInTypeOK
<1>9. CASE UNCHANGED signInVars
  <2>1. UNCHANGED <<bridgeVars, tabVars, dbVars, postVars, acts>>
    BY <1>9 DEF signInVars
  <2> QED BY <2>1, <1>a, <1>b, <1>c, <1>d, <1>e DEF SignInTypeOK
<1> QED BY <1>1, <1>2, <1>3, <1>4, <1>5, <1>6, <1>7, <1>8, <1>9 DEF Next

\* Type correctness: SignInTypeOK, whatever the constants are.
THEOREM TypeCorrect == Spec => []SignInTypeOK
BY InitTypes, NextTypes, PTL DEF Spec

-----------------------------------------------------------------------------
(* A registration is true of its human.  The induction has to follow the   *)
(* proofs from the scan through the bridge to the enrolment that fetches   *)
(* them: each shows no age its human has not reached, and what is fetched  *)
(* has one for every step, so that no step is missing below which the      *)
(* broker would conclude its human to be.                                  *)

True(p) == Age[p.human] >= p.threshold

ProofsTrue ==
  /\ \A p \in verifying : True(p)
  /\ \A r \in Request : pending[r] # NoEntry => \A p \in Results(r) : True(p)
  /\ \A e \in Enrolment : \A p \in enrol[e].proofs : True(p)

FetchedWhole ==
  \A e \in Enrolment :
    enrol[e].at = "fetched" => {p.threshold : p \in enrol[e].proofs} = Thresholds(e)

TrueInvariant == SignInTypeOK /\ ProofsTrue /\ FetchedWhole /\ RegistrationTrue

\* A complete request has a result for every one of its thresholds.
LEMMA CompleteWhole ==
  ASSUME BridgeTypeOK, NEW r \in Request, Complete(r)
  PROVE  {p.threshold : p \in Results(r)} = Thresholds(r)
<1>1. pending[r] # NoEntry /\ DOMAIN pending[r] \subseteq Thresholds(r)
  BY DEF Complete, BridgeTypeOK
<1>2. IsFiniteSet(Thresholds(r))
  BY SelfBridgeAssumption, FS_Singleton DEF Thresholds, ProfileThresholds
<1>3. /\ IsFiniteSet(DOMAIN pending[r])
      /\ Cardinality(DOMAIN pending[r]) <= Cardinality(Thresholds(r))
      /\ Cardinality(Thresholds(r)) = Cardinality(DOMAIN pending[r])
           => Thresholds(r) = DOMAIN pending[r]
  BY <1>1, <1>2, FS_Subset
<1>4. Cardinality(DOMAIN pending[r]) \in Nat /\ Cardinality(Thresholds(r)) \in Nat
  BY <1>2, <1>3, FS_CardinalityType
<1>5. DOMAIN pending[r] = Thresholds(r)
  BY <1>3, <1>4 DEF Complete
<1>6. {p.threshold : p \in Results(r)} = DOMAIN pending[r]
  BY <1>1 DEF Results, BridgeTypeOK
<1> QED BY <1>5, <1>6

\* With the two ladders in step, a proof of every step leaves no upper bound.
LEMMA WholeBand ==
  ASSUME LadderInSync, NEW r \in Request
  PROVE  /\ AgeBand(Thresholds(r)).from \in Thresholds(r)
         /\ AgeBand(Thresholds(r)).below = None
<1> DEFINE passed == {k \in DOMAIN AgeLadder : AgeLadder[k] \in Thresholds(r)}
           top == CHOOSE k \in passed : \A j \in passed : j <= k
           band == [from  |-> AgeLadder[top],
                    below |-> IF passed = {1} \/ top = Len(AgeLadder) THEN None
                              ELSE AgeLadder[top + 1]]
<1>1. DOMAIN AgeLadder = 1..Len(AgeLadder) /\ Len(AgeLadder) \in Nat \ {0}
  BY SignInAssumption
<1>2. 18 = AgeLadder[1] /\ \A k \in DOMAIN AgeLadder : AgeLadder[k] = 18 => k = 1
  <2>1. ASSUME NEW k \in DOMAIN AgeLadder, k # 1 PROVE AgeLadder[k] # 18
    <3>1. 1 \in DOMAIN AgeLadder /\ 1 < k
      BY <1>1, <2>1
    <3>2. AgeLadder[1] < AgeLadder[k] /\ AgeLadder[1] = 18
      BY <3>1, SignInAssumption
    <3> QED BY <3>2
  <2> QED BY <2>1, SignInAssumption
<1>3. AgeBand(Thresholds(r)) = IF 1 \notin passed THEN None ELSE band
  BY Zenon DEF AgeBand
<1>4. CASE Thresholds(r) = {18}
  <2>1. passed = {1}
    BY <1>1, <1>2, <1>4
  <2>2. top = 1
    BY <2>1
  <2> HIDE DEF passed, top
  <2> QED BY <1>2, <1>3, <1>4, <2>1, <2>2
<1>5. CASE Thresholds(r) # {18}
  <2>1. Thresholds(r) = {AgeLadder[k] : k \in DOMAIN AgeLadder}
    BY <1>5 DEF Thresholds, ProfileThresholds, LadderInSync
  <2>2. passed = 1..Len(AgeLadder)
    BY <1>1, <2>1
  <2>3. top = Len(AgeLadder)
    BY <1>1, <2>2
  <2>4. 1 \in passed /\ top \in DOMAIN AgeLadder
    BY <1>1, <2>2, <2>3
  <2>5. AgeLadder[top] \in Thresholds(r)
    BY <2>1, <2>4, Zenon
  <2> HIDE DEF passed, top
  <2> QED BY <1>3, <2>3, <2>4, <2>5
<1> QED BY <1>4, <1>5

\* With no proof and no registration nothing can be untrue.
LEMMA InitTrue == Init => TrueInvariant
<1> SUFFICES ASSUME Init PROVE TrueInvariant
  OBVIOUS
<1>1. ProofsTrue
  BY DEF Init, BridgeInit, ProofsTrue
<1>2. RegistrationTrue /\ FetchedWhole
  BY DEF Init, RegistrationTrue, FetchedWhole
<1> QED BY <1>1, <1>2, InitTypes DEF TrueInvariant

\* What the bridge keeps and verifies stays true: the circuit lets nobody
\* prove an age not reached.
LEMMA BridgeTrue ==
  ASSUME SignInTypeOK, ProofsTrue,
         \/ UNCHANGED bridgeVars \/ BridgeStep \/ BridgeRestarts
         \/ \E r \in Request : PostRequest(r)
         \/ \E h \in Human, r \in Request : Scan(h, r)
  PROVE  /\ \A p \in verifying' : True(p)
         /\ \A r \in Request : pending'[r] # NoEntry => \A p \in Results(r)' : True(p)
<1>0. BridgeTypeOK
  BY DEF SignInTypeOK
<1> USE DEF ProofsTrue, True, Results
<1>1. CASE UNCHANGED bridgeVars
  BY <1>1 DEF bridgeVars
<1>2. ASSUME NEW p \in verifying, Callback(p)
      PROVE  /\ \A q \in verifying' : True(q)
             /\ \A r \in Request : pending'[r] # NoEntry => \A q \in Results(r)' : True(q)
  BY <1>0, <1>2 DEF Callback, BridgeTypeOK, Proof
<1>3. ASSUME NEW p \in verifying, CallbackFails(p)
      PROVE  /\ \A q \in verifying' : True(q)
             /\ \A r \in Request : pending'[r] # NoEntry => \A q \in Results(r)' : True(q)
  BY <1>3 DEF CallbackFails
<1>4. CASE BridgeRestarts
  BY <1>4 DEF BridgeRestarts
<1>5. CASE \E r \in Request : PostRequest(r)
  BY <1>0, <1>5 DEF PostRequest, BridgeTypeOK
<1>6. CASE \E h \in Human, r \in Request : Scan(h, r)
  BY <1>6 DEF Scan
<1> QED BY <1>1, <1>2, <1>3, <1>4, <1>5, <1>6 DEF BridgeStep

\* What an enrolment fetches is whole; nothing else makes it "fetched".
LEMMA EnrolWhole ==
  ASSUME SignInTypeOK, FetchedWhole, EnrolStep
  PROVE  FetchedWhole'
<1>0. RecordTypeOK /\ BridgeTypeOK
  BY DEF SignInTypeOK
<1> PICK e \in Enrolment :
      BeginOnboarding(e) \/ FetchBundles(e) \/ GiveUp(e) \/ Register(e) \/ RegisterRefused(e)
  BY DEF EnrolStep
<1>1. CASE BeginOnboarding(e)
  BY <1>0, <1>1 DEF BeginOnboarding, RecordTypeOK, FetchedWhole
<1>2. CASE FetchBundles(e)
  <2>1. {p.threshold : p \in Results(e)} = Thresholds(e)
    BY <1>0, <1>2, CompleteWhole, SignInAssumption DEF FetchBundles
  <2> QED BY <1>0, <1>2, <2>1 DEF FetchBundles, RecordTypeOK, FetchedWhole
<1>3. CASE GiveUp(e) \/ Register(e) \/ RegisterRefused(e)
  BY <1>0, <1>3 DEF GiveUp, Register, RegisterRefused, RecordTypeOK, FetchedWhole
<1> QED BY <1>1, <1>2, <1>3

\* A registration of several proofs is of the one human who gave them all.
LEMMA EnrolTrue ==
  ASSUME LadderInSync, SignInTypeOK, ProofsTrue, FetchedWhole, RegistrationTrue, EnrolStep
  PROVE  /\ \A e \in Enrolment : \A p \in enrol'[e].proofs : True(p)
         /\ RegistrationTrue'
<1>0. RecordTypeOK
  BY DEF SignInTypeOK
<1> PICK e \in Enrolment :
      BeginOnboarding(e) \/ FetchBundles(e) \/ GiveUp(e) \/ Register(e) \/ RegisterRefused(e)
  BY DEF EnrolStep
<1>1. CASE BeginOnboarding(e)
  BY <1>0, <1>1 DEF BeginOnboarding, RecordTypeOK, ProofsTrue, RegistrationTrue
<1>2. CASE FetchBundles(e)
  <2>1. \A p \in Results(e) : True(p)
    BY <1>2, SignInAssumption DEF FetchBundles, Complete, ProofsTrue
  <2> QED BY <1>0, <1>2, <2>1 DEF FetchBundles, RecordTypeOK, ProofsTrue, RegistrationTrue
<1>3. CASE GiveUp(e) \/ RegisterRefused(e)
  BY <1>0, <1>3 DEF GiveUp, RegisterRefused, RecordTypeOK, ProofsTrue, RegistrationTrue
<1>4. CASE Register(e)
  <2>1. \A q \in enrol'[e].proofs : FALSE
    BY <1>0, <1>4 DEF Register, RecordTypeOK
  <2>2. \A f \in Enrolment : \A p \in enrol'[f].proofs : True(p)
    BY <1>0, <1>4, <2>1 DEF Register, RecordTypeOK, ProofsTrue
  <2>3. VerifyEnrollment(enrol[e].proofs, KeyOf[e])
    BY <1>4 DEF Register
  <2> DEFINE h(p) == VerifyOne(p).uniqueIdentifier
             ages == {VerifyOne(x).olderThan : x \in enrol[e].proofs}
             entry(p) == Upserted(h(p), KeyOf[e], AgeBand(ages))
  <2>4. PICK p \in enrol[e].proofs : regs' = [regs EXCEPT ![h(p)] = entry(p)]
    BY <1>4 DEF Register
  <2>5. enrol[e].proofs \subseteq Proof
    BY <1>0 DEF RecordTypeOK
  <2>6. \A q \in enrol[e].proofs : q.human = p.human
    <3>1. \A q \in enrol[e].proofs : h(q) = h(p)
      BY <2>3 DEF VerifyEnrollment
    <3> QED BY <3>1 DEF VerifyOne
  <2>7. h(p) = p.human /\ h(p) \in Human
    BY <2>5 DEF VerifyOne, Proof
  <2>8. \A t \in ages : Age[h(p)] >= t
    BY <2>5, <2>6, <2>7 DEF VerifyOne, Proof, ProofsTrue, True
  <2>9. ages = Thresholds(e)
    BY <1>4 DEF Register, FetchedWhole, VerifyOne
  <2>12. AgeBand(ages).from \in ages /\ AgeBand(ages).below = None
    BY <2>9, WholeBand, SignInAssumption
  <2> HIDE DEF h, ages
  <2>10. /\ entry(p).country = Nationality[h(p)]
         /\ entry(p).band.from \in ages /\ entry(p).band.below = None
    BY <2>12 DEF Upserted
  <2> HIDE DEF entry
  <2>11. RegistrationTrue'
    BY <1>0, <2>4, <2>7, <2>8, <2>10 DEF RegistrationTrue, RecordTypeOK
  <2> QED BY <2>2, <2>11
<1> QED BY <1>1, <1>2, <1>3, <1>4

\* Whatever else happens to a registration leaves its predicates alone.
LEMMA RecordTrue ==
  ASSUME SignInTypeOK, RegistrationTrue, RecordStep \/ AgentStep
  PROVE  RegistrationTrue' /\ UNCHANGED <<bridgeVars, enrol>>
<1>0. RecordTypeOK
  BY DEF SignInTypeOK
<1>1. ASSUME NEW h \in Human, CountAnswer(h)
      PROVE  RegistrationTrue' /\ UNCHANGED <<bridgeVars, enrol>>
  <2> DEFINE counted == [regs[h] EXCEPT !.total = @ + 1]
  <2>1. PICK signal \in 0..1 : regs' = [regs EXCEPT ![h] = [counted EXCEPT !.signal = @ + signal]]
    BY <1>1 DEF CountAnswer
  <2>2. regs[h] # None /\ regs[h] \in Registration
    BY <1>0, <1>1 DEF CountAnswer, RecordTypeOK
  <2>3. counted.country = regs[h].country /\ counted.band = regs[h].band /\ counted \in Registration
    BY <2>2 DEF Registration
  <2> HIDE DEF counted
  <2> DEFINE next == [counted EXCEPT !.signal = @ + signal]
  <2>4. next.country = counted.country /\ next.band = counted.band
    BY <2>3 DEF Registration
  <2> HIDE DEF next
  <2>5. RegistrationTrue'
    BY <1>0, <2>1, <2>2, <2>3, <2>4 DEF next, RegistrationTrue, RecordTypeOK
  <2> QED BY <1>1, <2>5 DEF CountAnswer
<1>2. ASSUME NEW h \in Human, GrantAdmin(h) \/ RevokeAdmin(h)
      PROVE  RegistrationTrue' /\ UNCHANGED <<bridgeVars, enrol>>
  BY <1>2 DEF GrantAdmin, RevokeAdmin, RegistrationTrue
<1>3. ASSUME NEW h \in Human, Invalidate(h) \/ DeleteAccount(h)
      PROVE  RegistrationTrue' /\ UNCHANGED <<bridgeVars, enrol>>
  BY <1>0, <1>3 DEF Invalidate, DeleteAccount, RegistrationTrue, RecordTypeOK
<1> QED BY <1>1, <1>2, <1>3 DEF RecordStep, AdminStep, AgentStep

\* Every step keeps proofs and registrations true.
LEMMA NextTrue ==
  ASSUME LadderInSync
  PROVE  TrueInvariant /\ [Next]_signInVars => TrueInvariant'
<1> SUFFICES ASSUME TrueInvariant, [Next]_signInVars PROVE TrueInvariant'
  OBVIOUS
<1> USE DEF TrueInvariant
<1>1. SignInTypeOK'
  BY NextTypes
<1>a. UNCHANGED <<bridgeVars, enrol, regs>> => ProofsTrue' /\ RegistrationTrue'
  BY DEF bridgeVars, ProofsTrue, RegistrationTrue, Results
<1>b. UNCHANGED dbVars => UNCHANGED <<enrol, regs>>
  BY DEF dbVars
<1>c. UNCHANGED enrol => FetchedWhole'
  BY DEF FetchedWhole
<1>2. CASE BridgeStep /\ UNCHANGED <<tabVars, dbVars, postVars, acts>>
  BY <1>1, <1>2, <1>b, <1>c, BridgeTrue DEF ProofsTrue, RegistrationTrue
<1>3. CASE OutsideStep
  BY <1>1, <1>3, <1>b, <1>c, BridgeTrue DEF OutsideStep, ProofsTrue, RegistrationTrue
<1>4. CASE EnrolStep
  <2>1. UNCHANGED bridgeVars \/ \E e \in Request : PostRequest(e)
    BY <1>4, SignInAssumption
       DEF EnrolStep, BeginOnboarding, FetchBundles, GiveUp, Register, RegisterRefused
  <2> QED BY <1>1, <1>4, <2>1, BridgeTrue, EnrolWhole, EnrolTrue DEF ProofsTrue
<1>5. CASE RecordStep \/ AgentStep
  <2>1. RegistrationTrue' /\ UNCHANGED <<bridgeVars, enrol>>
    BY <1>5, RecordTrue
  <2> QED BY <1>1, <1>c, <2>1 DEF ProofsTrue, Results, bridgeVars
<1>6. CASE TabStep
  <2>1. UNCHANGED <<enrol, regs>>
    BY <1>6, <1>b DEF TabStep, Visit, Press, StartFails, ShowLink, Poll, Arrive, Apply, ApplyFailed, ApplyVerified
  <2>2. UNCHANGED bridgeVars \/ \E r \in Request : PostRequest(r)
    <3>1. ASSUME NEW v \in Tab, ShowLink(v) PROVE \E r \in Request : PostRequest(r)
      BY <3>1 DEF ShowLink, LoginStart, Login
    <3> QED BY <1>6, <3>1 DEF TabStep, Visit, Press, StartFails, Poll, Arrive, Apply, ApplyFailed, ApplyVerified
  <2> QED BY <1>1, <1>c, <2>1, <2>2, BridgeTrue DEF ProofsTrue, RegistrationTrue
<1>7. CASE PostStep \/ VisitorStep
  <2>1. UNCHANGED <<bridgeVars, dbVars>>
    BY <1>7 DEF PostStep, Post, PostRefused, InsertAsker, Posted,
                VisitorStep, Leave, Reset, SessionExpires, WindowSlides
  <2> QED BY <1>1, <1>a, <1>b, <1>c, <2>1
<1>8. CASE UNCHANGED signInVars
  BY <1>1, <1>8, <1>a, <1>b, <1>c DEF signInVars
<1> QED BY <1>2, <1>3, <1>4, <1>5, <1>6, <1>7, <1>8 DEF Next

\* However scans, callbacks, re-scans and restarts interleave, as long as the bridge
\* asks for the steps of the broker's ladder: RegistrationTrue.
THEOREM RegistrationIsTrue ==
  ASSUME LadderInSync
  PROVE  Spec => []RegistrationTrue
<1>1. TrueInvariant => RegistrationTrue
  BY DEF TrueInvariant
<1>2. TrueInvariant /\ [Next]_signInVars => TrueInvariant'
  BY NextTrue
<1> QED BY InitTrue, <1>1, <1>2, PTL DEF Spec

-----------------------------------------------------------------------------
(* Deletion unlinks.  Deletion clears the rows it finds; what has to be    *)
(* shown is that no row inserted later names the departed human unless the *)
(* gate had let the question through before, or through for an             *)
(* administrator: a departed human has no registration, so no counters.    *)

DepartedGone == \A h \in departed : regs[h] = None

PostingsKnown ==
  \A v \in Tab : posting[v] # None => posting[v].wasMember \/ posting[v].admin = TRUE

UnlinkInvariant == SignInTypeOK /\ DepartedGone /\ PostingsKnown /\ DeletedUnlinked

\* Nobody has departed and nothing is posted.
LEMMA InitUnlink == Init => UnlinkInvariant
<1> SUFFICES ASSUME Init PROVE UnlinkInvariant
  OBVIOUS
<1>1. DepartedGone /\ PostingsKnown /\ DeletedUnlinked
  BY DEF Init, DepartedGone, PostingsKnown, DeletedUnlinked
<1> QED BY <1>1, InitTypes DEF UnlinkInvariant

\* Whoever registers is no longer departed, and whoever departs loses the
\* registration.
LEMMA GoneStays ==
  ASSUME SignInTypeOK, DepartedGone, EnrolStep \/ RecordStep \/ AgentStep
  PROVE  DepartedGone'
<1>0. RecordTypeOK
  BY DEF SignInTypeOK
<1>1. ASSUME NEW e \in Enrolment, Register(e) PROVE DepartedGone'
  <2> DEFINE h(p) == VerifyOne(p).uniqueIdentifier
             entry(p) == Upserted(h(p), KeyOf[e],
                           AgeBand({VerifyOne(x).olderThan : x \in enrol[e].proofs}))
  <2>1. PICK p \in enrol[e].proofs :
          regs' = [regs EXCEPT ![h(p)] = entry(p)] /\ departed' = departed \ {h(p)}
    BY <1>1 DEF Register
  <2> HIDE DEF h, entry
  <2> QED BY <1>0, <2>1 DEF DepartedGone, RecordTypeOK
<1>2. CASE EnrolStep /\ ~\E e \in Enrolment : Register(e)
  BY <1>2 DEF EnrolStep, BeginOnboarding, FetchBundles, GiveUp, RegisterRefused, DepartedGone
<1>3. ASSUME NEW h \in Human, CountAnswer(h) PROVE DepartedGone'
  <2>1. regs[h] # None /\ UNCHANGED departed
    BY <1>3 DEF CountAnswer
  <2>2. PICK r : regs' = [regs EXCEPT ![h] = r]
    BY <1>3 DEF CountAnswer
  <2> QED BY <1>0, <2>1, <2>2 DEF DepartedGone, RecordTypeOK
<1>4. ASSUME NEW h \in Human, GrantAdmin(h) \/ RevokeAdmin(h) PROVE DepartedGone'
  BY <1>4 DEF GrantAdmin, RevokeAdmin, DepartedGone
<1>5. ASSUME NEW h \in Human, Invalidate(h) \/ DeleteAccount(h) PROVE DepartedGone'
  BY <1>0, <1>5 DEF Invalidate, DeleteAccount, DepartedGone, RecordTypeOK
<1> QED BY <1>1, <1>2, <1>3, <1>4, <1>5 DEF EnrolStep, RecordStep, AdminStep, AgentStep

\* The gate lets nobody through who has departed, but an administrator.
LEMMA GateKnows ==
  ASSUME RequiredTotal + RequiredSignal > 0, SignInTypeOK, DepartedGone, PostingsKnown, PostStep
  PROVE  PostingsKnown'
<1>0. PostTypeOK /\ TabTypeOK
  BY DEF SignInTypeOK
<1>1. ASSUME NEW v \in Tab, NEW h \in Human, LetThrough(v, h) PROVE PostingsKnown'
  <2> DEFINE was == h \notin departed
  <2>1. PICK admin \in MayBeAdmin(h) :
          /\ CanAsk(Counts(h), admin)
          /\ posting' = [posting EXCEPT ![v] =
                           [human |-> h, stage |-> "asker", wasMember |-> was, admin |-> admin]]
    BY <1>1, Zenon DEF LetThrough
  <2>2. admin \in BOOLEAN
    BY <2>1, RankTypes, Zenon
  <2>3. h \in departed => admin
    <3>1. h \in departed => Counts(h) = [total |-> 0, signal |-> 0]
      BY DEF Counts, DepartedGone
    <3>2. ~(0 >= RequiredTotal /\ 0 >= RequiredSignal)
      BY SignInAssumption
    <3> QED BY <2>1, <2>2, <3>1, <3>2 DEF CanAsk
  <2>4. was \/ admin = TRUE
    BY <2>2, <2>3
  <2>5. was \in BOOLEAN
    OBVIOUS
  <2> HIDE DEF was
  <2> QED BY <1>0, <2>1, <2>4, <2>5 DEF PostingsKnown, PostTypeOK
<1>2. ASSUME NEW v \in Tab, Post(v) PROVE PostingsKnown'
  <2>1. CASE SessionHolds(session[v]) /\ LetThrough(v, session[v].human)
    <3>1. session[v].human \in Human
      BY <1>0, <2>1 DEF SessionHolds, SessionVerifies, TabTypeOK, Session
    <3> QED BY <1>1, <2>1, <3>1
  <2> QED BY <1>1, <1>2, <2>1 DEF Post
<1>3. ASSUME NEW v \in Tab, PostRefused(v) PROVE PostingsKnown'
  BY <1>3 DEF PostRefused, PostingsKnown
<1>4. ASSUME NEW v \in Tab, InsertAsker(v) PROVE PostingsKnown'
  <2>1. posting[v] \in Posting /\ posting[v] # None
    BY <1>0, <1>4 DEF InsertAsker, PostTypeOK
  <2> DEFINE next == [posting[v] EXCEPT !.stage = "question"]
  <2>2. posting' = [posting EXCEPT ![v] = next]
    BY <1>4 DEF InsertAsker
  <2>3. next.wasMember = posting[v].wasMember /\ next.admin = posting[v].admin
    BY <2>1 DEF Posting
  <2> HIDE DEF next
  <2> QED BY <1>0, <2>1, <2>2, <2>3 DEF PostingsKnown, PostTypeOK
<1>5. ASSUME NEW v \in Tab, Posted(v) PROVE PostingsKnown'
  BY <1>0, <1>5 DEF Posted, PostingsKnown, PostTypeOK
<1> QED BY <1>2, <1>3, <1>4, <1>5 DEF PostStep

\* A row inserted after its author's departure is late or an administrator's.
LEMMA InsertUnlinked ==
  ASSUME SignInTypeOK, PostingsKnown, DeletedUnlinked, NEW v \in Tab, InsertAsker(v)
  PROVE  DeletedUnlinked'
<1>0. PostTypeOK
  BY DEF SignInTypeOK
<1> DEFINE late == posting[v].wasMember /\ posting[v].human \in departed
           row  == [human |-> posting[v].human, late |-> late, admin |-> posting[v].admin]
<1>1. askers' = Append(askers, row)
  BY Zenon DEF InsertAsker
<1>2. UNCHANGED departed
  BY DEF InsertAsker, dbVars
<1>3. row.human \in departed => row.late \/ row.admin
  BY DEF PostingsKnown, InsertAsker
<1> HIDE DEF late, row
<1>4. \A i \in DOMAIN askers' :
        (i \in DOMAIN askers /\ askers'[i] = askers[i]) \/ askers'[i] = row
  BY <1>0, <1>1 DEF PostTypeOK
<1> QED BY <1>2, <1>3, <1>4 DEF DeletedUnlinked

\* A deletion takes its human's name out of every row.
LEMMA DeleteUnlinked ==
  ASSUME SignInTypeOK, DeletedUnlinked, NEW h \in Human, DeleteAccount(h)
  PROVE  DeletedUnlinked'
<1>0. PostTypeOK /\ RecordTypeOK
  BY DEF SignInTypeOK
<1>1. askers' = Unlinked(h) /\ departed' = departed \cup {h}
  BY DEF DeleteAccount
<1>2. h # None /\ None \notin departed
  BY <1>0, SignInAssumption DEF RecordTypeOK
<1> QED BY <1>0, <1>1, <1>2, UnlinkedTypes DEF DeletedUnlinked

\* Every step keeps the departed unnamed.
LEMMA NextUnlink ==
  ASSUME RequiredTotal + RequiredSignal > 0
  PROVE  UnlinkInvariant /\ [Next]_signInVars => UnlinkInvariant'
<1> SUFFICES ASSUME UnlinkInvariant, [Next]_signInVars PROVE UnlinkInvariant'
  OBVIOUS
<1> USE DEF UnlinkInvariant
<1>1. SignInTypeOK'
  BY NextTypes
<1>a. UNCHANGED <<regs, departed>> => DepartedGone'
  BY DEF DepartedGone
<1>b. UNCHANGED posting => PostingsKnown'
  BY DEF PostingsKnown
<1>c. UNCHANGED <<askers, departed>> => DeletedUnlinked'
  BY DEF DeletedUnlinked
<1>2. CASE UNCHANGED <<dbVars, postVars>>
  BY <1>1, <1>2, <1>a, <1>b, <1>c DEF dbVars, postVars
<1>3. CASE BridgeStep /\ UNCHANGED <<tabVars, dbVars, postVars, acts>>
  BY <1>2, <1>3
<1>4. CASE OutsideStep \/ TabStep
  BY <1>2, <1>4 DEF OutsideStep, TabStep, Visit, Press, StartFails, ShowLink, Poll, Arrive, Apply, ApplyFailed, ApplyVerified
<1>5. CASE EnrolStep
  <2>1. DepartedGone'
    BY <1>5, GoneStays
  <2>2. UNCHANGED postVars /\ departed' \subseteq departed
    BY <1>5 DEF EnrolStep, BeginOnboarding, FetchBundles, GiveUp, Register, RegisterRefused
  <2>3. DeletedUnlinked'
    BY <2>2 DEF DeletedUnlinked, postVars
  <2> QED BY <1>1, <1>b, <2>1, <2>2, <2>3 DEF postVars
<1>6. CASE RecordStep \/ AgentStep
  <2>1. DepartedGone'
    BY <1>6, GoneStays
  <2>2. UNCHANGED posting
    BY <1>6 DEF RecordStep, AdminStep, AgentStep, CountAnswer, GrantAdmin, RevokeAdmin, Invalidate,
                DeleteAccount, postVars
  <2>3. ASSUME NEW h \in Human, DeleteAccount(h) PROVE DeletedUnlinked'
    BY <2>3, DeleteUnlinked
  <2>4. DeletedUnlinked'
    BY <1>6, <1>c, <2>3 DEF RecordStep, AdminStep, AgentStep, CountAnswer, GrantAdmin, RevokeAdmin,
                            Invalidate, postVars
  <2> QED BY <1>1, <1>b, <2>1, <2>2, <2>4
<1>7. CASE PostStep
  <2>1. PostingsKnown'
    BY <1>7, GateKnows
  <2>2. UNCHANGED <<regs, departed>>
    BY <1>7 DEF PostStep, Post, PostRefused, InsertAsker, Posted, dbVars
  <2>3. ASSUME NEW v \in Tab, InsertAsker(v) PROVE DeletedUnlinked'
    BY <2>3, InsertUnlinked
  <2>4. DeletedUnlinked'
    BY <1>7, <1>c, <2>2, <2>3 DEF PostStep, Post, PostRefused, Posted
  <2> QED BY <1>1, <1>a, <2>1, <2>2, <2>4
<1>8. CASE VisitorStep
  <2>1. UNCHANGED <<dbVars, posting, askers>>
    BY <1>8 DEF VisitorStep, Leave, Reset, SessionExpires, WindowSlides, postVars
  <2> QED BY <1>1, <1>a, <1>b, <1>c, <2>1 DEF dbVars
<1>9. CASE UNCHANGED signInVars
  BY <1>2, <1>9 DEF signInVars
<1> QED BY <1>3, <1>4, <1>5, <1>6, <1>7, <1>8, <1>9 DEF Next

\* As long as asking has to be earned by an answer at all, DeletedUnlinked.
THEOREM DeletionUnlinks ==
  ASSUME RequiredTotal + RequiredSignal > 0
  PROVE  Spec => []DeletedUnlinked
<1>1. UnlinkInvariant => DeletedUnlinked
  BY DEF UnlinkInvariant
<1>2. UnlinkInvariant /\ [Next]_signInVars => UnlinkInvariant'
  BY NextUnlink
<1> QED BY InitUnlink, <1>1, <1>2, PTL DEF Spec
=============================================================================
