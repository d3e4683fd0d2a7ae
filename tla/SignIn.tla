------------------------------- MODULE SignIn -------------------------------
(***************************************************************************)
(* Who is asking: from a scanned link to a question that names its asker.  *)
(*                                                                         *)
(*   the skill    asks the bridge for links, polls it for their proofs and *)
(*                registers with the broker (onboarding.rs, register.ts);  *)
(*   the web app  shows a link, polls the broker for a session, and posts  *)
(*                questions in its name (ask-gate.tsx, create-question.ts); *)
(*   the broker   issues both credentials and decides who may ask          *)
(*                (askers.ts, askerGating.ts), and deletes accounts.       *)
(*                                                                         *)
(* A credential is signed by the broker, so holding one is having been     *)
(* given it: a session is its human and whether it has expired, a token is *)
(* as good as the registration it must match.                              *)
(***************************************************************************)
EXTENDS SelfBridge, Sequences

CONSTANTS Tab,
          Enrolment,       \* the requests skills make; the others are logins
          RequiredTotal, RequiredSignal,  \* answers that unlock asking
          AgeLadder,       \* AGE_LADDER (code: 18, 25, 35, 50, 65)
          EnvAdmins,       \* CHORUM_BROKER_ASKER_ADMIN_IDENTIFIERS
          QuestionLimit,   \* per hour and client
          MaxQuestions,    \* bound: asker rows
          MaxActs,         \* bound: see Act
          None

ASSUME SignInAssumption ==
  /\ Enrolment \subseteq Request
  /\ RequiredTotal \in Nat /\ RequiredSignal \in Nat
  /\ AgeLadder \in Seq(Nat) /\ AgeLadder # <<>> /\ AgeLadder[1] = 18
  /\ \A i, j \in DOMAIN AgeLadder : i < j => AgeLadder[i] < AgeLadder[j]
  /\ EnvAdmins \subseteq Human /\ None \notin Human
  /\ QuestionLimit \in Nat \ {0}
  /\ MaxQuestions \in Nat /\ MaxActs \in Nat

Login == Request \ Enrolment

VARIABLES
  step,     \* step[v]: away, intro, scan, score, cleared, form
  shown,    \* the request whose link the tab shows and polls for
  failed,   \* the scan stage shows an error and polls no more
  session,  \* the session the tab works with
  saved,    \* the session in the tab's sessionStorage
  replies,  \* answers to its polls on their way to the tab
  enrol,    \* enrol[e]: where the enrolment is, and the proofs it has fetched
  regs,     \* registrations
  invalid,  \* self_nullifier_invalidations
  admins,   \* asker_admins
  posting,  \* posting[v]: the server action at work for the tab
  askers,   \* the askers table, in order of insertion
  slots,    \* recent posts of the tab's client
  departed, \* history: humans whose account is deleted
  acts      \* acts so far

tabVars   == <<step, shown, failed, session, saved, replies>>
dbVars    == <<enrol, regs, invalid, admins, departed>>
postVars  == <<posting, askers, slots>>
signInVars == <<bridgeVars, tabVars, dbVars, postVars, acts>>

\* thresholdsToAgeBand: no band without the lowest step of the ladder; with it
\* alone, "18+"; otherwise from the highest step passed up to the next one.
\* Thresholds the ladder does not know are ignored.
AgeBand(ages) ==
  LET passed == {k \in DOMAIN AgeLadder : AgeLadder[k] \in ages}
      top == CHOOSE k \in passed : \A j \in passed : j <= k
  IN  IF 1 \notin passed THEN None
      ELSE [from  |-> AgeLadder[top],
            below |-> IF passed = {1} \/ top = Len(AgeLadder) THEN None ELSE AgeLadder[top + 1]]

\* The bridge asks for the steps the broker's ladder has, or for 18 alone.
LadderInSync ==
  AgeThresholds = {} \/ AgeThresholds = {AgeLadder[k] : k \in DOMAIN AgeLadder}

Session == [human : Human, live : BOOLEAN]
Reply   == [request : Login, human : Human \cup {None}, cleared : BOOLEAN,
            at : {"sent", "read", "left"}]
Registration == [key : {KeyOf[e] : e \in Enrolment}, country : {Nationality[h] : h \in Human},
                 band : {AgeBand(ages) : ages \in SUBSET (AgeThresholds \cup {18})} \ {None},
                 total : Nat, signal : Nat]
Posting == [human : Human, stage : {"asker", "question"}, wasMember : BOOLEAN, admin : BOOLEAN]
Asker   == [human : Human \cup {None}, late : BOOLEAN, admin : BOOLEAN]

TabTypeOK ==
  /\ step \in [Tab -> {"away", "intro", "scan", "score", "cleared", "form"}]
  /\ shown \in [Tab -> Login \cup {None}]
  /\ failed \in [Tab -> BOOLEAN]
  /\ session \in [Tab -> Session \cup {None}] /\ saved \in [Tab -> Session \cup {None}]
  /\ replies \in [Tab -> SUBSET Reply]
  /\ \A v \in Tab : shown[v] # None => step[v] = "scan"

RecordTypeOK ==
  /\ enrol \in [Enrolment -> [at : {"none", "waiting", "fetched", "done", "failed"},
                             proofs : SUBSET Proof]]
  /\ regs \in [Human -> Registration \cup {None}]
  /\ invalid \subseteq Human /\ admins \subseteq Human /\ departed \subseteq Human

PostTypeOK ==
  /\ posting \in [Tab -> Posting \cup {None}]
  /\ askers \in Seq(Asker)
  /\ slots \in [Tab -> 0..QuestionLimit]

SignInTypeOK ==
  /\ BridgeTypeOK /\ TabTypeOK /\ RecordTypeOK /\ PostTypeOK
  /\ acts \in 0..MaxActs

Init ==
  /\ BridgeInit
  /\ step = [v \in Tab |-> "away"] /\ shown = [v \in Tab |-> None]
  /\ failed = [v \in Tab |-> FALSE] /\ replies = [v \in Tab |-> {}]
  /\ session = [v \in Tab |-> None] /\ saved = [v \in Tab |-> None]
  /\ enrol = [e \in Enrolment |-> [at |-> "none", proofs |-> {}]]
  /\ regs = [h \in Human |-> None]
  /\ invalid = {} /\ admins = {} /\ departed = {}
  /\ posting = [v \in Tab |-> None] /\ askers = <<>> /\ slots = [v \in Tab |-> 0]
  /\ acts = 0

\* The scans, the operator's commands and the chain's logs are bounded in number.
Act == acts < MaxActs /\ acts' = acts + 1

-----------------------------------------------------------------------------
(* Enrolment: onboarding.rs and POST /v1/register.                         *)

\* begin_onboarding: the links are printed for the owner of the machine.
BeginOnboarding(e) ==
  /\ enrol[e].at = "none"
  /\ PostRequest(e)
  /\ enrol' = [enrol EXCEPT ![e].at = "waiting"]
  /\ UNCHANGED <<tabVars, regs, invalid, admins, departed, postVars>>

\* complete_onboarding polls: all the proofs the bridge has, once complete ...
FetchBundles(e) ==
  /\ enrol[e].at = "waiting" /\ Complete(e) /\ AllVerified(e)
  /\ enrol' = [enrol EXCEPT ![e] = [at |-> "fetched", proofs |-> Results(e)]]
  /\ UNCHANGED <<bridgeVars, tabVars, regs, invalid, admins, departed, postVars>>

\* ... or an unverified one, a request the bridge no longer knows, or the
\* deadline, any of which ends it.
GiveUp(e) ==
  /\ enrol[e].at = "waiting"
  /\ enrol' = [enrol EXCEPT ![e] = [at |-> "failed", proofs |-> {}]]
  /\ UNCHANGED <<bridgeVars, tabVars, regs, invalid, admins, departed, postVars>>

\* (faulty variant: the proofs may be of different humans)
VerifiedTogether(proofs, key) ==
  LET results == {VerifyOne(p) : p \in proofs}
  IN  /\ \A x \in results : x.verified /\ x.registryConfirmed
      /\ \A x \in results : x.boundAgentKey \in {None, key}
      /\ AgeBand({x.olderThan : x \in results}) # None

\* verifyEnrollment: every proof holds, is bound to the key (or to none), and
\* all are of one human with one nationality.
VerifyEnrollment(proofs, key) ==
  LET results == {VerifyOne(p) : p \in proofs}
  IN  /\ \A x \in results : x.verified /\ x.registryConfirmed
      /\ \A x \in results : x.boundAgentKey \in {None, key}
      /\ \A x, y \in results : x.uniqueIdentifier = y.uniqueIdentifier
      /\ \A x, y \in results : x.nationality = y.nationality
      /\ AgeBand({x.olderThan : x \in results}) # None

\* upsertRegistration: key and predicates are replaced, the counters stay.
Upserted(h, key, band) ==
  LET old == regs[h]
  IN  [key |-> key, country |-> Nationality[h], band |-> band,
       total |-> IF old = None THEN 0 ELSE old.total,
       signal |-> IF old = None THEN 0 ELSE old.signal]

\* The broker verifies the proofs anew and binds the human to the key; the
\* human is the one of the first proof.
Register(e) ==
  /\ enrol[e].at = "fetched"
  /\ VerifyEnrollment(enrol[e].proofs, KeyOf[e])
  /\ \E p \in enrol[e].proofs :
       LET h == VerifyOne(p).uniqueIdentifier IN
       /\ h \notin invalid
       /\ regs' = [regs EXCEPT ![h] =
                     Upserted(h, KeyOf[e], AgeBand({VerifyOne(x).olderThan : x \in enrol[e].proofs}))]
       /\ departed' = departed \ {h}
  /\ enrol' = [enrol EXCEPT ![e] = [at |-> "done", proofs |-> {}]]
  /\ UNCHANGED <<bridgeVars, tabVars, invalid, admins, postVars>>

\* The proofs do not pass, the human is invalidated, or the bridge cannot
\* verify them now.
RegisterRefused(e) ==
  /\ enrol[e].at = "fetched"
  /\ enrol' = [enrol EXCEPT ![e] = [at |-> "failed", proofs |-> {}]]
  /\ UNCHANGED <<bridgeVars, tabVars, regs, invalid, admins, departed, postVars>>

-----------------------------------------------------------------------------
(* The broker's records of a human.                                        *)

\* The agent answers; the counters stop mattering at the required ones.
CountAnswer(h) ==
  /\ regs[h] # None
  /\ \E signal \in 0..1 :
       /\ regs[h].total < RequiredTotal \/ (signal = 1 /\ regs[h].signal < RequiredSignal)
       /\ LET counted == [regs[h] EXCEPT !.total = @ + 1]
          IN  regs' = [regs EXCEPT ![h] = [counted EXCEPT !.signal = @ + signal]]
  /\ UNCHANGED <<bridgeVars, tabVars, enrol, invalid, admins, departed, postVars>>

\* The admin CLI's commands; see AdminStep.
GrantAdmin(h) ==
  /\ h \notin admins
  /\ admins' = admins \cup {h}
  /\ UNCHANGED <<bridgeVars, tabVars, enrol, regs, invalid, departed, postVars>>

RevokeAdmin(h) ==
  /\ h \in admins
  /\ admins' = admins \ {h}
  /\ UNCHANGED <<bridgeVars, tabVars, enrol, regs, invalid, departed, postVars>>

\* An on-chain invalidation: the tombstone, and the registration revoked with
\* its counters zeroed, which is as good as none: nobody returns from it.  The
\* listener's SELECT must be mended for it to happen (see SelfRevocations).
Invalidate(h) ==
  /\ h \notin invalid
  /\ invalid' = invalid \cup {h}
  /\ regs' = [regs EXCEPT ![h] = None]
  /\ UNCHANGED <<bridgeVars, tabVars, enrol, admins, departed, postVars>>

\* A token stands for the registration it must match; a session, which is
\* verified by the broker's signature alone, requires none.
TokenHolds(h) == regs[h] # None /\ h \notin invalid
SessionVerifies(s) == s # None /\ s.live
SessionHolds(s) == SessionVerifies(s) /\ s.human \notin invalid

\* authenticateIdentity: by either.
Authenticates(h) == TokenHolds(h) \/ \E v \in Tab : SessionHolds(session[v]) /\ session[v].human = h

\* (faulty variant: the asker rows keep the name)
UnlinkNobody(h) == askers

\* UPDATE askers SET unique_identifier = NULL WHERE unique_identifier = h.
Unlinked(h) == [i \in DOMAIN askers |->
                  IF askers[i].human = h THEN [askers[i] EXCEPT !.human = None] ELSE askers[i]]

\* POST /v1/account/delete.
DeleteAccount(h) ==
  /\ Authenticates(h)
  /\ regs' = [regs EXCEPT ![h] = None]
  /\ admins' = admins \ {h}
  /\ askers' = Unlinked(h)
  /\ departed' = departed \cup {h}
  /\ UNCHANGED <<bridgeVars, tabVars, enrol, invalid, posting, slots>>

-----------------------------------------------------------------------------
(* The gate: who may ask.                                                  *)

Counts(h) ==
  IF regs[h] = None THEN [total |-> 0, signal |-> 0]
  ELSE [total |-> regs[h].total, signal |-> regs[h].signal]

\* evaluateAskerEligibility.
CanAsk(counts, isAdmin) ==
  isAdmin \/ (counts.total >= RequiredTotal /\ counts.signal >= RequiredSignal)

IsAskerAdmin(h) == h \in admins

\* The environment's administrators and the database's; a failed look-up of
\* the latter counts as no.
MayBeAdmin(h) == IF h \in EnvAdmins THEN {TRUE} ELSE {FALSE, IsAskerAdmin(h)}

-----------------------------------------------------------------------------
(* The tab: ask-gate.tsx.                                                  *)

\* AskGate mounts: a saved session that has not expired opens the form.
Visit(v) ==
  /\ step[v] = "away"
  /\ IF saved[v] # None /\ saved[v].live
     THEN /\ step' = [step EXCEPT ![v] = "form"]
          /\ session' = [session EXCEPT ![v] = saved[v]]
          /\ UNCHANGED saved
     ELSE /\ step' = [step EXCEPT ![v] = "intro"]
          /\ saved' = [saved EXCEPT ![v] = None]
          /\ UNCHANGED session
  /\ UNCHANGED <<bridgeVars, shown, failed, replies, dbVars, postVars>>

\* Another step, and with it another or no scan stage.
GoTo(v, s) ==
  /\ step' = [step EXCEPT ![v] = s]
  /\ shown' = [shown EXCEPT ![v] = None]
  /\ failed' = [failed EXCEPT ![v] = FALSE]

\* The page is reloaded, or left for another of the app, when an answer that is
\* being read still comes through: what is not in sessionStorage is lost.
Leave(v) ==
  /\ step[v] # "away"
  /\ GoTo(v, "away")
  /\ session' = [session EXCEPT ![v] = None]
  /\ LET read == {m \in replies[v] : m.at # "sent"}
     IN  \E left \in {{}, {[m EXCEPT !.at = "left"] : m \in read}} :
           replies' = [replies EXCEPT ![v] = left]
  /\ UNCHANGED <<bridgeVars, saved, dbVars, postVars>>

\* The buttons: start, back, fill in.
Press(v) ==
  /\ \/ step[v] = "intro" /\ GoTo(v, "scan")
     \/ step[v] = "scan" /\ GoTo(v, "intro")
     \/ step[v] = "cleared" /\ GoTo(v, "scan")
     \/ step[v] = "cleared" /\ session[v] # None /\ GoTo(v, "form")
  /\ UNCHANGED <<bridgeVars, session, saved, replies, dbVars, postVars>>

\* "Try again" after a score that does not suffice.
Reset(v) ==
  /\ step[v] = "score"
  /\ GoTo(v, "intro")
  /\ session' = [session EXCEPT ![v] = None]
  /\ saved' = [saved EXCEPT ![v] = None]
  /\ UNCHANGED <<bridgeVars, replies, dbVars, postVars>>

\* login/start: a request under a key nobody keeps, profile minimal.
LoginStart(r) == PostRequest(r)

\* The scan stage asks for a link and shows it.  The id is random: which fresh
\* one it is does not matter.
ShowLink(v) ==
  /\ step[v] = "scan" /\ shown[v] = None /\ ~failed[v]
  /\ Login \ minted # {}
  /\ LET r == CHOOSE x \in Login \ minted : TRUE
     IN  LoginStart(r) /\ shown' = [shown EXCEPT ![v] = r]
  /\ UNCHANGED <<step, failed, session, saved, replies, dbVars, postVars>>

StartFails(v) ==
  /\ step[v] = "scan" /\ shown[v] = None /\ ~failed[v]
  /\ failed' = [failed EXCEPT ![v] = TRUE]
  /\ UNCHANGED <<bridgeVars, step, shown, session, saved, replies, dbVars, postVars>>

\* A session for h and its score, by what the look-up of h's rank returns.
Welcome(r, h) ==
  {[request |-> r, human |-> h, cleared |-> CanAsk(Counts(h), a), at |-> "sent"] :
     a \in MayBeAdmin(h)}

\* (faulty variant: a proof that does not hold is waited out)
VerifiedStatus(r) ==
  UNION {Welcome(r, h) : h \in {x \in Identifiers(r) : AllVerified(r) /\ x \notin invalid}}

\* login/:id/status of a complete request: failed, or a session and the score.
Status(r) ==
  IF ~AllVerified(r) \/ Identifiers(r) \cap invalid # {}
  THEN {[request |-> r, human |-> None, cleared |-> FALSE, at |-> "sent"]}
  ELSE UNION {Welcome(r, h) : h \in Identifiers(r)}

\* The interval fires, answered or not; only the answer to a complete request
\* matters to the tab (pending, 404 and 502 are all polled on).
Poll(v) ==
  /\ shown[v] # None /\ ~failed[v]
  /\ Complete(shown[v])
  /\ \E m \in Status(shown[v]) : replies' = [replies EXCEPT ![v] = @ \cup {m}]
  /\ UNCHANGED <<bridgeVars, step, shown, failed, session, saved, dbVars, postVars>>

\* An answer arrives: of a stage that is gone it is dropped, else its body is read.
Arrive(v, m) ==
  /\ m \in replies[v] /\ m.at = "sent"
  /\ replies' = [replies EXCEPT ![v] =
       IF shown[v] = m.request THEN (@ \ {m}) \cup {[m EXCEPT !.at = "read"]} ELSE @ \ {m}]
  /\ UNCHANGED <<bridgeVars, step, shown, failed, session, saved, dbVars, postVars>>

\* Its body has been read, and whether the stage is still there is not asked
\* again: a failed one ends the polling of its own stage only ...
ApplyFailed(v, m) ==
  /\ m \in replies[v] /\ m.at # "sent" /\ m.human = None
  /\ replies' = [replies EXCEPT ![v] = @ \ {m}]
  /\ failed' = [failed EXCEPT ![v] = @ \/ shown[v] = m.request]
  /\ UNCHANGED <<bridgeVars, step, shown, session, saved, dbVars, postVars>>

\* ... and a verified one brings the session, and the score in place of whatever
\* the gate shows; an open form stays, and a page left keeps the session alone.
ApplyVerified(v, m) ==
  /\ m \in replies[v] /\ m.at # "sent" /\ m.human # None
  /\ replies' = [replies EXCEPT ![v] = @ \ {m}]
  /\ LET s == [human |-> m.human, live |-> TRUE]
     IN  /\ saved' = [saved EXCEPT ![v] = s]
         /\ session' = IF m.at = "left" THEN session ELSE [session EXCEPT ![v] = s]
  /\ IF m.at = "left" \/ step[v] = "form" THEN UNCHANGED <<step, shown, failed>>
     ELSE GoTo(v, IF m.cleared THEN "cleared" ELSE "score")
  /\ UNCHANGED <<bridgeVars, dbVars, postVars>>

Apply(v, m) == ApplyFailed(v, m) \/ ApplyVerified(v, m)

\* Thirty minutes.
Expired(s) == IF s = None THEN None ELSE [s EXCEPT !.live = FALSE]

SessionExpires(v) ==
  /\ session[v] # None \/ saved[v] # None
  /\ session' = [session EXCEPT ![v] = Expired(@)]
  /\ saved' = [saved EXCEPT ![v] = Expired(@)]
  /\ <<session, saved>>' # <<session, saved>>
  /\ UNCHANGED <<bridgeVars, step, shown, failed, replies, dbVars, postVars>>

-----------------------------------------------------------------------------
(* Posting a question: create-question.ts.                                 *)

\* The gate let h through just now.
LetThrough(v, h) ==
  \E admin \in MayBeAdmin(h) :
    /\ CanAsk(Counts(h), admin)
    /\ posting' = [posting EXCEPT ![v] = [human |-> h, stage |-> "asker",
                                          wasMember |-> h \notin departed, admin |-> admin]]

\* (faulty variant: the window is not checked)
TakeAnySlot(v) == slots' = [slots EXCEPT ![v] = @ + 1]

\* The rate limiter comes first.
TakeSlot(v) == slots[v] < QuestionLimit /\ slots' = [slots EXCEPT ![v] = @ + 1]

WindowSlides(v) ==
  /\ slots[v] > 0
  /\ slots' = [slots EXCEPT ![v] = @ - 1]
  /\ UNCHANGED <<bridgeVars, tabVars, dbVars, posting, askers>>

\* createQuestionAction, up to the gate: with the form's session, or with a
\* token pasted into it.
Post(v) ==
  /\ posting[v] = None
  /\ Len(askers) < MaxQuestions
  /\ TakeSlot(v)
  /\ \/ step[v] = "form" /\ SessionHolds(session[v]) /\ LetThrough(v, session[v].human)
     \/ \E h \in Human : TokenHolds(h) /\ LetThrough(v, h)
  /\ UNCHANGED <<bridgeVars, tabVars, dbVars, askers>>

\* A form that is not valid, or that the gate refuses, has taken a slot too.
PostRefused(v) ==
  /\ posting[v] = None
  /\ TakeSlot(v)
  /\ UNCHANGED <<bridgeVars, tabVars, dbVars, posting, askers>>

\* createQuestion: the asker's row, then the question's, in no transaction.
InsertAsker(v) ==
  /\ posting[v] # None /\ posting[v].stage = "asker"
  /\ Len(askers) < MaxQuestions
  /\ askers' = Append(askers, [human |-> posting[v].human,
                               late |-> posting[v].wasMember /\ posting[v].human \in departed,
                               admin |-> posting[v].admin])
  /\ posting' = [posting EXCEPT ![v].stage = "question"]
  /\ UNCHANGED <<bridgeVars, tabVars, dbVars, slots>>

\* The question's row and the redirect; or the process dies at either stage.
Posted(v) ==
  /\ posting[v] # None
  /\ posting' = [posting EXCEPT ![v] = None]
  /\ UNCHANGED <<bridgeVars, tabVars, dbVars, askers, slots>>

-----------------------------------------------------------------------------
EnrolStep ==
  \E e \in Enrolment :
    BeginOnboarding(e) \/ FetchBundles(e) \/ GiveUp(e) \/ Register(e) \/ RegisterRefused(e)

OutsideStep ==
  /\ \/ BridgeRestarts /\ UNCHANGED acts
     \/ (\E h \in Human, r \in Request : Scan(h, r)) /\ Act
  /\ UNCHANGED <<tabVars, dbVars, postVars>>

AgentStep == \E h \in Human : CountAnswer(h)

AdminStep(h) == GrantAdmin(h) \/ RevokeAdmin(h)

RecordStep ==
  \E h \in Human :
    \/ DeleteAccount(h) /\ UNCHANGED acts
    \/ (AdminStep(h) \/ Invalidate(h)) /\ Act

TabStep ==
  \E v \in Tab :
    \/ Visit(v) \/ Press(v) \/ StartFails(v)
    \/ ShowLink(v) \/ Poll(v)
    \/ \E m \in replies[v] : Arrive(v, m) \/ Apply(v, m)

VisitorStep ==
  \E v \in Tab : Leave(v) \/ Reset(v) \/ SessionExpires(v) \/ WindowSlides(v)

PostStep == \E v \in Tab : Post(v) \/ PostRefused(v) \/ InsertAsker(v) \/ Posted(v)

Next ==
  \/ BridgeStep /\ UNCHANGED <<tabVars, dbVars, postVars, acts>>
  \/ (EnrolStep \/ AgentStep \/ TabStep \/ PostStep \/ VisitorStep) /\ UNCHANGED acts
  \/ OutsideStep \/ RecordStep

Spec == Init /\ [][Next]_signInVars

\* The tab's interval keeps firing, and every now and then an answer of the
\* broker comes through.
FairSpec ==
  /\ Spec
  /\ \A v \in Tab : WF_signInVars(Poll(v) /\ UNCHANGED acts)
                    /\ WF_signInVars((\E m \in replies[v] : Arrive(v, m)) /\ UNCHANGED acts)
                    /\ WF_signInVars((\E m \in replies[v] : Apply(v, m)) /\ UNCHANGED acts)

-----------------------------------------------------------------------------
\* One human, one registration: its country and its age band are those of the
\* human's passport.  The proofs of a request come from scans by anybody, in any
\* order, and a later scan of a link replaces the result of an earlier one, so
\* without a check those of two humans would make one registration (server.js:361,
\* selfIdentity.ts:109).  The upper bound of a band is concluded from a proof that
\* is missing (predicates.ts:130): it holds as no request is complete without a
\* proof of every step, and the bridge's steps are the broker's (LadderInSync).
RegistrationTrue ==
  \A h \in Human : regs[h] # None =>
    /\ regs[h].country = Nationality[h]
    /\ Age[h] >= regs[h].band.from
    /\ regs[h].band.below # None => Age[h] < regs[h].band.below

\* Graceful degradation: once a human has proved every step of the ladder that
\* the human's age reaches, the scans are done and the enrolment can go on
\* (server.js:397, which waits for the steps beyond it too).
AdultProofSuffices ==
  \A e \in Enrolment, h \in Human :
    LET reached == {t \in Thresholds(e) : Age[h] >= t}
        proved == {t \in DOMAIN pending[e] : pending[e][t].human = h /\ pending[e][t].valid}
    IN  pending[e] # NoEntry /\ 18 \in reached /\ reached \subseteq proved => Complete(e)

\* A deletion leaves no question that names its author, unless the question
\* was past the gate by then, or is an administrator's, whom the operator may
\* let ask without an account (queries.ts:444, create-question.ts:58).  With
\* both required counts at 0 anybody may ask, deleted or not.
DeletedUnlinked ==
  \A i \in DOMAIN askers :
    askers[i].human \in departed => askers[i].late \/ askers[i].admin

\* A tab that shows a link does not wait for ever once the proof is in: it
\* comes to a score or an error, is left, or the bridge has lost the request,
\* which is the one way to wait in vain (ask-gate.tsx:574, server.js:303).
LoginEnds ==
  \A v \in Tab, r \in Login :
    (shown[v] = r /\ Complete(r)) ~> (shown[v] # r \/ failed[v] \/ pending[r] = NoEntry)
=============================================================================
