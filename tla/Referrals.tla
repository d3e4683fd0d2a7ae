----------------------------- MODULE Referrals ------------------------------
(***************************************************************************)
(* Referral codes, the referral graph, reputation and board seats          *)
(* (packages/broker/src/queries.ts from countLiveReferralCodes on,         *)
(* routes/referrals.ts, routes/board.ts, and the parts of routes/          *)
(* register.ts, envelopes.ts and account.ts that touch them).              *)
(*                                                                         *)
(* The five tables are one function db from row keys to rows.  A request   *)
(* of slot t moves through the statements of its handler, and its          *)
(* transaction writes in work[t] until it commits; a row another           *)
(* transaction has written, or locked by SELECT .. FOR UPDATE (modelled as *)
(* writing it back), makes a writer wait.  create and claim run without a  *)
(* transaction: each of their statements commits by itself.                *)
(*                                                                         *)
(* Of an answer only what it adds to the two counters of its human is      *)
(* kept: AnswerStore has the rest of that transaction.                     *)
(***************************************************************************)
EXTENDS Integers, FiniteSets

CONSTANTS Human, Code, Tx,
          NoRow, Untouched, NoRequest,
          RequiredTotal, RequiredSignal,  \* askerUnlock.. thresholds
          RepPerReferral,                 \* repPerActiveReferral
          BoardThreshold,                 \* repBoardThreshold
          MaxActiveCodes,                 \* referralMaxActiveCodes
          Referrer, Referee, Leaver,      \* bounds: who mints codes, who
                                          \* registers, who deletes the account
          MaxAnswers, MaxLives            \* bounds: answers and lives of a human

Tier         == {"none", "bronze", "silver", "gold", "board"}
Registration == [total : Nat, signal : Nat]
Referral     == [referrer : Human, code : Code, state : {"pending", "active"}]
CodeRow      == [referrer : Human, used : Nat]
Reputation   == [active : Nat, score : Nat, tier : Tier]
Seat         == [member |-> TRUE]
Row          == Registration \cup Referral \cup CodeRow \cup Reputation \cup {Seat}

ASSUME ReferralAssumption ==
  /\ IsFiniteSet(Human)
  /\ NoRow \notin Row \cup Code
  /\ Untouched \notin Row \cup {NoRow}
  /\ RequiredTotal \in Nat \ {0}
  /\ RequiredSignal \in Nat
  /\ RepPerReferral \in Nat \ {0}
  /\ BoardThreshold \in Nat \ {0}
  /\ MaxActiveCodes \in Nat
  /\ Referrer \cup Referee \cup Leaver \subseteq Human
  /\ MaxAnswers \in Nat
  /\ MaxLives \in Nat

VARIABLES
  db,        \* db[k]: the committed row with key k
  work,      \* work[t][k]: what the transaction of t has written
  pc, req,   \* where the request of t is, and what it asks
  issued,    \* codes generated so far (never generated twice)
  expired,   \* codes past their expires_at
  lives,     \* history: registrations created for a human
  credits,   \* history: credits a human has earned a referrer
  departed   \* history: humans who have deleted their account

clocks  == <<issued, expired>>
history == <<lives, credits, departed>>
vars    == <<db, work, pc, req, clocks, history>>

\* tierForScore: the board, or the highest milestone reached.
TierForScore(score) ==
  CASE score >= BoardThreshold -> "board"
    [] score >= 6 /\ score < BoardThreshold -> "gold"
    [] score >= 3 /\ score < 6 /\ score < BoardThreshold -> "silver"
    [] score >= 1 /\ score < 3 /\ score < BoardThreshold -> "bronze"
    [] OTHER -> "none"

MaxUses == 1

RegistrationOf(h) == <<"registrations", h>>
ReferralOf(h)     == <<"referrals", h>>           \* keyed by the referee
ReputationOf(h)   == <<"reputation", h>>
SeatOf(h)         == <<"board_members", h>>
CodeOf(c)         == <<"referral_codes", c>>

Key == ({"registrations", "referrals", "reputation", "board_members"} \X Human)
         \cup ({"referral_codes"} \X Code)

\* What a row of table k[1] may be.
RowType(k) ==
  CASE k[1] = "registrations"  -> Registration
    [] k[1] = "referrals"      -> Referral
    [] k[1] = "reputation"     -> Reputation
    [] k[1] = "board_members"  -> {Seat}
    [] k[1] = "referral_codes" -> CodeRow

Request ==
  [op : {"create", "claim", "delete"}, human : Human]
    \cup [op : {"register"}, human : Human, code : Code \cup {NoRow}, stale : BOOLEAN]
    \cup [op : {"submit", "revoke"}, human : Human, total : {-1, 0, 1},
          signal : {-1, 0, 1}]

DeleteStage == {"delReputation", "delSeat", "delCodes", "delReferrals",
                "delRegistration"}
Stage == {"idle", "insertCode", "seat", "upsert", "lockCode", "redeem", "count",
          "activate", "credit", "commit"} \cup DeleteStage

ReferralTypeOK ==
  /\ db \in [Key -> Row \cup {NoRow}]
  /\ work \in [Tx -> [Key -> Row \cup {NoRow, Untouched}]]
  /\ \A k \in Key : db[k] \in RowType(k) \cup {NoRow}
  /\ \A t \in Tx, k \in Key : work[t][k] \in RowType(k) \cup {NoRow, Untouched}
  /\ pc \in [Tx -> Stage]
  /\ req \in [Tx -> Request \cup {NoRequest}]
  /\ \A t \in Tx : pc[t] # "idle" => req[t] \in Request
  /\ issued \subseteq Code
  /\ expired \subseteq issued
  /\ lives \in [Human -> Nat]
  /\ credits \in [Human -> Nat]
  /\ departed \subseteq Human

Init ==
  /\ db = [k \in Key |-> NoRow]
  /\ work = [t \in Tx |-> [k \in Key |-> Untouched]]
  /\ pc = [t \in Tx |-> "idle"]
  /\ req = [t \in Tx |-> NoRequest]
  /\ issued = {}
  /\ expired = {}
  /\ lives = [h \in Human |-> 0]
  /\ credits = [h \in Human |-> 0]
  /\ departed = {}

-----------------------------------------------------------------------------
(* Rows, statements and transactions.                                      *)

Busy(t, k)    == \E s \in Tx \ {t} : work[s][k] # Untouched
Visible(t, k) == IF work[t][k] # Untouched THEN work[t][k] ELSE db[k]

Goto(t, stage) == pc' = [pc EXCEPT ![t] = stage]

\* A statement of t that writes one row and goes on.
Write(t, k, row, stage) ==
  /\ ~Busy(t, k)
  /\ work' = [work EXCEPT ![t][k] = row]
  /\ Goto(t, stage)
  /\ UNCHANGED <<db, req, clocks, history>>

\* A statement of t that touches no row.
Skip(t, stage) == Goto(t, stage) /\ UNCHANGED <<db, work, req, clocks, history>>

\* The request of t is answered or dropped.
Finish(t) ==
  /\ Goto(t, "idle")
  /\ req' = [req EXCEPT ![t] = NoRequest]
  /\ work' = [work EXCEPT ![t] = [k \in Key |-> Untouched]]

\* A request whose checks have passed.
Begin(t, request, stage) ==
  /\ pc[t] = "idle"
  /\ req' = [req EXCEPT ![t] = request]
  /\ Goto(t, stage)
  /\ UNCHANGED <<db, work, clocks, history>>

\* A single statement outside a transaction, the last of its request.
Autocommit(t, k, row) ==
  /\ ~Busy(t, k)
  /\ db' = [db EXCEPT ![k] = row]
  /\ Finish(t)
  /\ UNCHANGED history

-----------------------------------------------------------------------------
(* POST /v1/referrals/create: count the live codes, then insert one more.  *)

LiveCodes(h) ==
  {c \in Code \ expired : /\ db[CodeOf(c)] # NoRow
                          /\ db[CodeOf(c)].referrer = h
                          /\ db[CodeOf(c)].used < MaxUses}

\* An asker session identifies h without a registration.
CreateCode(t, h) ==
  /\ h \in Referrer
  /\ Cardinality(LiveCodes(h)) < MaxActiveCodes
  /\ Begin(t, [op |-> "create", human |-> h], "insertCode")

InsertCode(t, h) ==
  /\ pc[t] = "insertCode"
  /\ \E c \in Code \ issued :
       /\ Autocommit(t, CodeOf(c), [referrer |-> h, used |-> 0])
       /\ issued' = issued \cup {c}
  /\ UNCHANGED expired

Expire(c) ==
  /\ c \in issued \ expired
  /\ expired' = expired \cup {c}
  /\ UNCHANGED <<db, work, pc, req, issued, history>>

-----------------------------------------------------------------------------
(* POST /v1/register, with an optional code: upsertRegistration, and for a *)
(* row that was created redeemReferralCode, in one transaction.            *)

\* The handler reads the clock before its transaction.
Register(t, h, c) ==
  /\ h \in Referee
  /\ Begin(t, [op |-> "register", human |-> h, code |-> c, stale |-> c \in expired],
           "upsert")

UpsertRegistration(t, h) ==
  LET old == db[RegistrationOf(h)]
  IN /\ pc[t] = "upsert"
     /\ \/ /\ old = NoRow
           /\ lives[h] < MaxLives
           /\ Write(t, RegistrationOf(h), [total |-> 0, signal |-> 0],
                    IF req[t].code # NoRow THEN "lockCode" ELSE "commit")
        \/ old # NoRow /\ Write(t, RegistrationOf(h), old, "commit")

\* (faulty variant: no FOR UPDATE)
ReadCodeWithoutLock(t, h) ==
  LET row == db[CodeOf(req[t].code)]
      redeemable == ~req[t].stale /\ row.used < MaxUses /\ row.referrer # h
  IN /\ pc[t] = "lockCode"
     /\ Skip(t, IF row # NoRow /\ redeemable THEN "redeem" ELSE "commit")

\* SELECT .. FOR UPDATE of the code, and the checks on what it returned.
LockCode(t, h) ==
  LET row == db[CodeOf(req[t].code)]
      redeemable == ~req[t].stale /\ row.used < MaxUses /\ row.referrer # h
  IN /\ pc[t] = "lockCode"
     /\ IF row = NoRow
        THEN Skip(t, "commit")
        ELSE Write(t, CodeOf(req[t].code), row,
                   IF redeemable THEN "redeem" ELSE "commit")

\* INSERT the pending referral, ON CONFLICT DO NOTHING, and use the code up.
Redeem(t, h) ==
  LET code == Visible(t, CodeOf(req[t].code))
      edge == [referrer |-> code.referrer, code |-> req[t].code,
               state |-> "pending"]
  IN /\ pc[t] = "redeem"
     /\ ~Busy(t, ReferralOf(h))
     /\ IF db[ReferralOf(h)] = NoRow
        THEN /\ ~Busy(t, CodeOf(req[t].code))
             /\ work' = [work EXCEPT ![t][ReferralOf(h)] = edge,
                                     ![t][CodeOf(req[t].code)] =
                                        [code EXCEPT !.used = @ + 1]]
        ELSE UNCHANGED work
     /\ Goto(t, "commit")
     /\ UNCHANGED <<db, req, clocks, history>>

-----------------------------------------------------------------------------
(* POST /v1/envelopes and /revoke: the counters, then the activation.      *)

\* A new answer, one that replaces another, or a revocation; total and signal
\* are what adjustAnswerCounters is called with.
Answer(t, h, op, total, signal) ==
  /\ db[RegistrationOf(h)] # NoRow
  /\ Begin(t, [op |-> op, human |-> h, total |-> total, signal |-> signal],
           IF total = 0 /\ signal = 0 THEN "activate" ELSE "count")

Submit(t, h) ==
  \E signal \in {0, 1} : Answer(t, h, "submit", 1, signal)
Override(t, h) ==
  \E signal \in {-1, 0, 1} : Answer(t, h, "submit", 0, signal)
Revoke(t, h) ==
  \E signal \in {0, -1} : Answer(t, h, "revoke", -1, signal)

\* (faulty variant: only a new answer is looked at for activation)
CountThenCommit(t, h) ==
  LET old  == db[RegistrationOf(h)]
      next == IF req[t].op = "submit" /\ req[t].total = 1 THEN "activate" ELSE "commit"
      total  == old.total + req[t].total
      signal == old.signal + req[t].signal
  IN /\ pc[t] = "count"
     /\ old # NoRow
     /\ total \in 0..MaxAnswers
     /\ signal \in 0..total
     /\ Write(t, RegistrationOf(h), [total |-> total, signal |-> signal], next)

\* adjustAnswerCounters.  The counters are those of stored answers, so what is
\* replaced or revoked was counted before.
Count(t, h) ==
  LET old  == db[RegistrationOf(h)]
      next == IF req[t].op = "submit" THEN "activate" ELSE "commit"
      total  == old.total + req[t].total
      signal == old.signal + req[t].signal
  IN /\ pc[t] = "count"
     /\ IF old = NoRow
        THEN Skip(t, next)
        ELSE /\ total \in 0..MaxAnswers
             /\ signal \in 0..total
             /\ Write(t, RegistrationOf(h), [total |-> total, signal |-> signal], next)

MeetsBar(reg) ==
  reg # NoRow /\ reg.total >= RequiredTotal /\ reg.signal >= RequiredSignal

\* (faulty variant: the state of the referral is not looked at)
ActivateAgain(t, h) ==
  LET edge == db[ReferralOf(h)]
  IN /\ pc[t] = "activate"
     /\ IF edge # NoRow /\ MeetsBar(Visible(t, RegistrationOf(h)))
        THEN Write(t, ReferralOf(h), [edge EXCEPT !.state = "active"], "credit")
        ELSE Skip(t, "commit")

\* creditReferralOnActivation: UPDATE a pending referral whose referee has
\* reached both thresholds.
Activate(t, h) ==
  LET edge == db[ReferralOf(h)]
  IN /\ pc[t] = "activate"
     /\ IF /\ edge # NoRow
           /\ edge.state = "pending"
           /\ MeetsBar(Visible(t, RegistrationOf(h)))
        THEN Write(t, ReferralOf(h), [edge EXCEPT !.state = "active"], "credit")
        ELSE Skip(t, "commit")

\* (faulty variant: the tier of the score before)
CreditedLateTier(rep) ==
  LET active == IF rep = NoRow THEN 1 ELSE rep.active + 1
      score  == IF rep = NoRow THEN RepPerReferral ELSE rep.score + RepPerReferral
  IN [active |-> active, score |-> score, tier |-> TierForScore(score - RepPerReferral)]

\* The score with one more activated referral; its tier is recomputed by a
\* second statement, on the row that is now locked.
Credited(rep) ==
  LET active == IF rep = NoRow THEN 1 ELSE rep.active + 1
      score  == IF rep = NoRow THEN RepPerReferral ELSE rep.score + RepPerReferral
  IN [active |-> active, score |-> score, tier |-> TierForScore(score)]

Credit(t, h) ==
  LET referrer == work[t][ReferralOf(h)].referrer
  IN /\ pc[t] = "credit"
     /\ Write(t, ReputationOf(referrer), Credited(db[ReputationOf(referrer)]), "commit")

-----------------------------------------------------------------------------
(* POST /v1/board/claim: read the score, then upsert the seat.             *)

\* (faulty variant: one short of the board is enough)
ClaimEarly(t, h) ==
  /\ db[ReputationOf(h)] # NoRow
  /\ db[ReputationOf(h)].score >= BoardThreshold - 1
  /\ Begin(t, [op |-> "claim", human |-> h], "seat")

Claim(t, h) ==
  /\ db[ReputationOf(h)] # NoRow
  /\ db[ReputationOf(h)].score >= BoardThreshold
  /\ Begin(t, [op |-> "claim", human |-> h], "seat")

TakeSeat(t, h) ==
  /\ pc[t] = "seat"
  /\ Autocommit(t, SeatOf(h), Seat)
  /\ UNCHANGED clocks

-----------------------------------------------------------------------------
(* POST /v1/account/delete: the rows that name h, table by table.          *)

Delete(t, h) ==
  /\ h \in Leaver
  /\ Begin(t, [op |-> "delete", human |-> h], "delReputation")

DeleteThen == [delReputation |-> "delSeat", delSeat |-> "delCodes",
               delCodes |-> "delReferrals", delReferrals |-> "delRegistration",
               delRegistration |-> "commit"]

\* The committed rows that the DELETE of each stage matches.
Named(stage, h) ==
  CASE stage = "delReputation"   -> {ReputationOf(h)}
    [] stage = "delSeat"         -> {SeatOf(h)}
    [] stage = "delCodes"        -> {k \in {CodeOf(c) : c \in Code} :
                                       db[k] # NoRow /\ db[k].referrer = h}
    [] stage = "delReferrals"    -> {k \in {ReferralOf(g) : g \in Human} :
                                       /\ db[k] # NoRow
                                       /\ k = ReferralOf(h) \/ db[k].referrer = h}
    [] stage = "delRegistration" -> {RegistrationOf(h)}

DeleteRows(t, h) ==
  LET doomed == {k \in Named(pc[t], h) : db[k] # NoRow}
  IN /\ pc[t] \in DeleteStage
     /\ \A k \in doomed : ~Busy(t, k)
     /\ work' = [work EXCEPT ![t] =
                   [k \in Key |-> IF k \in doomed THEN NoRow ELSE @[k]]]
     /\ Goto(t, DeleteThen[pc[t]])
     /\ UNCHANGED <<db, req, clocks, history>>

-----------------------------------------------------------------------------
\* COMMIT, for the requests that run in a transaction.
Commit(t, h) ==
  /\ pc[t] = "commit"
  /\ db' = [k \in Key |-> Visible(t, k)]
  /\ Finish(t)
  /\ lives' = IF req[t].op = "register" /\ db[RegistrationOf(h)] = NoRow
              THEN [lives EXCEPT ![h] = @ + 1] ELSE lives
  /\ credits' = IF req[t].op = "submit" /\ work[t][ReferralOf(h)] # Untouched
                THEN [credits EXCEPT ![h] = @ + 1] ELSE credits
  /\ departed' = IF req[t].op = "delete" THEN departed \cup {h} ELSE departed
  /\ UNCHANGED clocks

\* ROLLBACK, or the process dies between two statements.
Abort(t) ==
  /\ pc[t] # "idle"
  /\ Finish(t)
  /\ UNCHANGED <<db, clocks, history>>

Ask(t, h) ==
  \/ CreateCode(t, h)
  \/ \E c \in issued \cup {NoRow} : Register(t, h, c)
  \/ Submit(t, h)
  \/ Override(t, h)
  \/ Revoke(t, h)
  \/ Claim(t, h)
  \/ Delete(t, h)

Step(t, h) ==
  \/ InsertCode(t, h)
  \/ UpsertRegistration(t, h)
  \/ LockCode(t, h)
  \/ Redeem(t, h)
  \/ Count(t, h)
  \/ Activate(t, h)
  \/ Credit(t, h)
  \/ TakeSeat(t, h)
  \/ DeleteRows(t, h)
  \/ Commit(t, h)

Next ==
  \/ \E t \in Tx :
       \/ \E h \in Human : Ask(t, h)
       \/ pc[t] # "idle" /\ Step(t, req[t].human)
       \/ Abort(t)
  \/ \E c \in Code : Expire(c)

Spec == Init /\ [][Next]_vars

-----------------------------------------------------------------------------
(* Properties that hold.                                                   *)

Edge(h)       == db[ReferralOf(h)]
ReferredBy(r) == {h \in Human : Edge(h) # NoRow /\ Edge(h).referrer = r}
ActiveFor(r)  == {h \in ReferredBy(r) : Edge(h).state = "active"}

\* A code attributes at most MaxUses humans, however many register with it at
\* once: "two concurrent redemptions of the same single-use code can't both
\* pass the use-count check" (queries.ts), and nobody is their own referrer.
CodeSingleUse ==
  \A c \in Code :
    LET redeemers == {h \in Human : Edge(h) # NoRow /\ Edge(h).code = c}
    IN /\ db[CodeOf(c)] # NoRow =>
            /\ Cardinality(redeemers) <= db[CodeOf(c)].used
            /\ db[CodeOf(c)].used <= MaxUses
       /\ \A h \in redeemers : Edge(h).referrer # h

\* "only the first crossing flips the edge, so the referrer is credited exactly
\* once" (queries.ts): at most once for each time the human was registered.
CreditedOncePerLife == \A h \in Human : credits[h] <= lives[h]

\* No activation is missed: a committed referral is pending only while its
\* referee is below the bar, even if the answers that reach it are concurrent.
PendingBelowBar ==
  \A h \in Human :
    Edge(h) # NoRow /\ MeetsBar(db[RegistrationOf(h)]) => Edge(h).state = "active"

\* The reputation of a referrer is that of the activated referrals, all of
\* them counted once; only a referee who deleted the account is counted
\* without a referral.
ReputationBacked ==
  \A r \in Human \ departed :
    LET rep    == db[ReputationOf(r)]
        active == IF rep = NoRow THEN 0 ELSE rep.active
    IN /\ rep # NoRow => /\ rep.score = rep.active * RepPerReferral
                         /\ rep.tier = TierForScore(rep.score)
       /\ active >= Cardinality(ActiveFor(r))
       /\ departed = {} => active = Cardinality(ActiveFor(r))

\* A seat on the board is held by someone with the reputation it takes, and
\* can not outlive it while its holder keeps the account.
BoardSeatsEarned ==
  \A h \in Human \ departed :
    db[SeatOf(h)] # NoRow => /\ db[ReputationOf(h)] # NoRow
                             /\ db[ReputationOf(h)].score >= BoardThreshold

-----------------------------------------------------------------------------
(* Why they hold: no two transactions write the same row, and each knows   *)
(* what the rows it has written were, and what its commit makes of them.   *)

WriteExclusive ==
  \A s, t \in Tx, k \in Key :
    s # t => work[s][k] = Untouched \/ work[t][k] = Untouched

Wrote(t, k) == work[t][k] # Untouched

\* Which request is at which stage.
Staged(t) ==
  /\ pc[t] = "insertCode" => req[t].op = "create"
  /\ pc[t] = "seat" => req[t].op = "claim"
  /\ pc[t] \in {"upsert", "lockCode", "redeem"} => req[t].op = "register"
  /\ pc[t] = "count" => req[t].op \in {"submit", "revoke"}
  /\ pc[t] \in {"activate", "credit"} => req[t].op = "submit"
  /\ pc[t] \in DeleteStage => req[t].op = "delete"
  /\ pc[t] = "commit" => req[t].op \in {"register", "submit", "revoke", "delete"}

\* A registration writes the row of h, locks the code, and makes its one use
\* and the pending referral together.
Registering(t, h, c) ==
  LET reg == RegistrationOf(h)
      ref == ReferralOf(h)
      code == CodeOf(c)
  IN /\ \A k \in Key : Wrote(t, k) => k \in {reg, ref} \/ (c # NoRow /\ k = code)
     /\ pc[t] = "upsert" => \A k \in Key : ~Wrote(t, k)
     /\ pc[t] # "upsert" =>
          \/ db[reg] = NoRow /\ work[t][reg] = [total |-> 0, signal |-> 0]
          \/ /\ db[reg] # NoRow /\ work[t][reg] = db[reg]
             /\ pc[t] = "commit" /\ ~Wrote(t, ref)
     /\ pc[t] \in {"lockCode", "redeem"} => c # NoRow /\ ~Wrote(t, ref)
     /\ pc[t] = "lockCode" => ~Wrote(t, code)
     /\ pc[t] = "redeem" => /\ Wrote(t, code) /\ db[code] # NoRow
                            /\ db[code].used < MaxUses /\ db[code].referrer # h
     /\ ~Wrote(t, ref) /\ c # NoRow /\ Wrote(t, code) =>
          db[code] # NoRow /\ work[t][code] = db[code]
     /\ Wrote(t, ref) =>
          /\ c # NoRow /\ db[ref] = NoRow /\ db[code] # NoRow
          /\ db[code].used < MaxUses /\ db[code].referrer # h
          /\ work[t][ref] = [referrer |-> db[code].referrer, code |-> c,
                             state |-> "pending"]
          /\ work[t][code] = [referrer |-> db[code].referrer,
                              used |-> db[code].used + 1]

\* A submit or a revocation moves the counters; a submit whose counters reach
\* the bar flips a pending referral and credits its referrer.
CountingAnswer(t, h) ==
  LET reg == RegistrationOf(h)
      ref == ReferralOf(h)
      rep == ReputationOf(db[ref].referrer)
  IN /\ \A k \in Key : Wrote(t, k) => k \in {reg, ref} \/ (Wrote(t, ref) /\ k = rep)
     /\ pc[t] = "count" => \A k \in Key : ~Wrote(t, k)
     /\ req[t].op = "revoke" => req[t].total <= 0 /\ req[t].signal <= 0
     /\ Wrote(t, reg) =>
          /\ db[reg] # NoRow /\ work[t][reg] # NoRow
          /\ req[t].op = "revoke" => /\ work[t][reg].total <= db[reg].total
                                     /\ work[t][reg].signal <= db[reg].signal
     /\ Wrote(t, ref) =>
          /\ req[t].op = "submit" /\ pc[t] \in {"credit", "commit"}
          /\ db[ref] # NoRow /\ db[ref].state = "pending"
          /\ work[t][ref] = [referrer |-> db[ref].referrer, code |-> db[ref].code,
                             state |-> "active"]
          /\ pc[t] = "credit" => ~Wrote(t, rep)
          /\ pc[t] = "commit" => work[t][rep] = Credited(db[rep])
     /\ pc[t] = "credit" => Wrote(t, ref)
     /\ /\ pc[t] = "commit" /\ req[t].op = "submit"
        /\ Wrote(t, reg) /\ MeetsBar(work[t][reg])
        /\ db[ref] # NoRow /\ db[ref].state = "pending"
        => Wrote(t, ref)

\* A deletion removes rows that name h and nothing else.
Deleting(t, h) ==
  \A k \in Key :
    Wrote(t, k) =>
      /\ work[t][k] = NoRow /\ db[k] # NoRow
      /\ k[1] \in {"registrations", "reputation", "board_members"} => k[2] = h
      /\ k[1] = "referrals" => k[2] = h \/ db[k].referrer = h

Course(t) ==
  /\ Staged(t)
  /\ pc[t] \in {"idle", "insertCode", "seat"} => \A k \in Key : ~Wrote(t, k)
  /\ pc[t] # "idle" =>
       /\ req[t].op = "register" => Registering(t, req[t].human, req[t].code)
       /\ req[t].op \in {"submit", "revoke"} => CountingAnswer(t, req[t].human)
       /\ req[t].op = "delete" => Deleting(t, req[t].human)

RequestsOnCourse == \A t \in Tx : Course(t)

\* A code is known by its row and by the referrals it made only after it was
\* issued, so a new code has made none.
CodesIssued ==
  /\ \A c \in Code : db[CodeOf(c)] # NoRow => c \in issued
  /\ \A h \in Human : Edge(h) # NoRow => Edge(h).code \in issued

\* The credit that a pending referral may still earn is counted.
CreditsBounded ==
  \A h \in Human :
    credits[h] + (IF Edge(h) # NoRow /\ Edge(h).state = "pending" THEN 1 ELSE 0)
      <= lives[h]

\* A claim that has been let through stays justified.
ClaimsEarned ==
  \A t \in Tx :
    pc[t] = "seat" /\ req[t].human \notin departed =>
      /\ db[ReputationOf(req[t].human)] # NoRow
      /\ db[ReputationOf(req[t].human)].score >= BoardThreshold

ReferralInvariant ==
  /\ ReferralTypeOK
  /\ WriteExclusive
  /\ RequestsOnCourse
  /\ CodesIssued
  /\ CodeSingleUse
  /\ CreditsBounded
  /\ PendingBelowBar
  /\ ReputationBacked
  /\ ClaimsEarned
  /\ BoardSeatsEarned

-----------------------------------------------------------------------------
(* A statement of the repository that the code does not keep: a referee's  *)
(* answer may activate the referral, and so insert the reputation row of   *)
(* its referrer, between two statements of the referrer's deleteAccount.   *)

\* deleteAccount "HARD-DELETES every nullifier-keyed PII row and leaves NO
\* record of the nullifier" (queries.ts): who deleted the account, and has
\* neither registered again nor minted a code since, has no reputation row.
DeletionErasesReputation ==
  \A h \in departed :
    /\ db[RegistrationOf(h)] = NoRow
    /\ \A c \in Code : db[CodeOf(c)] # NoRow => db[CodeOf(c)].referrer # h
    => db[ReputationOf(h)] = NoRow
=============================================================================
