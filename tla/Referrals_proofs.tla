-------------------------- MODULE Referrals_proofs --------------------------
(***************************************************************************)
(* ReferralInvariant, the invariant of Referrals, is inductive, for every  *)
(* number of humans, codes, request slots and answers, and every           *)
(* threshold; what the run checks follows from it.                         *)
(*                                                                         *)
(* A statement inside a transaction only writes in the workspace of its    *)
(* own request, on rows nobody else has written (Local), and keeps that    *)
(* request on its course: the lemmas that end in Keeps, with               *)
(* StatementKeeps.  What the tables become is decided by the commits.  The *)
(* course of a request leaves its commit one of five effects on the rows   *)
(* (CommitEffect), and each keeps what DataInvariant says of them.  The    *)
(* other requests stay on their courses because no row they have written   *)
(* changes, and because nobody makes a referral for a human whose row they *)
(* have written (UndisturbedCourse).                                       *)
(***************************************************************************)
EXTENDS Referrals, FiniteSetTheorems, TLAPS

\* The keys of the five tables are keys, and different rows have different keys.
LEMMA Keys ==
  /\ \A h \in Human : /\ RegistrationOf(h) \in Key /\ ReferralOf(h) \in Key
                      /\ ReputationOf(h) \in Key /\ SeatOf(h) \in Key
  /\ \A c \in Code : CodeOf(c) \in Key
  /\ \A g, h : /\ RegistrationOf(g) = RegistrationOf(h) <=> g = h
               /\ ReferralOf(g) = ReferralOf(h) <=> g = h
               /\ ReputationOf(g) = ReputationOf(h) <=> g = h
               /\ SeatOf(g) = SeatOf(h) <=> g = h
               /\ CodeOf(g) = CodeOf(h) <=> g = h
  /\ \A g, h : /\ RegistrationOf(g) \notin {ReferralOf(h), ReputationOf(h), SeatOf(h), CodeOf(h)}
               /\ ReferralOf(g) \notin {ReputationOf(h), SeatOf(h), CodeOf(h)}
               /\ ReputationOf(g) \notin {SeatOf(h), CodeOf(h)}
               /\ SeatOf(g) # CodeOf(h)
BY DEF RegistrationOf, ReferralOf, ReputationOf, SeatOf, CodeOf, Key

\* The marks for "no row" and "not written" are no rows.
LEMMA Marks ==
  /\ Untouched # NoRow
  /\ NoRow \notin Code
  /\ \A row \in Row : row # NoRow /\ row # Untouched
BY ReferralAssumption

\* Rows of every table are rows.
LEMMA RowTypes ==
  /\ \A h : RowType(RegistrationOf(h)) = Registration
  /\ \A h : RowType(ReferralOf(h)) = Referral
  /\ \A h : RowType(ReputationOf(h)) = Reputation
  /\ \A h : RowType(SeatOf(h)) = {Seat}
  /\ \A c : RowType(CodeOf(c)) = CodeRow
  /\ \A k \in Key : RowType(k) \subseteq Row
  /\ Registration \subseteq Row /\ Referral \subseteq Row /\ Reputation \subseteq Row
  /\ Seat \in Row /\ CodeRow \subseteq Row
<1>1. /\ \A h : RegistrationOf(h)[1] = "registrations"
      /\ \A h : ReferralOf(h)[1] = "referrals"
      /\ \A h : ReputationOf(h)[1] = "reputation"
      /\ \A h : SeatOf(h)[1] = "board_members"
      /\ \A c : CodeOf(c)[1] = "referral_codes"
  BY DEF RegistrationOf, ReferralOf, ReputationOf, SeatOf, CodeOf
<1>2. \A k \in Key : k[1] \in {"registrations", "referrals", "reputation",
                               "board_members", "referral_codes"}
  BY DEF Key
<1> HIDE DEF RegistrationOf, ReferralOf, ReputationOf, SeatOf, CodeOf
<1>3. /\ Registration \subseteq Row /\ Referral \subseteq Row /\ Reputation \subseteq Row
      /\ {Seat} \subseteq Row /\ CodeRow \subseteq Row
  BY DEF Row
<1>4. \A k : /\ k[1] = "registrations" => RowType(k) = Registration
             /\ k[1] = "referrals" => RowType(k) = Referral
             /\ k[1] = "reputation" => RowType(k) = Reputation
             /\ k[1] = "board_members" => RowType(k) = {Seat}
             /\ k[1] = "referral_codes" => RowType(k) = CodeRow
  BY DEF RowType
<1>5. \A k \in Key : RowType(k) \subseteq Row
  BY <1>2, <1>3, <1>4, Zenon
<1> QED
  BY <1>1, <1>3, <1>4, <1>5

\* What the committed rows and the rows in a workspace can be, table by table.
LEMMA RowsTyped ==
  ASSUME ReferralTypeOK
  PROVE  /\ \A h \in Human :
              /\ db[RegistrationOf(h)] \in Registration \cup {NoRow}
              /\ db[ReferralOf(h)] \in Referral \cup {NoRow}
              /\ db[ReputationOf(h)] \in Reputation \cup {NoRow}
              /\ db[SeatOf(h)] \in {Seat, NoRow}
         /\ \A c \in Code : db[CodeOf(c)] \in CodeRow \cup {NoRow}
         /\ \A t \in Tx, h \in Human :
              /\ work[t][RegistrationOf(h)] \in Registration \cup {NoRow, Untouched}
              /\ work[t][ReferralOf(h)] \in Referral \cup {NoRow, Untouched}
              /\ work[t][ReputationOf(h)] \in Reputation \cup {NoRow, Untouched}
         /\ \A t \in Tx, c \in Code : work[t][CodeOf(c)] \in CodeRow \cup {NoRow, Untouched}
<1> USE Keys, RowTypes
<1>1. /\ \A k \in Key : db[k] \in RowType(k) \cup {NoRow}
      /\ \A t \in Tx, k \in Key : work[t][k] \in RowType(k) \cup {NoRow, Untouched}
  BY DEF ReferralTypeOK
<1>2. \A h \in Human : /\ db[RegistrationOf(h)] \in Registration \cup {NoRow}
                       /\ db[ReferralOf(h)] \in Referral \cup {NoRow}
                       /\ db[ReputationOf(h)] \in Reputation \cup {NoRow}
                       /\ db[SeatOf(h)] \in {Seat, NoRow}
  BY <1>1
<1>3. \A c \in Code : db[CodeOf(c)] \in CodeRow \cup {NoRow}
  BY <1>1
<1>4. \A t \in Tx, h \in Human :
        /\ work[t][RegistrationOf(h)] \in Registration \cup {NoRow, Untouched}
        /\ work[t][ReferralOf(h)] \in Referral \cup {NoRow, Untouched}
        /\ work[t][ReputationOf(h)] \in Reputation \cup {NoRow, Untouched}
  BY <1>1
<1>5. \A t \in Tx, c \in Code : work[t][CodeOf(c)] \in CodeRow \cup {NoRow, Untouched}
  BY <1>1
<1> QED
  BY <1>2, <1>3, <1>4, <1>5

-----------------------------------------------------------------------------
(* Statements of a transaction.                                            *)

\* What every statement inside a transaction leaves alone: the tables, the other
\* requests, and the rows others have written.
Workplace == Stage \ {"idle", "insertCode", "seat"}

Local(t) ==
  /\ UNCHANGED <<db, req, issued, expired, lives, credits, departed>>
  /\ \A s \in Tx \ {t} : work'[s] = work[s] /\ pc'[s] = pc[s]
  /\ \A k \in Key : work'[t][k] # work[t][k] => ~Busy(t, k)
  /\ work' \in [Tx -> [Key -> Row \cup {NoRow, Untouched}]]
  /\ \A k \in Key : work'[t][k] \in RowType(k) \cup {NoRow, Untouched}
  /\ pc' \in [Tx -> Stage] /\ pc'[t] \in Workplace

\* A statement that writes one row.
LEMMA WriteEffect ==
  ASSUME ReferralTypeOK, NEW t \in Tx, NEW k \in Key, NEW row \in RowType(k) \cup {NoRow},
         NEW stage \in Workplace, Write(t, k, row, stage)
  PROVE  /\ Local(t)
         /\ pc'[t] = stage /\ work'[t][k] = row
         /\ \A j \in Key : j # k => work'[t][j] = work[t][j]
<1> USE DEF Write, Goto, clocks, history
<1>0. row \in Row \cup {NoRow}
  BY RowTypes
<1>1. [work[t] EXCEPT ![k] = row] \in [Key -> Row \cup {NoRow, Untouched}]
  BY <1>0 DEF ReferralTypeOK
<1>2. /\ work' \in [Tx -> [Key -> Row \cup {NoRow, Untouched}]]
      /\ work'[t] = [work[t] EXCEPT ![k] = row]
      /\ \A s \in Tx \ {t} : work'[s] = work[s]
  BY <1>1 DEF ReferralTypeOK
<1>3. /\ work'[t][k] = row
      /\ \A j \in Key : j # k => work'[t][j] = work[t][j]
  BY <1>2 DEF ReferralTypeOK
<1>4. /\ pc' \in [Tx -> Stage] /\ pc'[t] = stage
      /\ \A s \in Tx \ {t} : pc'[s] = pc[s]
  BY DEF ReferralTypeOK, Workplace
<1>5. \A j \in Key : work'[t][j] \in RowType(j) \cup {NoRow, Untouched}
  BY <1>3 DEF ReferralTypeOK
<1> QED
  BY <1>2, <1>3, <1>4, <1>5 DEF Local

\* A statement that touches no row.
LEMMA SkipEffect ==
  ASSUME ReferralTypeOK, NEW t \in Tx, NEW stage \in Workplace, Skip(t, stage)
  PROVE  Local(t) /\ pc'[t] = stage /\ work' = work
BY DEF Skip, Goto, clocks, history, Local, ReferralTypeOK, Workplace

\* The parts of a registration request.
LEMMA RequestTyped ==
  ASSUME ReferralTypeOK, NEW t \in Tx, pc[t] # "idle"
  PROVE  /\ req[t].human \in Human
         /\ req[t].op = "register" => req[t].code \in Code \cup {NoRow}
         /\ req[t].op \in {"submit", "revoke"} => req[t].total \in Int /\ req[t].signal \in Int
<1> DEFINE A == [op : {"create", "claim", "delete"}, human : Human]
           B == [op : {"register"}, human : Human, code : Code \cup {NoRow}, stale : BOOLEAN]
           C == [op : {"submit", "revoke"}, human : Human, total : {-1, 0, 1},
                 signal : {-1, 0, 1}]
<1>1. req[t] \in A \cup B \cup C
  BY DEF ReferralTypeOK, Request
<1>2. \A r \in A : r.op \notin {"register", "submit", "revoke"} /\ r.human \in Human
  OBVIOUS
<1>3. \A r \in B : r.op = "register" /\ r.human \in Human /\ r.code \in Code \cup {NoRow}
  OBVIOUS
<1>4. \A r \in C : /\ r.op \in {"submit", "revoke"} /\ r.human \in Human
                  /\ r.total \in Int /\ r.signal \in Int
  OBVIOUS
<1> HIDE DEF A, B, C
<1>5. CASE req[t] \in A
  BY <1>2, <1>5
<1>6. CASE req[t] \in B
  BY <1>3, <1>6
<1>7. CASE req[t] \in C
  BY <1>4, <1>7
<1> QED
  BY <1>1, <1>5, <1>6, <1>7

\* upsertRegistration.
LEMMA UpsertKeeps ==
  ASSUME ReferralTypeOK, NEW t \in Tx, Course(t), NEW h \in Human, h = req[t].human,
         UpsertRegistration(t, h)
  PROVE  Local(t) /\ Course(t)'
<1> DEFINE reg == RegistrationOf(h)
           new == [total |-> 0, signal |-> 0]
           next == IF req[t].code # NoRow THEN "lockCode" ELSE "commit"
<1>1. pc[t] = "upsert" /\ req[t].op = "register"
  BY DEF UpsertRegistration, Course, Staged
<1>2. \A k \in Key : work[t][k] = Untouched
  BY <1>1 DEF Course, Registering, Wrote
<1>3. new \in RowType(reg) /\ reg \in Key /\ db[reg] \in Registration \cup {NoRow}
  <2>1. new \in Registration
    BY DEF Registration
  <2> QED
    BY <2>1, RowTypes, Keys, RowsTyped
<1>4. next \in Workplace /\ "commit" \in Workplace
  BY DEF Workplace, Stage
<1>n. new # NoRow /\ new # Untouched
  BY <1>3, RowTypes, Marks
<1>5. \/ /\ db[reg] = NoRow /\ Write(t, reg, new, next)
      \/ /\ db[reg] # NoRow /\ Write(t, reg, db[reg], "commit")
  BY DEF UpsertRegistration
<1> HIDE DEF new, next
<1>6. /\ Local(t)
      /\ \/ db[reg] = NoRow /\ work'[t][reg] = new /\ pc'[t] = next
         \/ db[reg] # NoRow /\ work'[t][reg] = db[reg] /\ pc'[t] = "commit"
      /\ \A j \in Key : j # reg => work'[t][j] = Untouched
  BY <1>2, <1>3, <1>4, <1>5, RowTypes, WriteEffect
<1>7. Registering(t, h, req[t].code)'
  <2>1. req[t].code \in Code \cup {NoRow}
    BY <1>1, RequestTyped
  <2>2. /\ ReferralOf(h) \in Key /\ ReferralOf(h) # reg
        /\ req[t].code # NoRow => CodeOf(req[t].code) \in Key /\ CodeOf(req[t].code) # reg
    BY <2>1, Keys
  <2> HIDE DEF reg
  <2>3. req' = req /\ db' = db
    BY <1>6 DEF Local
  <2>4. RegistrationOf(h) = reg
    BY DEF reg
  <2> QED
    BY <1>6, <1>n, <2>1, <2>2, <2>3, <2>4, Marks DEF Registering, Wrote, new, next
<1> QED
  BY <1>1, <1>6, <1>7 DEF Local, Course, Staged, Workplace, next, DeleteStage

\* SELECT .. FOR UPDATE of the code.
LEMMA LockCodeKeeps ==
  ASSUME ReferralTypeOK, NEW t \in Tx, Course(t), NEW h \in Human, h = req[t].human,
         LockCode(t, h)
  PROVE  Local(t) /\ Course(t)'
<1> SUFFICES ASSUME NEW c, c = req[t].code
             PROVE  Local(t) /\ Course(t)'
  OBVIOUS
<1>1. pc[t] = "lockCode" /\ req[t].op = "register"
  BY DEF LockCode, Course, Staged
<1>2. Registering(t, h, c) /\ c # NoRow
  BY <1>1 DEF Course, Registering
<1>3. c \in Code
  BY <1>1, <1>2, RequestTyped
<1>4. /\ CodeOf(c) \in Key /\ db[CodeOf(c)] \in CodeRow \cup {NoRow}
      /\ RegistrationOf(h) \in Key /\ ReferralOf(h) \in Key
      /\ CodeOf(c) \notin {RegistrationOf(h), ReferralOf(h)}
      /\ RowType(CodeOf(c)) = CodeRow
  BY <1>3, Keys, RowsTyped, RowTypes
<1>5. "commit" \in Workplace /\ "redeem" \in Workplace
  BY DEF Workplace, Stage
<1>6. CASE db[CodeOf(c)] = NoRow
  <2>1. Local(t) /\ pc'[t] = "commit" /\ work' = work
    BY <1>5, <1>6, SkipEffect DEF LockCode
  <2>2. db' = db /\ req' = req
    BY <2>1 DEF Local
  <2>3. Registering(t, h, c)'
    BY <1>1, <1>2, <1>4, <2>1, <2>2 DEF Registering, Wrote
  <2> QED
    BY <1>1, <2>1, <2>2, <2>3 DEF Course, Staged, DeleteStage
<1>7. CASE db[CodeOf(c)] # NoRow
  <2> DEFINE fit == ~req[t].stale /\ db[CodeOf(c)].used < MaxUses
                                 /\ db[CodeOf(c)].referrer # h
             next == IF fit THEN "redeem" ELSE "commit"
  <2>0. next \in Workplace /\ next \in {"redeem", "commit"}
        /\ (next = "redeem" => /\ db[CodeOf(c)].used < MaxUses
                               /\ db[CodeOf(c)].referrer # h)
    BY <1>5
  <2>1. Write(t, CodeOf(c), db[CodeOf(c)], next)
    BY <1>7 DEF LockCode
  <2> HIDE DEF next
  <2>2. /\ Local(t) /\ pc'[t] = next /\ work'[t][CodeOf(c)] = db[CodeOf(c)]
        /\ \A j \in Key : j # CodeOf(c) => work'[t][j] = work[t][j]
    BY <1>4, <2>0, <2>1, WriteEffect
  <2>3. db' = db /\ req' = req
    BY <2>2 DEF Local
  <2>4. db[CodeOf(c)] # Untouched
    BY <1>4, <1>7, RowTypes, Marks
  <2>5. Registering(t, h, c)'
    BY <1>1, <1>2, <1>4, <1>7, <2>0, <2>2, <2>3, <2>4 DEF Registering, Wrote
  <2> QED
    BY <1>1, <2>0, <2>2, <2>3, <2>5 DEF Course, Staged, DeleteStage
<1> QED
  BY <1>6, <1>7

\* The redemption: the referral and the use of the code are written together.
LEMMA RedeemKeeps ==
  ASSUME ReferralTypeOK, NEW t \in Tx, Course(t), NEW h \in Human, h = req[t].human,
         Redeem(t, h)
  PROVE  Local(t) /\ Course(t)'
<1> SUFFICES ASSUME NEW c, c = req[t].code, NEW ref, ref = ReferralOf(h),
                    NEW code, code = CodeOf(c)
             PROVE  Local(t) /\ Course(t)'
  OBVIOUS
<1>1. pc[t] = "redeem" /\ req[t].op = "register"
  BY DEF Redeem, Course, Staged
<1>2. Registering(t, h, c) /\ c # NoRow
  BY <1>1 DEF Course, Registering
<1>3. c \in Code
  BY <1>1, <1>2, RequestTyped
<1>4. /\ code \in Key /\ ref \in Key /\ RegistrationOf(h) \in Key
      /\ code # ref /\ RegistrationOf(h) \notin {code, ref}
      /\ RowType(code) = CodeRow /\ RowType(ref) = Referral
      /\ db[code] \in CodeRow \cup {NoRow}
  BY <1>3, Keys, RowTypes, RowsTyped
<1>5. /\ work[t][code] # Untouched /\ db[code] # NoRow
      /\ db[code].used < MaxUses /\ db[code].referrer # h
      /\ work[t][ref] = Untouched /\ work[t][code] = db[code]
      /\ db[RegistrationOf(h)] = NoRow
      /\ work[t][RegistrationOf(h)] = [total |-> 0, signal |-> 0]
  BY <1>1, <1>2 DEF Registering, Wrote
<1>6. /\ db' = db /\ UNCHANGED <<req, issued, expired, lives, credits, departed>>
      /\ ~Busy(t, ref)
      /\ pc' = [pc EXCEPT ![t] = "commit"]
  BY DEF Redeem, Goto, clocks, history
<1>7. /\ pc' \in [Tx -> Stage] /\ pc'[t] = "commit" /\ pc'[t] \in Workplace
      /\ \A s \in Tx \ {t} : pc'[s] = pc[s]
  BY <1>6 DEF ReferralTypeOK, Workplace, Stage
<1>8. CASE db[ref] # NoRow
  <2>1. work' = work
    BY <1>8 DEF Redeem
  <2>2. Local(t)
    BY <1>6, <1>7, <2>1 DEF Local, ReferralTypeOK
  <2>3. Registering(t, h, c)'
    <3>1. ~(pc'[t] = "upsert")
      BY <1>7
    <3> QED
      BY <1>1, <1>2, <1>4, <1>5, <1>6, <1>7, <2>1 DEF Registering, Wrote
  <2> QED
    BY <1>1, <1>6, <1>7, <2>2, <2>3 DEF Course, Staged, DeleteStage
<1>9. CASE db[ref] = NoRow
  <2> DEFINE edge == [referrer |-> db[code].referrer, code |-> c, state |-> "pending"]
             used == [db[code] EXCEPT !.used = @ + 1]
             row == [work[t] EXCEPT ![ref] = edge]
  <2>1. /\ ~Busy(t, code)
        /\ work' = [work EXCEPT ![t][ref] = edge, ![t][code] = used]
    BY <1>5, <1>9 DEF Redeem, Visible
  <2>2. /\ edge \in Referral /\ used \in CodeRow
        /\ used = [referrer |-> db[code].referrer, used |-> db[code].used + 1]
    <3>1. db[code].referrer \in Human /\ db[code].used \in Nat /\ db[code] \in CodeRow
      BY <1>4, <1>5 DEF CodeRow
    <3>2. edge \in Referral
      BY <1>3, <3>1 DEF Referral
    <3>3. used = [referrer |-> db[code].referrer, used |-> db[code].used + 1]
      BY <3>1 DEF CodeRow
    <3>4. used \in CodeRow
      BY <3>1, <3>3 DEF CodeRow
    <3> QED
      BY <3>2, <3>3, <3>4
  <2>3. edge # Untouched /\ used # Untouched /\ edge \in Row /\ used \in Row
    BY <2>2, RowTypes, Marks
  <2> HIDE DEF edge, used
  <2>4. row \in [Key -> Row \cup {NoRow, Untouched}]
    BY <1>4, <2>3 DEF ReferralTypeOK
  <2>5. [row EXCEPT ![code] = used] \in [Key -> Row \cup {NoRow, Untouched}]
    BY <1>4, <2>3, <2>4
  <2>6. work' = [work EXCEPT ![t] = [row EXCEPT ![code] = used]]
    BY <1>4, <2>1, <2>4, <2>5 DEF ReferralTypeOK
  <2>7. /\ work' \in [Tx -> [Key -> Row \cup {NoRow, Untouched}]]
        /\ work'[t] = [row EXCEPT ![code] = used]
        /\ \A s \in Tx \ {t} : work'[s] = work[s]
    BY <2>5, <2>6 DEF ReferralTypeOK
  <2>8. /\ work'[t][code] = used /\ work'[t][ref] = edge
        /\ \A k \in Key : k \notin {ref, code} => work'[t][k] = work[t][k]
    BY <1>4, <2>4, <2>7 DEF ReferralTypeOK
  <2> HIDE DEF row
  <2>9. \A k \in Key : work'[t][k] \in RowType(k) \cup {NoRow, Untouched}
    BY <1>4, <2>2, <2>8 DEF ReferralTypeOK
  <2>10. Local(t)
    BY <1>6, <1>7, <2>1, <2>7, <2>8, <2>9 DEF Local
  <2>11. Registering(t, h, c)'
    BY <1>2, <1>4, <1>5, <1>6, <1>7, <1>9, <2>2, <2>3, <2>8 DEF Registering, Wrote, edge
  <2> QED
    BY <1>1, <1>6, <1>7, <2>10, <2>11 DEF Course, Staged, DeleteStage
<1> QED
  BY <1>8, <1>9

\* adjustAnswerCounters.
LEMMA CountKeeps ==
  ASSUME ReferralTypeOK, NEW t \in Tx, Course(t), NEW h \in Human, h = req[t].human,
         Count(t, h)
  PROVE  Local(t) /\ Course(t)'
<1> SUFFICES ASSUME NEW reg, reg = RegistrationOf(h), NEW ref, ref = ReferralOf(h)
             PROVE  Local(t) /\ Course(t)'
  OBVIOUS
<1>1. pc[t] = "count" /\ req[t].op \in {"submit", "revoke"} /\ pc[t] # "idle"
  BY DEF Count, Course, Staged
<1>2. CountingAnswer(t, h) /\ \A k \in Key : work[t][k] = Untouched
  BY <1>1 DEF Course, CountingAnswer, Wrote
<1>3. req[t].total \in Int /\ req[t].signal \in Int
  BY <1>1, RequestTyped
<1>4. /\ reg \in Key /\ ref \in Key /\ reg # ref /\ RowType(reg) = Registration
      /\ db[reg] \in Registration \cup {NoRow}
  BY Keys, RowTypes, RowsTyped
<1> DEFINE next == IF req[t].op = "submit" THEN "activate" ELSE "commit"
<1>5. next \in Workplace /\ next \in {"activate", "commit"}
      /\ (next = "activate" <=> req[t].op = "submit")
  BY DEF Workplace, Stage
<1>6. CASE db[reg] = NoRow
  <2>1. Local(t) /\ pc'[t] = next /\ work' = work
    BY <1>5, <1>6, SkipEffect DEF Count
  <2> HIDE DEF next
  <2>2. db' = db /\ req' = req
    BY <2>1 DEF Local
  <2>3. CountingAnswer(t, h)'
    BY <1>1, <1>2, <1>4, <1>5, <2>1, <2>2 DEF CountingAnswer, Wrote
  <2> QED
    BY <1>1, <1>5, <2>1, <2>2, <2>3 DEF Course, Staged, DeleteStage
<1>7. CASE db[reg] # NoRow
  <2> DEFINE total == db[reg].total + req[t].total
             signal == db[reg].signal + req[t].signal
             new == [total |-> total, signal |-> signal]
  <2>1. /\ total \in 0..MaxAnswers /\ signal \in 0..total
        /\ Write(t, reg, new, next)
    BY <1>7 DEF Count
  <2>2. total \in Nat /\ signal \in Nat
    BY <2>1, ReferralAssumption
  <2>3. new \in Registration
    BY <2>2 DEF Registration
  <2>4. /\ new.total = total /\ new.signal = signal
    OBVIOUS
  <2>5. db[reg].total \in Nat /\ db[reg].signal \in Nat
    BY <1>4, <1>7 DEF Registration
  <2>6. /\ req[t].total <= 0 => total <= db[reg].total
        /\ req[t].signal <= 0 => signal <= db[reg].signal
    BY <1>3, <2>5
  <2> HIDE DEF next, new, total, signal
  <2>7. /\ Local(t) /\ pc'[t] = next /\ work'[t][reg] = new
        /\ \A j \in Key : j # reg => work'[t][j] = Untouched
    BY <1>2, <1>4, <1>5, <2>1, <2>3, WriteEffect
  <2>8. db' = db /\ req' = req /\ new # NoRow /\ new # Untouched
    BY <2>3, <2>7, RowTypes, Marks DEF Local
  <2>9. CountingAnswer(t, h)'
    BY <1>1, <1>2, <1>4, <1>5, <1>7, <2>4, <2>6, <2>7, <2>8 DEF CountingAnswer, Wrote
  <2> QED
    BY <1>1, <1>5, <2>7, <2>8, <2>9 DEF Course, Staged, DeleteStage
<1> QED
  BY <1>6, <1>7

\* creditReferralOnActivation, first half: whoever reaches the bar flips a
\* pending referral.
LEMMA ActivateKeeps ==
  ASSUME ReferralTypeOK, NEW t \in Tx, Course(t), NEW h \in Human, h = req[t].human,
         Activate(t, h)
  PROVE  Local(t) /\ Course(t)'
<1> SUFFICES ASSUME NEW reg, reg = RegistrationOf(h), NEW ref, ref = ReferralOf(h)
             PROVE  Local(t) /\ Course(t)'
  OBVIOUS
<1>1. pc[t] = "activate" /\ req[t].op = "submit" /\ pc[t] # "idle"
  BY DEF Activate, Course, Staged
<1>2. CountingAnswer(t, h) /\ ~Wrote(t, ref)
  BY <1>1 DEF Course, CountingAnswer
<1>4. /\ reg \in Key /\ ref \in Key /\ reg # ref /\ RowType(ref) = Referral
      /\ db[ref] \in Referral \cup {NoRow}
  BY Keys, RowTypes, RowsTyped
<1>5. "credit" \in Workplace /\ "commit" \in Workplace
  BY DEF Workplace, Stage
<1> DEFINE flips == /\ db[ref] # NoRow /\ db[ref].state = "pending"
                    /\ MeetsBar(Visible(t, reg))
<1>6. CASE ~flips
  <2>1. Local(t) /\ pc'[t] = "commit" /\ work' = work
    BY <1>5, <1>6, SkipEffect DEF Activate
  <2>2. db' = db /\ req' = req
    BY <2>1 DEF Local
  <2>3. /\ Wrote(t, reg) /\ MeetsBar(work[t][reg])
        => ~(db[ref] # NoRow /\ db[ref].state = "pending")
    BY <1>6 DEF Wrote, Visible
  <2>4. CountingAnswer(t, h)'
    BY <1>1, <1>2, <1>4, <2>1, <2>2, <2>3 DEF CountingAnswer, Wrote, MeetsBar
  <2> QED
    BY <1>1, <2>1, <2>2, <2>4 DEF Course, Staged, DeleteStage
<1>7. CASE flips
  <2> DEFINE edge == [db[ref] EXCEPT !.state = "active"]
  <2>1. Write(t, ref, edge, "credit")
    BY <1>7 DEF Activate
  <2>2. /\ edge \in Referral
        /\ edge = [referrer |-> db[ref].referrer, code |-> db[ref].code,
                   state |-> "active"]
    BY <1>4, <1>7 DEF Referral
  <2>3. edge # Untouched
    BY <2>2, RowTypes, Marks
  <2>4. ReputationOf(db[ref].referrer) \in Key
        /\ ReputationOf(db[ref].referrer) \notin {reg, ref}
    BY <1>4, <1>7, Keys DEF Referral
  <2> HIDE DEF edge
  <2>5. /\ Local(t) /\ pc'[t] = "credit" /\ work'[t][ref] = edge
        /\ \A j \in Key : j # ref => work'[t][j] = work[t][j]
    BY <1>4, <1>5, <2>1, <2>2, WriteEffect
  <2>6. db' = db /\ req' = req
    BY <2>5 DEF Local
  <2>7. CountingAnswer(t, h)'
    BY <1>1, <1>2, <1>4, <1>7, <2>2, <2>3, <2>4, <2>5, <2>6 DEF CountingAnswer, Wrote
  <2> QED
    BY <1>1, <2>5, <2>6, <2>7 DEF Course, Staged, DeleteStage
<1> QED
  BY <1>6, <1>7

\* The reputation row with one more credit.
LEMMA CreditedType ==
  ASSUME NEW rep \in Reputation \cup {NoRow}
  PROVE  /\ Credited(rep) \in Reputation
         /\ Credited(rep).active = (IF rep = NoRow THEN 0 ELSE rep.active) + 1
         /\ Credited(rep).score = (IF rep = NoRow THEN 0 ELSE rep.score) + RepPerReferral
         /\ Credited(rep).tier = TierForScore(Credited(rep).score)
<1> DEFINE active == IF rep = NoRow THEN 1 ELSE rep.active + 1
           score  == IF rep = NoRow THEN RepPerReferral ELSE rep.score + RepPerReferral
           tier   == TierForScore(score)
<1>1. /\ active \in Nat /\ score \in Nat
      /\ active = (IF rep = NoRow THEN 0 ELSE rep.active) + 1
      /\ score = (IF rep = NoRow THEN 0 ELSE rep.score) + RepPerReferral
  BY ReferralAssumption DEF Reputation
<1>2. tier \in Tier
  BY DEF TierForScore, Tier
<1>3. Credited(rep) = [active |-> active, score |-> score, tier |-> tier]
  BY DEF Credited
<1>4. tier = TierForScore(score)
  OBVIOUS
<1> HIDE DEF active, score, tier
<1> QED
  BY <1>1, <1>2, <1>3, <1>4 DEF Reputation

\* creditReferralOnActivation, second half: the referrer's reputation.
LEMMA CreditKeeps ==
  ASSUME ReferralTypeOK, NEW t \in Tx, Course(t), NEW h \in Human, h = req[t].human,
         Credit(t, h)
  PROVE  Local(t) /\ Course(t)'
<1> SUFFICES ASSUME NEW reg, reg = RegistrationOf(h), NEW ref, ref = ReferralOf(h),
                    NEW r, r = db[ref].referrer, NEW rep, rep = ReputationOf(r)
             PROVE  Local(t) /\ Course(t)'
  OBVIOUS
<1>1. pc[t] = "credit" /\ req[t].op = "submit" /\ pc[t] # "idle"
  BY DEF Credit, Course, Staged
<1>2. CountingAnswer(t, h) /\ Wrote(t, ref)
  BY <1>1 DEF Course, CountingAnswer
<1>3. db[ref] # NoRow /\ work[t][ref].referrer = r
  BY <1>2 DEF CountingAnswer
<1>4. /\ reg \in Key /\ ref \in Key /\ reg # ref
      /\ db[ref] \in Referral \cup {NoRow}
  BY Keys, RowsTyped
<1>5. r \in Human
  BY <1>3, <1>4 DEF Referral
<1>6. /\ rep \in Key /\ rep \notin {reg, ref} /\ RowType(rep) = Reputation
      /\ db[rep] \in Reputation \cup {NoRow}
  BY <1>5, Keys, RowTypes, RowsTyped
<1>7. "commit" \in Workplace
  BY DEF Workplace, Stage
<1>8. Credited(db[rep]) \in Reputation
  BY <1>6, CreditedType
<1>9. Write(t, rep, Credited(db[rep]), "commit")
  BY <1>3 DEF Credit
<1>10. /\ Local(t) /\ pc'[t] = "commit" /\ work'[t][rep] = Credited(db[rep])
       /\ \A j \in Key : j # rep => work'[t][j] = work[t][j]
  BY <1>6, <1>7, <1>8, <1>9, WriteEffect
<1>11. db' = db /\ req' = req
  BY <1>10 DEF Local
<1>12. CountingAnswer(t, h)'
  BY <1>1, <1>2, <1>4, <1>6, <1>10, <1>11 DEF CountingAnswer, Wrote
<1> QED
  BY <1>1, <1>10, <1>11, <1>12 DEF Course, Staged, DeleteStage

\* The statements of deleteAccount: each deletes committed rows that name h.
LEMMA DeleteRowsKeeps ==
  ASSUME ReferralTypeOK, NEW t \in Tx, Course(t), NEW h \in Human, h = req[t].human,
         DeleteRows(t, h)
  PROVE  Local(t) /\ Course(t)'
<1>1. pc[t] \in DeleteStage /\ req[t].op = "delete" /\ pc[t] # "idle"
  BY DEF DeleteRows, Course, Staged, DeleteStage
<1>2. Deleting(t, h)
  BY <1>1 DEF Course
<1> DEFINE doomed == {k \in Named(pc[t], h) : db[k] # NoRow}
           row == [k \in Key |-> IF k \in doomed THEN NoRow ELSE work[t][k]]
<1>3. /\ \A k \in doomed : ~Busy(t, k)
      /\ work' = [work EXCEPT ![t] = row]
      /\ pc' = [pc EXCEPT ![t] = DeleteThen[pc[t]]]
      /\ UNCHANGED <<db, req, issued, expired, lives, credits, departed>>
  BY DEF DeleteRows, Goto, clocks, history
<1>4. \A k \in Key : k \in doomed =>
        /\ db[k] # NoRow
        /\ k[1] \in {"registrations", "reputation", "board_members"} => k[2] = h
        /\ k[1] = "referrals" => k[2] = h \/ db[k].referrer = h
  BY <1>1 DEF Named, DeleteStage, RegistrationOf, ReferralOf, ReputationOf, SeatOf, CodeOf
<1> HIDE DEF doomed
<1>5. row \in [Key -> Row \cup {NoRow, Untouched}]
  BY DEF ReferralTypeOK
<1>6. /\ work' \in [Tx -> [Key -> Row \cup {NoRow, Untouched}]]
      /\ \A s \in Tx \ {t} : work'[s] = work[s]
      /\ \A k \in Key : work'[t][k] = IF k \in doomed THEN NoRow ELSE work[t][k]
  BY <1>3, <1>5 DEF ReferralTypeOK
<1>7. /\ pc' \in [Tx -> Stage] /\ pc'[t] = DeleteThen[pc[t]]
      /\ pc'[t] \in DeleteStage \cup {"commit"} /\ pc'[t] \in Workplace
      /\ \A s \in Tx \ {t} : pc'[s] = pc[s]
  <2>1. DeleteThen[pc[t]] \in DeleteStage \cup {"commit"}
    BY <1>1 DEF DeleteThen, DeleteStage
  <2>2. DeleteStage \cup {"commit"} \subseteq Workplace
    BY DEF DeleteStage, Workplace, Stage
  <2> QED
    BY <1>3, <2>1, <2>2 DEF ReferralTypeOK, Workplace
<1>8. Local(t)
  BY <1>3, <1>6, <1>7 DEF Local, ReferralTypeOK
<1>9. Deleting(t, h)'
  BY <1>2, <1>3, <1>4, <1>6 DEF Deleting, Wrote
<1> QED
  BY <1>1, <1>3, <1>7, <1>8, <1>9 DEF Course, Staged, Workplace, DeleteStage

-----------------------------------------------------------------------------
(* Steps that leave the tables as they are.                                *)

\* What is true of the committed rows alone.
DataInvariant ==
  /\ CodesIssued
  /\ CodeSingleUse
  /\ CreditsBounded
  /\ PendingBelowBar
  /\ ReputationBacked
  /\ BoardSeatsEarned

\* The parts of the invariant.
LEMMA InvariantParts ==
  ReferralInvariant <=> /\ ReferralTypeOK /\ WriteExclusive /\ RequestsOnCourse
                        /\ DataInvariant /\ ClaimsEarned
BY DEF ReferralInvariant, DataInvariant

\* The committed rows stay right when they stay what they are.
LEMMA DataUnchanged ==
  ASSUME DataInvariant, UNCHANGED <<db, issued, lives, credits, departed>>
  PROVE  DataInvariant'
<1>1. CodesIssued' BY DEF DataInvariant, CodesIssued, Edge
<1>2. CodeSingleUse' BY DEF DataInvariant, CodeSingleUse, Edge
<1>3. CreditsBounded' BY DEF DataInvariant, CreditsBounded, Edge
<1>4. PendingBelowBar' BY DEF DataInvariant, PendingBelowBar, Edge, MeetsBar
<1>5. ReputationBacked'
  BY DEF DataInvariant, ReputationBacked, ActiveFor, ReferredBy, Edge
<1>6. BoardSeatsEarned' BY DEF DataInvariant, BoardSeatsEarned
<1> QED
  BY <1>1, <1>2, <1>3, <1>4, <1>5, <1>6 DEF DataInvariant

\* A request is on its course as long as nobody touches its workspace, the rows
\* it has written, or makes a referral for a human whose counters it has moved.
LEMMA UndisturbedCourse ==
  ASSUME ReferralTypeOK, NEW s \in Tx, Course(s),
         pc'[s] = pc[s], req'[s] = req[s], work'[s] = work[s],
         \A k \in Key : Wrote(s, k) => db'[k] = db[k],
         \A h \in Human : /\ Wrote(s, RegistrationOf(h))
                          /\ db'[ReferralOf(h)] # NoRow
                          /\ db'[ReferralOf(h)].state = "pending"
                          => /\ db[ReferralOf(h)] # NoRow
                             /\ db[ReferralOf(h)].state = "pending"
  PROVE  Course(s)'
<1>1. Staged(s)'
  BY DEF Course, Staged
<1>2. pc[s] \in {"idle", "insertCode", "seat"} => \A k \in Key : ~Wrote(s, k)'
  BY DEF Course, Wrote
<1>3. ASSUME pc[s] # "idle", req[s].op = "register",
             NEW h, h = req[s].human, NEW c, c = req[s].code
      PROVE  Registering(s, h, c)'
  <2>1. Registering(s, h, c) /\ h \in Human /\ c \in Code \cup {NoRow}
    BY <1>3, RequestTyped DEF Course
  <2>2. /\ RegistrationOf(h) \in Key /\ ReferralOf(h) \in Key
        /\ c # NoRow => CodeOf(c) \in Key
    BY <2>1, Keys
  <2>3. c # NoRow => work[s][CodeOf(c)] \in CodeRow \cup {NoRow, Untouched}
                     /\ db[CodeOf(c)] \in CodeRow \cup {NoRow}
    BY <2>1, RowsTyped
  <2>4. Wrote(s, ReferralOf(h)) => Wrote(s, CodeOf(c))
    <3> SUFFICES ASSUME Wrote(s, ReferralOf(h)) PROVE Wrote(s, CodeOf(c))
      OBVIOUS
    <3> DEFINE row == [referrer |-> db[CodeOf(c)].referrer, used |-> db[CodeOf(c)].used + 1]
    <3>1. /\ c # NoRow /\ db[CodeOf(c)] # NoRow
          /\ work[s][CodeOf(c)] = row
      BY <2>1 DEF Registering
    <3>2. db[CodeOf(c)].referrer \in Human /\ db[CodeOf(c)].used \in Nat
      BY <2>3, <3>1 DEF CodeRow
    <3>3. row \in CodeRow
      BY <3>2 DEF CodeRow
    <3> QED
      BY <3>1, <3>3, RowTypes, Marks DEF Wrote
  <2>5. Wrote(s, RegistrationOf(h)) \/ pc[s] = "upsert"
    <3>1. [total |-> 0, signal |-> 0] \in Row
      BY RowTypes DEF Registration
    <3>2. db[RegistrationOf(h)] # Untouched
      BY <2>1, RowsTyped, RowTypes, Marks
    <3> QED
      BY <2>1, <3>1, <3>2, Marks DEF Registering, Wrote
  <2> QED
    BY <2>1, <2>2, <2>4, <2>5 DEF Registering, Wrote
<1>4. ASSUME pc[s] # "idle", req[s].op \in {"submit", "revoke"},
             NEW h, h = req[s].human
      PROVE  CountingAnswer(s, h)'
  <2>1. CountingAnswer(s, h) /\ h \in Human
    BY <1>4, RequestTyped DEF Course
  <2>2. /\ RegistrationOf(h) \in Key /\ ReferralOf(h) \in Key
        /\ db[ReferralOf(h)] \in Referral \cup {NoRow}
    BY <2>1, Keys, RowsTyped
  <2>3. Wrote(s, ReferralOf(h)) =>
          /\ db'[ReferralOf(h)] = db[ReferralOf(h)]
          /\ db[ReferralOf(h)].referrer \in Human
          /\ ReputationOf(db[ReferralOf(h)].referrer) \in Key
          /\ db[ReputationOf(db[ReferralOf(h)].referrer)] \in Reputation \cup {NoRow}
    BY <2>1, <2>2, Keys, RowsTyped DEF CountingAnswer, Referral
  <2>4. Wrote(s, ReferralOf(h)) /\ pc[s] = "commit" =>
          Wrote(s, ReputationOf(db[ReferralOf(h)].referrer))
    BY <2>1, <2>3, CreditedType, RowTypes, Marks DEF CountingAnswer, Wrote
  <2> QED
    BY <1>4, <2>1, <2>2, <2>3, <2>4 DEF CountingAnswer, Wrote
<1>5. ASSUME pc[s] # "idle", req[s].op = "delete", NEW h, h = req[s].human
      PROVE  Deleting(s, h)'
  BY <1>5 DEF Course, Deleting, Wrote
<1> QED
  BY <1>1, <1>2, <1>3, <1>4, <1>5 DEF Course

\* A statement inside a transaction keeps the invariant when it keeps the course
\* of its own request.
LEMMA StatementKeeps ==
  ASSUME ReferralInvariant, NEW t \in Tx, pc[t] # "idle", Local(t), Course(t)'
  PROVE  ReferralInvariant'
<1> USE InvariantParts
<1>1. /\ UNCHANGED <<db, req, issued, expired, lives, credits, departed>>
      /\ \A s \in Tx \ {t} : work'[s] = work[s] /\ pc'[s] = pc[s]
  BY DEF Local
<1>2. ReferralTypeOK'
  <2>1. \A s \in Tx, k \in Key : work'[s][k] \in RowType(k) \cup {NoRow, Untouched}
    BY <1>1 DEF Local, ReferralTypeOK
  <2>2. \A s \in Tx : pc'[s] # "idle" => req'[s] \in Request
    BY <1>1 DEF ReferralTypeOK
  <2> QED
    BY <1>1, <2>1, <2>2 DEF Local, ReferralTypeOK
<1>3. WriteExclusive'
  BY <1>1 DEF Local, WriteExclusive, Busy
<1>4. RequestsOnCourse'
  <2> SUFFICES ASSUME NEW s \in Tx, s # t PROVE Course(s)'
    BY DEF RequestsOnCourse
  <2> QED
    BY <1>1, UndisturbedCourse DEF RequestsOnCourse
<1>5. DataInvariant'
  BY <1>1, DataUnchanged
<1>6. ClaimsEarned'
  BY <1>1 DEF Local, ClaimsEarned, Workplace
<1> QED
  BY <1>2, <1>3, <1>4, <1>5, <1>6 DEF ReferralInvariant, DataInvariant

-----------------------------------------------------------------------------
(* Steps that begin or end a request outside a transaction.                *)

\* A request begins with an empty workspace.
LEMMA BeginKeeps ==
  ASSUME ReferralInvariant, NEW t \in Tx, NEW request \in Request, NEW stage \in Stage,
         Begin(t, request, stage),
         stage \in {"insertCode", "seat", "upsert", "count", "activate", "delReputation"},
         stage = "insertCode" => request.op = "create",
         stage = "upsert" => request.op = "register",
         stage = "count" => request.op \in {"submit", "revoke"},
         stage = "activate" => request.op = "submit",
         stage = "delReputation" => request.op = "delete",
         stage = "seat" => /\ request.op = "claim"
                           /\ db[ReputationOf(request.human)] # NoRow
                           /\ db[ReputationOf(request.human)].score >= BoardThreshold,
         request.op = "revoke" => request.total <= 0 /\ request.signal <= 0
  PROVE  ReferralInvariant'
<1> USE InvariantParts DEF Begin, Goto, clocks, history
<1>1. /\ UNCHANGED <<db, work, issued, expired, lives, credits, departed>>
      /\ pc[t] = "idle" /\ pc'[t] = stage /\ req'[t] = request
      /\ pc' \in [Tx -> Stage] /\ req' \in [Tx -> Request \cup {NoRequest}]
      /\ \A s \in Tx \ {t} : pc'[s] = pc[s] /\ req'[s] = req[s]
  BY DEF ReferralTypeOK
<1>2. \A k \in Key : work[t][k] = Untouched
  BY <1>1 DEF RequestsOnCourse, Course, Wrote
<1>3. ReferralTypeOK'
  BY <1>1 DEF ReferralTypeOK
<1>4. WriteExclusive'
  BY <1>1 DEF WriteExclusive
<1>5. RequestsOnCourse'
  <2> SUFFICES ASSUME NEW s \in Tx PROVE Course(s)'
    BY DEF RequestsOnCourse
  <2>1. CASE s # t
    BY <1>1, <2>1, UndisturbedCourse DEF RequestsOnCourse
  <2>2. CASE s = t
    <3>1. Staged(t)' /\ \A k \in Key : ~Wrote(t, k)'
      BY <1>1, <1>2 DEF Staged, Wrote, DeleteStage
    <3>2. ASSUME request.op = "register", NEW h, h = request.human, NEW c, c = request.code
          PROVE  Registering(t, h, c)'
      <4>1. /\ h \in Human /\ c \in Code \cup {NoRow}
            /\ stage = "upsert"
        <5>1. h \in Human /\ c \in Code \cup {NoRow}
          BY <1>1, <1>3, <3>2 DEF Request
        <5> QED
          BY <3>2, <5>1
      <4> QED
        BY <1>1, <3>1, <4>1, Keys DEF Registering, Wrote
    <3>3. ASSUME request.op \in {"submit", "revoke"}, NEW h, h = request.human
          PROVE  CountingAnswer(t, h)'
      <4>1. h \in Human
        BY <3>3 DEF Request
      <4> QED
        BY <1>1, <3>1, <3>3, <4>1, Keys DEF CountingAnswer, Wrote
    <3>4. Deleting(t, request.human)'
      BY <1>1, <3>1 DEF Deleting, Wrote
    <3> QED
      BY <1>1, <2>2, <3>1, <3>2, <3>3, <3>4 DEF Course
  <2> QED
    BY <2>1, <2>2
<1>6. DataInvariant'
  BY <1>1, DataUnchanged
<1>7. ClaimsEarned'
  BY <1>1 DEF ClaimsEarned
<1> QED
  BY <1>3, <1>4, <1>5, <1>6, <1>7 DEF ReferralInvariant, DataInvariant

\* Every request that passes its checks begins on its course.
LEMMA AskKeeps ==
  ASSUME ReferralInvariant, NEW t \in Tx, NEW h \in Human, Ask(t, h)
  PROVE  ReferralInvariant'
<1> USE InvariantParts
<1>1. \A stage \in {"insertCode", "seat", "upsert", "count", "activate", "delReputation"} :
        stage \in Stage
  BY DEF Stage, DeleteStage
<1>2. CASE CreateCode(t, h)
  <2> DEFINE request == [op |-> "create", human |-> h]
  <2>1. request \in Request /\ request.op = "create"
    BY DEF Request
  <2>2. Begin(t, request, "insertCode")
    BY <1>2 DEF CreateCode
  <2> HIDE DEF request
  <2> QED
    BY <1>1, <2>1, <2>2, BeginKeeps
<1>3. ASSUME NEW c \in issued \cup {NoRow}, Register(t, h, c)
      PROVE  ReferralInvariant'
  <2> DEFINE request == [op |-> "register", human |-> h, code |-> c,
                         stale |-> c \in expired]
  <2>1. request \in Request /\ request.op = "register"
    <3>1. c \in Code \cup {NoRow}
      BY <1>3 DEF ReferralTypeOK
    <3> QED
      BY <3>1 DEF Request
  <2>2. Begin(t, request, "upsert")
    BY <1>3 DEF Register
  <2> HIDE DEF request
  <2> QED
    BY <1>1, <2>1, <2>2, BeginKeeps
<1>4. ASSUME NEW op \in {"submit", "revoke"}, NEW total \in {-1, 0, 1},
             NEW signal \in {-1, 0, 1}, Answer(t, h, op, total, signal),
             op = "revoke" => total = -1 /\ signal <= 0
      PROVE  ReferralInvariant'
  <2> DEFINE request == [op |-> op, human |-> h, total |-> total, signal |-> signal]
             stage == IF total = 0 /\ signal = 0 THEN "activate" ELSE "count"
  <2>1. request \in Request
    BY DEF Request
  <2>2. request.op = op /\ request.total = total /\ request.signal = signal
    OBVIOUS
  <2>3. Begin(t, request, stage)
    BY <1>4 DEF Answer
  <2>4. /\ stage \in {"count", "activate"}
        /\ stage = "activate" => request.op = "submit"
    BY <1>4, <2>2
  <2>5. request.op = "revoke" => request.total <= 0 /\ request.signal <= 0
    BY <1>4, <2>2
  <2> HIDE DEF request, stage
  <2> QED
    BY <1>1, <2>1, <2>2, <2>3, <2>4, <2>5, BeginKeeps
<1>5. CASE Submit(t, h)
  <2>1. PICK signal \in {0, 1} : Answer(t, h, "submit", 1, signal)
    BY <1>5 DEF Submit
  <2> QED
    BY <1>4, <2>1
<1>6. CASE Override(t, h)
  <2>1. PICK signal \in {-1, 0, 1} : Answer(t, h, "submit", 0, signal)
    BY <1>6 DEF Override
  <2> QED
    BY <1>4, <2>1
<1>7. CASE Revoke(t, h)
  <2>1. PICK signal \in {0, -1} : Answer(t, h, "revoke", -1, signal)
    BY <1>7 DEF Revoke
  <2>2. signal \in {-1, 0, 1} /\ signal <= 0 /\ -1 \in {-1, 0, 1}
    BY <2>1
  <2> QED
    BY <1>4, <2>1, <2>2
<1>8. CASE Claim(t, h)
  <2> DEFINE request == [op |-> "claim", human |-> h]
  <2>1. request \in Request /\ request.op = "claim" /\ request.human = h
    BY DEF Request
  <2>2. Begin(t, request, "seat")
    BY <1>8 DEF Claim
  <2> HIDE DEF request
  <2> QED
    BY <1>1, <1>8, <2>1, <2>2, BeginKeeps DEF Claim
<1>9. CASE Delete(t, h)
  <2> DEFINE request == [op |-> "delete", human |-> h]
  <2>1. request \in Request /\ request.op = "delete"
    BY DEF Request
  <2>2. Begin(t, request, "delReputation")
    BY <1>9 DEF Delete
  <2> HIDE DEF request
  <2> QED
    BY <1>1, <2>1, <2>2, BeginKeeps
<1> QED
  BY <1>2, <1>3, <1>5, <1>6, <1>7, <1>8, <1>9 DEF Ask

\* What the end of a request does to it, to its workspace and to the others.
LEMMA FinishEffect ==
  ASSUME ReferralTypeOK, NEW t \in Tx, Finish(t)
  PROVE  /\ pc' \in [Tx -> Stage] /\ req' \in [Tx -> Request \cup {NoRequest}]
         /\ work' \in [Tx -> [Key -> Row \cup {NoRow, Untouched}]]
         /\ pc'[t] = "idle" /\ \A k \in Key : work'[t][k] = Untouched
         /\ \A s \in Tx \ {t} : pc'[s] = pc[s] /\ req'[s] = req[s] /\ work'[s] = work[s]
<1>1. [k \in Key |-> Untouched] \in [Key -> Row \cup {NoRow, Untouched}]
  OBVIOUS
<1>2. "idle" \in Stage
  BY DEF Stage
<1>3. /\ pc' \in [Tx -> Stage] /\ req' \in [Tx -> Request \cup {NoRequest}]
      /\ pc'[t] = "idle"
      /\ \A s \in Tx \ {t} : pc'[s] = pc[s] /\ req'[s] = req[s]
  BY <1>2 DEF Finish, Goto, ReferralTypeOK
<1>4. /\ work' \in [Tx -> [Key -> Row \cup {NoRow, Untouched}]]
      /\ work'[t] = [k \in Key |-> Untouched]
      /\ \A s \in Tx \ {t} : work'[s] = work[s]
  BY <1>1 DEF Finish, ReferralTypeOK
<1> QED
  BY <1>3, <1>4

\* A request that ends leaves the others on their course, if it has neither
\* changed a row they have written nor made a referral for a human whose
\* counters they have moved; what is left to show is about the tables.
LEMMA FinishKeeps ==
  ASSUME ReferralInvariant, NEW t \in Tx, Finish(t),
         db' \in [Key -> Row \cup {NoRow}], \A k \in Key : db'[k] \in RowType(k) \cup {NoRow},
         \A s \in Tx \ {t}, k \in Key : Wrote(s, k) => db'[k] = db[k],
         \A s \in Tx \ {t}, h \in Human :
           /\ Wrote(s, RegistrationOf(h))
           /\ db'[ReferralOf(h)] # NoRow /\ db'[ReferralOf(h)].state = "pending"
           => db[ReferralOf(h)] # NoRow /\ db[ReferralOf(h)].state = "pending",
         issued' \subseteq Code, expired' \subseteq issued',
         lives' \in [Human -> Nat], credits' \in [Human -> Nat],
         departed' \subseteq Human, departed \subseteq departed',
         \A h \in Human \ departed' :
           db[ReputationOf(h)] # NoRow /\ db[ReputationOf(h)].score >= BoardThreshold
           => db'[ReputationOf(h)] # NoRow /\ db'[ReputationOf(h)].score >= BoardThreshold,
         DataInvariant'
  PROVE  ReferralInvariant'
<1> USE InvariantParts
<1>1. /\ pc' \in [Tx -> Stage] /\ req' \in [Tx -> Request \cup {NoRequest}]
      /\ work' \in [Tx -> [Key -> Row \cup {NoRow, Untouched}]]
      /\ pc'[t] = "idle" /\ \A k \in Key : work'[t][k] = Untouched
      /\ \A s \in Tx \ {t} : pc'[s] = pc[s] /\ req'[s] = req[s] /\ work'[s] = work[s]
  BY FinishEffect
<1>2. ReferralTypeOK'
  <2>1. \A s \in Tx, k \in Key : work'[s][k] \in RowType(k) \cup {NoRow, Untouched}
    BY <1>1 DEF ReferralTypeOK
  <2>2. \A s \in Tx : pc'[s] # "idle" => req'[s] \in Request
    BY <1>1 DEF ReferralTypeOK
  <2> QED
    BY <1>1, <2>1, <2>2 DEF ReferralTypeOK
<1>3. WriteExclusive'
  BY <1>1 DEF WriteExclusive
<1>4. RequestsOnCourse'
  <2> SUFFICES ASSUME NEW s \in Tx PROVE Course(s)'
    BY DEF RequestsOnCourse
  <2>1. CASE s # t
    BY <1>1, <2>1, UndisturbedCourse DEF RequestsOnCourse
  <2>2. CASE s = t
    BY <1>1, <2>2 DEF Course, Staged, Wrote, DeleteStage
  <2> QED
    BY <2>1, <2>2
<1>5. ClaimsEarned'
  <2> SUFFICES ASSUME NEW s \in Tx, pc'[s] = "seat", req'[s].human \notin departed'
               PROVE  /\ db'[ReputationOf(req'[s].human)] # NoRow
                      /\ db'[ReputationOf(req'[s].human)].score >= BoardThreshold
    BY DEF ClaimsEarned
  <2>1. s # t /\ req'[s] = req[s] /\ pc[s] = "seat"
    BY <1>1
  <2>2. req[s].human \in Human
    BY <2>1, RequestTyped
  <2> QED
    BY <2>1, <2>2 DEF ClaimsEarned
<1> QED
  BY <1>2, <1>3, <1>4, <1>5 DEF ReferralInvariant, DataInvariant

\* A new code is unused, and no referral names it: it was issued just now.
LEMMA InsertCodeKeeps ==
  ASSUME ReferralInvariant, NEW t \in Tx, pc[t] # "idle", InsertCode(t, req[t].human)
  PROVE  ReferralInvariant'
<1> USE InvariantParts
<1> SUFFICES ASSUME NEW h \in Human, h = req[t].human
             PROVE  ReferralInvariant'
  BY RequestTyped
<1>1. PICK c \in Code \ issued :
        /\ Autocommit(t, CodeOf(c), [referrer |-> h, used |-> 0])
        /\ issued' = issued \cup {c} /\ expired' = expired
  BY DEF InsertCode
<1> DEFINE row == [referrer |-> h, used |-> 0]
<1>2. /\ ~Busy(t, CodeOf(c)) /\ Finish(t)
      /\ db' = [db EXCEPT ![CodeOf(c)] = row]
      /\ lives' = lives /\ credits' = credits /\ departed' = departed
  BY <1>1 DEF Autocommit, history
<1>3. /\ CodeOf(c) \in Key /\ RowType(CodeOf(c)) = CodeRow
      /\ row \in CodeRow /\ row \in Row /\ row # NoRow /\ row.used = 0
  <2>1. row \in CodeRow
    BY DEF CodeRow
  <2> QED
    BY <2>1, Keys, RowTypes, Marks
<1> HIDE DEF row
<1>4. /\ db'[CodeOf(c)] = row
      /\ \A k \in Key : k # CodeOf(c) => db'[k] = db[k]
      /\ db' \in [Key -> Row \cup {NoRow}]
  BY <1>2, <1>3 DEF ReferralTypeOK
<1>5. /\ \A g \in Human : /\ db'[RegistrationOf(g)] = db[RegistrationOf(g)]
                          /\ db'[ReferralOf(g)] = db[ReferralOf(g)]
                          /\ db'[ReputationOf(g)] = db[ReputationOf(g)]
                          /\ db'[SeatOf(g)] = db[SeatOf(g)]
      /\ \A d \in Code : d # c => db'[CodeOf(d)] = db[CodeOf(d)]
  <2>1. \A g \in Human :
          /\ {RegistrationOf(g), ReferralOf(g), ReputationOf(g), SeatOf(g)} \subseteq Key
          /\ CodeOf(c) \notin {RegistrationOf(g), ReferralOf(g), ReputationOf(g), SeatOf(g)}
    BY Keys
  <2>2. \A d \in Code : d # c => CodeOf(d) \in Key /\ CodeOf(d) # CodeOf(c)
    BY Keys
  <2> HIDE DEF row
  <2> QED
    BY <1>4, <2>1, <2>2
<1>6. DataInvariant'
  <2>1. CodesIssued'
    BY <1>1, <1>5 DEF DataInvariant, CodesIssued, Edge
  <2>2. CodeSingleUse'
    <3> SUFFICES ASSUME NEW d \in Code
                 PROVE  LET redeemers == {g \in Human : db'[ReferralOf(g)] # NoRow
                                                        /\ db'[ReferralOf(g)].code = d}
                        IN /\ db'[CodeOf(d)] # NoRow =>
                                /\ Cardinality(redeemers) <= db'[CodeOf(d)].used
                                /\ db'[CodeOf(d)].used <= MaxUses
                           /\ \A g \in redeemers : db'[ReferralOf(g)].referrer # g
      BY DEF CodeSingleUse, Edge
    <3> DEFINE redeemers == {g \in Human : db[ReferralOf(g)] # NoRow
                                           /\ db[ReferralOf(g)].code = d}
    <3>1. redeemers = {g \in Human : db'[ReferralOf(g)] # NoRow
                                     /\ db'[ReferralOf(g)].code = d}
      BY <1>5
    <3>2. /\ db[CodeOf(d)] # NoRow =>
               /\ Cardinality(redeemers) <= db[CodeOf(d)].used
               /\ db[CodeOf(d)].used <= MaxUses
          /\ \A g \in redeemers : db[ReferralOf(g)].referrer # g
      BY DEF DataInvariant, CodeSingleUse, Edge
    <3>3. d = c => redeemers = {}
      BY <1>1 DEF DataInvariant, CodesIssued, Edge
    <3>4. Cardinality({}) = 0
      BY FS_EmptySet
    <3> HIDE DEF redeemers
    <3>5. \A g \in redeemers : db'[ReferralOf(g)].referrer # g
      BY <1>5, <3>1, <3>2
    <3>6. db'[CodeOf(d)] # NoRow => /\ Cardinality(redeemers) <= db'[CodeOf(d)].used
                                    /\ db'[CodeOf(d)].used <= MaxUses
      <4>1. CASE d = c
        BY <1>3, <1>4, <3>3, <3>4, <4>1 DEF MaxUses
      <4>2. CASE d # c
        BY <1>5, <3>2, <4>2
      <4> QED
        BY <4>1, <4>2
    <3> QED
      BY <3>1, <3>5, <3>6
  <2>3. CreditsBounded'
    BY <1>2, <1>5 DEF DataInvariant, CreditsBounded, Edge
  <2>4. PendingBelowBar'
    BY <1>5 DEF DataInvariant, PendingBelowBar, Edge, MeetsBar
  <2>5. ReputationBacked'
    <3>1. \A r \in Human : ActiveFor(r)' = ActiveFor(r)
      BY <1>5 DEF ActiveFor, ReferredBy, Edge
    <3> QED
      BY <1>2, <1>5, <3>1 DEF DataInvariant, ReputationBacked
  <2>6. BoardSeatsEarned'
    BY <1>2, <1>5 DEF DataInvariant, BoardSeatsEarned
  <2> QED
    BY <2>1, <2>2, <2>3, <2>4, <2>5, <2>6 DEF DataInvariant
<1>7. \A s \in Tx \ {t}, k \in Key : Wrote(s, k) => db'[k] = db[k]
  BY <1>2, <1>4 DEF Busy, Wrote
<1>8. /\ issued' \subseteq Code /\ expired' \subseteq issued'
      /\ lives' \in [Human -> Nat] /\ credits' \in [Human -> Nat]
      /\ departed' \subseteq Human /\ departed \subseteq departed'
  BY <1>1, <1>2 DEF ReferralTypeOK
<1>9. \A k \in Key : db'[k] \in RowType(k) \cup {NoRow}
  BY <1>3, <1>4 DEF ReferralTypeOK
<1> QED
  BY <1>2, <1>4, <1>5, <1>6, <1>7, <1>8, <1>9, FinishKeeps

\* A seat is taken by whoever was let through, and that is still justified.
LEMMA TakeSeatKeeps ==
  ASSUME ReferralInvariant, NEW t \in Tx, pc[t] # "idle", TakeSeat(t, req[t].human)
  PROVE  ReferralInvariant'
<1> USE InvariantParts
<1> SUFFICES ASSUME NEW h \in Human, h = req[t].human
             PROVE  ReferralInvariant'
  BY RequestTyped
<1>1. /\ pc[t] = "seat" /\ ~Busy(t, SeatOf(h)) /\ Finish(t)
      /\ db' = [db EXCEPT ![SeatOf(h)] = Seat]
      /\ UNCHANGED <<issued, expired, lives, credits, departed>>
  BY DEF TakeSeat, Autocommit, history, clocks
<1>2. /\ SeatOf(h) \in Key /\ RowType(SeatOf(h)) = {Seat} /\ Seat \in Row
  BY Keys, RowTypes
<1>3. /\ db'[SeatOf(h)] = Seat
      /\ \A k \in Key : k # SeatOf(h) => db'[k] = db[k]
      /\ db' \in [Key -> Row \cup {NoRow}]
  BY <1>1, <1>2 DEF ReferralTypeOK
<1>4. /\ \A g \in Human : /\ db'[RegistrationOf(g)] = db[RegistrationOf(g)]
                          /\ db'[ReferralOf(g)] = db[ReferralOf(g)]
                          /\ db'[ReputationOf(g)] = db[ReputationOf(g)]
                          /\ g # h => db'[SeatOf(g)] = db[SeatOf(g)]
      /\ \A d \in Code : db'[CodeOf(d)] = db[CodeOf(d)]
  <2>1. \A g \in Human :
          /\ {RegistrationOf(g), ReferralOf(g), ReputationOf(g)} \subseteq Key
          /\ SeatOf(h) \notin {RegistrationOf(g), ReferralOf(g), ReputationOf(g)}
          /\ SeatOf(g) \in Key /\ (g # h => SeatOf(g) # SeatOf(h))
    BY Keys
  <2>2. \A d \in Code : CodeOf(d) \in Key /\ CodeOf(d) # SeatOf(h)
    BY Keys
  <2> QED
    BY <1>3, <2>1, <2>2
<1>5. DataInvariant'
  <2>1. CodesIssued'
    BY <1>1, <1>4 DEF DataInvariant, CodesIssued, Edge
  <2>2. CodeSingleUse'
    BY <1>4 DEF DataInvariant, CodeSingleUse, Edge
  <2>3. CreditsBounded'
    BY <1>1, <1>4 DEF DataInvariant, CreditsBounded, Edge
  <2>4. PendingBelowBar'
    BY <1>4 DEF DataInvariant, PendingBelowBar, Edge, MeetsBar
  <2>5. ReputationBacked'
    <3>1. \A r \in Human : ActiveFor(r)' = ActiveFor(r)
      BY <1>4 DEF ActiveFor, ReferredBy, Edge
    <3> QED
      BY <1>1, <1>4, <3>1 DEF DataInvariant, ReputationBacked
  <2>6. BoardSeatsEarned'
    <3>1. h \notin departed => /\ db[ReputationOf(h)] # NoRow
                               /\ db[ReputationOf(h)].score >= BoardThreshold
      BY <1>1 DEF ClaimsEarned
    <3> QED
      BY <1>1, <1>4, <3>1 DEF DataInvariant, BoardSeatsEarned
  <2> QED
    BY <2>1, <2>2, <2>3, <2>4, <2>5, <2>6 DEF DataInvariant
<1>6. \A s \in Tx \ {t}, k \in Key : Wrote(s, k) => db'[k] = db[k]
  BY <1>1, <1>3 DEF Busy, Wrote
<1>7. /\ issued' \subseteq Code /\ expired' \subseteq issued'
      /\ lives' \in [Human -> Nat] /\ credits' \in [Human -> Nat]
      /\ departed' \subseteq Human /\ departed \subseteq departed'
  BY <1>1 DEF ReferralTypeOK
<1>8. \A k \in Key : db'[k] \in RowType(k) \cup {NoRow}
  BY <1>2, <1>3 DEF ReferralTypeOK
<1> QED
  BY <1>1, <1>3, <1>4, <1>5, <1>6, <1>7, <1>8, FinishKeeps

\* A request that is dropped, and a code that expires, change no row.
LEMMA AbortKeeps ==
  ASSUME ReferralInvariant, NEW t \in Tx, Abort(t)
  PROVE  ReferralInvariant'
<1> USE InvariantParts
<1>1. Finish(t) /\ UNCHANGED <<db, issued, expired, lives, credits, departed>>
  BY DEF Abort, clocks, history
<1>2. DataInvariant'
  BY <1>1, DataUnchanged
<1>3. /\ db' \in [Key -> Row \cup {NoRow}] /\ \A k \in Key : db'[k] \in RowType(k) \cup {NoRow}
      /\ issued' \subseteq Code /\ expired' \subseteq issued'
      /\ lives' \in [Human -> Nat] /\ credits' \in [Human -> Nat]
      /\ departed' \subseteq Human /\ departed \subseteq departed'
  BY <1>1 DEF ReferralTypeOK
<1> QED
  BY <1>1, <1>2, <1>3, FinishKeeps

\* A code expires, or nothing happens.
LEMMA ExpireKeeps ==
  ASSUME ReferralInvariant, UNCHANGED vars \/ \E c \in Code : Expire(c)
  PROVE  ReferralInvariant'
<1> USE InvariantParts
<1>1. /\ UNCHANGED <<db, work, pc, req, issued, lives, credits, departed>>
      /\ expired' \subseteq issued
  BY DEF Expire, history, vars, clocks, ReferralTypeOK
<1>2. ReferralTypeOK'
  BY <1>1 DEF ReferralTypeOK
<1>3. WriteExclusive'
  BY <1>1 DEF WriteExclusive
<1>4. RequestsOnCourse'
  BY <1>1, UndisturbedCourse DEF RequestsOnCourse
<1>5. DataInvariant'
  BY <1>1, DataUnchanged
<1>6. ClaimsEarned'
  BY <1>1 DEF ClaimsEarned
<1> QED
  BY <1>2, <1>3, <1>4, <1>5, <1>6 DEF ReferralInvariant, DataInvariant

-----------------------------------------------------------------------------
(* What a commit makes of the tables: five effects, by what was asked and  *)
(* by whether a referral was made or activated.                            *)

OnlyRows(K) == \A k \in Key \ K : db'[k] = db[k]

\* A registration that redeems no code: a new life, or a refreshed row.
PlainRegister(h) ==
  /\ OnlyRows({RegistrationOf(h)})
  /\ \/ /\ db[RegistrationOf(h)] = NoRow
        /\ db'[RegistrationOf(h)] = [total |-> 0, signal |-> 0]
        /\ lives' = [lives EXCEPT ![h] = @ + 1]
     \/ db'[RegistrationOf(h)] = db[RegistrationOf(h)] /\ lives' = lives
  /\ UNCHANGED <<credits, departed>>

\* A first registration that redeems code c.
RedeemingRegister(h, c) ==
  /\ OnlyRows({RegistrationOf(h), ReferralOf(h), CodeOf(c)})
  /\ db[RegistrationOf(h)] = NoRow
  /\ db'[RegistrationOf(h)] = [total |-> 0, signal |-> 0]
  /\ db[ReferralOf(h)] = NoRow /\ db[CodeOf(c)] # NoRow
  /\ db[CodeOf(c)].used < MaxUses /\ db[CodeOf(c)].referrer # h
  /\ db'[ReferralOf(h)] = [referrer |-> db[CodeOf(c)].referrer, code |-> c,
                           state |-> "pending"]
  /\ db'[CodeOf(c)] = [referrer |-> db[CodeOf(c)].referrer,
                       used |-> db[CodeOf(c)].used + 1]
  /\ lives' = [lives EXCEPT ![h] = @ + 1]
  /\ UNCHANGED <<credits, departed>>

\* An answer or a revocation that activates nothing.
PlainAnswer(h) ==
  /\ OnlyRows({RegistrationOf(h)})
  /\ /\ MeetsBar(db'[RegistrationOf(h)])
     /\ db[ReferralOf(h)] # NoRow
     => db[ReferralOf(h)].state = "active"
  /\ UNCHANGED <<lives, credits, departed>>

\* An answer that activates the referral of h by r.
ActivatingAnswer(h, r) ==
  /\ OnlyRows({RegistrationOf(h), ReferralOf(h), ReputationOf(r)})
  /\ db[ReferralOf(h)] # NoRow /\ db[ReferralOf(h)].state = "pending"
  /\ r = db[ReferralOf(h)].referrer
  /\ db'[ReferralOf(h)] = [referrer |-> r, code |-> db[ReferralOf(h)].code,
                           state |-> "active"]
  /\ db'[ReputationOf(r)] = Credited(db[ReputationOf(r)])
  /\ credits' = [credits EXCEPT ![h] = @ + 1]
  /\ UNCHANGED <<lives, departed>>

\* The deletion of the account of h.
Departure(h) ==
  /\ \A k \in Key : db'[k] # db[k] =>
       /\ db'[k] = NoRow
       /\ k[1] \in {"registrations", "reputation", "board_members"} => k[2] = h
       /\ k[1] = "referrals" => k[2] = h \/ db[k].referrer = h
  /\ departed' = departed \cup {h}
  /\ UNCHANGED <<lives, credits>>

\* Every commit has one of these effects.
LEMMA CommitEffect ==
  ASSUME ReferralInvariant, NEW t \in Tx, NEW h \in Human, h = req[t].human, Commit(t, h)
  PROVE  \/ PlainRegister(h)
         \/ \E c \in Code : /\ RedeemingRegister(h, c)
                            /\ Wrote(t, RegistrationOf(h))
         \/ PlainAnswer(h)
         \/ \E r \in Human : ActivatingAnswer(h, r)
         \/ Departure(h)
<1> USE InvariantParts
<1> SUFFICES ASSUME NEW reg, reg = RegistrationOf(h), NEW ref, ref = ReferralOf(h)
             PROVE  \/ PlainRegister(h)
                    \/ \E c \in Code : /\ RedeemingRegister(h, c)
                                       /\ Wrote(t, reg)
                    \/ PlainAnswer(h)
                    \/ \E r \in Human : ActivatingAnswer(h, r)
                    \/ Departure(h)
  OBVIOUS
<1>1. /\ pc[t] = "commit" /\ pc[t] # "idle" /\ Course(t)
      /\ req[t].op \in {"register", "submit", "revoke", "delete"}
  BY DEF Commit, RequestsOnCourse, Course, Staged
<1>2. \A k \in Key : /\ Wrote(t, k) => db'[k] = work[t][k]
                     /\ ~Wrote(t, k) => db'[k] = db[k]
  BY DEF Commit, Visible, Wrote
<1>3. /\ lives' = IF req[t].op = "register" /\ db[reg] = NoRow
                  THEN [lives EXCEPT ![h] = @ + 1] ELSE lives
      /\ credits' = IF req[t].op = "submit" /\ Wrote(t, ref)
                    THEN [credits EXCEPT ![h] = @ + 1] ELSE credits
      /\ departed' = IF req[t].op = "delete" THEN departed \cup {h} ELSE departed
  BY DEF Commit, Wrote
<1>4. /\ reg \in Key /\ ref \in Key /\ reg # ref
      /\ db[reg] \in Registration \cup {NoRow}
      /\ db[ref] \in Referral \cup {NoRow}
  BY Keys, RowsTyped
<1>5. CASE req[t].op = "register"
  <2> SUFFICES ASSUME NEW c, c = req[t].code
               PROVE  PlainRegister(h) \/ \E d \in Code : RedeemingRegister(h, d) /\ Wrote(t, reg)
    OBVIOUS
  <2>1. Registering(t, h, c) /\ c \in Code \cup {NoRow}
    BY <1>1, <1>5, RequestTyped DEF Course
  <2>2. Wrote(t, reg)
    <3>1. [total |-> 0, signal |-> 0] \in Registration
      BY DEF Registration
    <3>2. [total |-> 0, signal |-> 0] # Untouched /\ db[reg] # Untouched
      BY <1>4, <3>1, RowTypes, Marks
    <3> QED
      BY <1>1, <2>1, <3>2 DEF Registering, Wrote
  <2>3. CASE ~Wrote(t, ref)
    <3>1. \A k \in Key \ {reg} : db'[k] = db[k]
      BY <1>2, <2>1, <2>3 DEF Registering
    <3> QED
      BY <1>1, <1>2, <1>3, <1>4, <1>5, <2>1, <2>2, <3>1
      DEF Registering, PlainRegister, OnlyRows
  <2>4. CASE Wrote(t, ref)
    <3>1. /\ c \in Code /\ db[ref] = NoRow /\ db[CodeOf(c)] # NoRow
          /\ db[CodeOf(c)].used < MaxUses /\ db[CodeOf(c)].referrer # h
          /\ work[t][ref] = [referrer |-> db[CodeOf(c)].referrer, code |-> c,
                             state |-> "pending"]
          /\ work[t][CodeOf(c)] = [referrer |-> db[CodeOf(c)].referrer,
                                   used |-> db[CodeOf(c)].used + 1]
          /\ db[reg] = NoRow /\ work[t][reg] = [total |-> 0, signal |-> 0]
      BY <1>1, <2>1, <2>4 DEF Registering
    <3>2. CodeOf(c) \in Key /\ CodeOf(c) \notin {reg, ref}
          /\ db[CodeOf(c)] \in CodeRow
      BY <3>1, Keys, RowsTyped
    <3>3. Wrote(t, CodeOf(c))
      <4>1. db[CodeOf(c)].referrer \in Human /\ db[CodeOf(c)].used \in Nat
        BY <3>2 DEF CodeRow
      <4>2. [referrer |-> db[CodeOf(c)].referrer, used |-> db[CodeOf(c)].used + 1] \in CodeRow
        BY <4>1 DEF CodeRow
      <4> QED
        BY <3>1, <4>2, RowTypes, Marks DEF Wrote
    <3>4. \A k \in Key \ {reg, ref, CodeOf(c)} : db'[k] = db[k]
      BY <1>2, <2>1 DEF Registering
    <3>5. RedeemingRegister(h, c)
      BY <1>2, <1>3, <1>4, <1>5, <2>2, <2>4, <3>1, <3>2, <3>3, <3>4
      DEF RedeemingRegister, OnlyRows
    <3> QED
      BY <2>2, <3>1, <3>5
  <2> QED
    BY <2>3, <2>4
<1>6. CASE req[t].op \in {"submit", "revoke"}
  <2>1. CountingAnswer(t, h)
    BY <1>1, <1>6 DEF Course
  <2>2. lives' = lives /\ departed' = departed
    BY <1>3, <1>6
  <2>3. CASE ~Wrote(t, ref)
    <3>1. OnlyRows({reg}) /\ credits' = credits
      BY <1>2, <1>3, <1>6, <2>1, <2>3 DEF CountingAnswer, OnlyRows
    <3>2. ASSUME MeetsBar(db'[reg]), db[ref] # NoRow
          PROVE  db[ref].state = "active"
      <4>1. db[ref].state \in {"pending", "active"}
        BY <1>4, <3>2 DEF Referral
      <4>2. CASE MeetsBar(db[reg])
        BY <3>2, <4>2 DEF DataInvariant, PendingBelowBar, Edge
      <4>3. CASE ~MeetsBar(db[reg])
        <5>1. Wrote(t, reg) /\ db'[reg] = work[t][reg]
          BY <1>2, <1>4, <3>2, <4>3
        <5>2. CASE req[t].op = "submit"
          BY <1>1, <2>1, <2>3, <3>2, <4>1, <5>1, <5>2 DEF CountingAnswer
        <5>3. CASE req[t].op = "revoke"
          <6>1. /\ db[reg] \in Registration /\ work[t][reg] \in Registration
                /\ work[t][reg].total <= db[reg].total
                /\ work[t][reg].signal <= db[reg].signal
            BY <1>4, <2>1, <5>1, <5>3, RowsTyped DEF CountingAnswer, Wrote
          <6>2. /\ db[reg].total \in Nat /\ db[reg].signal \in Nat
                /\ work[t][reg].total \in Nat /\ work[t][reg].signal \in Nat
            BY <6>1 DEF Registration
          <6>3. db[reg] # NoRow
            BY <6>1, RowTypes, Marks
          <6>4. work[t][reg].total >= RequiredTotal /\ work[t][reg].signal >= RequiredSignal
            BY <3>2, <5>1 DEF MeetsBar
          <6> QED
            BY <4>3, <6>1, <6>2, <6>3, <6>4, ReferralAssumption DEF MeetsBar
        <5> QED
          BY <1>6, <5>2, <5>3
      <4> QED
        BY <4>2, <4>3
    <3> QED
      BY <2>2, <3>1, <3>2 DEF PlainAnswer
  <2>4. CASE Wrote(t, ref)
    <3> SUFFICES ASSUME NEW r, r = db[ref].referrer, NEW rep, rep = ReputationOf(r)
                 PROVE  \E s \in Human : ActivatingAnswer(h, s)
      OBVIOUS
    <3>1. /\ req[t].op = "submit"
          /\ db[ref] # NoRow /\ db[ref].state = "pending"
          /\ work[t][ref] = [referrer |-> r, code |-> db[ref].code, state |-> "active"]
          /\ work[t][rep] = Credited(db[rep])
      BY <1>1, <2>1, <2>4 DEF CountingAnswer
    <3>2. r \in Human
      BY <1>4, <3>1 DEF Referral
    <3>3. rep \in Key /\ db[rep] \in Reputation \cup {NoRow}
      BY <3>2, Keys, RowsTyped
    <3>4. Wrote(t, rep)
      BY <3>1, <3>3, CreditedType, RowTypes, Marks DEF Wrote
    <3>5. \A k \in Key \ {reg, ref, rep} : db'[k] = db[k]
      BY <1>2, <2>1 DEF CountingAnswer
    <3>6. /\ db'[ref] = work[t][ref] /\ db'[rep] = work[t][rep]
          /\ credits' = [credits EXCEPT ![h] = @ + 1]
      BY <1>2, <1>3, <1>4, <2>4, <3>1, <3>3, <3>4
    <3>7. ActivatingAnswer(h, r)
      BY <2>2, <3>1, <3>5, <3>6 DEF ActivatingAnswer, OnlyRows
    <3> QED
      BY <3>2, <3>7
  <2> QED
    BY <2>3, <2>4
<1>7. CASE req[t].op = "delete"
  <2>1. Deleting(t, h)
    BY <1>1, <1>7 DEF Course
  <2>2. \A k \in Key : db'[k] # db[k] => /\ Wrote(t, k)
                                         /\ db'[k] = work[t][k]
    BY <1>2
  <2> QED
    BY <1>3, <1>7, <2>1, <2>2 DEF Deleting, Departure
<1> QED
  BY <1>1, <1>5, <1>6, <1>7

\* A commit that changes no more than the registration of h.
LEMMA CountersData ==
  ASSUME ReferralTypeOK, DataInvariant, NEW h \in Human,
         OnlyRows({RegistrationOf(h)}),
         MeetsBar(db'[RegistrationOf(h)]) /\ db[ReferralOf(h)] # NoRow
           => db[ReferralOf(h)].state = "active",
         UNCHANGED <<issued, credits, departed>>,
         lives' \in [Human -> Nat], \A g \in Human : lives'[g] >= lives[g]
  PROVE  DataInvariant'
<1>1. /\ \A g \in Human : /\ g # h => db'[RegistrationOf(g)] = db[RegistrationOf(g)]
                          /\ db'[ReferralOf(g)] = db[ReferralOf(g)]
                          /\ db'[ReputationOf(g)] = db[ReputationOf(g)]
                          /\ db'[SeatOf(g)] = db[SeatOf(g)]
      /\ \A c \in Code : db'[CodeOf(c)] = db[CodeOf(c)]
  <2>1. \A g \in Human : /\ {ReferralOf(g), ReputationOf(g), SeatOf(g)} \subseteq Key \ {RegistrationOf(h)}
                         /\ g # h => RegistrationOf(g) \in Key \ {RegistrationOf(h)}
    BY Keys
  <2>2. \A c \in Code : CodeOf(c) \in Key \ {RegistrationOf(h)}
    BY Keys
  <2> QED
    BY <2>1, <2>2 DEF OnlyRows
<1>2. CodesIssued'
  BY <1>1 DEF DataInvariant, CodesIssued, Edge
<1>3. CodeSingleUse'
  BY <1>1 DEF DataInvariant, CodeSingleUse, Edge
<1>4. CreditsBounded'
  BY <1>1 DEF DataInvariant, CreditsBounded, Edge, ReferralTypeOK
<1>5. PendingBelowBar'
  BY <1>1 DEF DataInvariant, PendingBelowBar, Edge, MeetsBar
<1>6. ReputationBacked'
  <2>1. \A r \in Human : ActiveFor(r)' = ActiveFor(r)
    BY <1>1 DEF ActiveFor, ReferredBy, Edge
  <2> QED
    BY <1>1, <2>1 DEF DataInvariant, ReputationBacked
<1>7. BoardSeatsEarned'
  BY <1>1 DEF DataInvariant, BoardSeatsEarned
<1> QED
  BY <1>2, <1>3, <1>4, <1>5, <1>6, <1>7 DEF DataInvariant

\* A commit that redeems a code: the new life pays for the credit that the new
\* referral may earn, and the one use of the code for the referral.
LEMMA RedeemingData ==
  ASSUME ReferralTypeOK, DataInvariant, NEW h \in Human, NEW c \in Code,
         RedeemingRegister(h, c), issued' = issued
  PROVE  DataInvariant'
<1> DEFINE edge == [referrer |-> db[CodeOf(c)].referrer, code |-> c, state |-> "pending"]
<1>1. /\ db[ReferralOf(h)] = NoRow /\ db[CodeOf(c)] # NoRow
      /\ db[CodeOf(c)].used < MaxUses /\ db[CodeOf(c)].referrer # h
      /\ db'[ReferralOf(h)] = edge
      /\ db'[CodeOf(c)] = [referrer |-> db[CodeOf(c)].referrer,
                           used |-> db[CodeOf(c)].used + 1]
      /\ db'[RegistrationOf(h)] = [total |-> 0, signal |-> 0]
      /\ credits' = credits /\ departed' = departed
      /\ lives' = [lives EXCEPT ![h] = @ + 1]
  BY DEF RedeemingRegister
<1>2. /\ edge.referrer = db[CodeOf(c)].referrer /\ edge.code = c
      /\ edge.state = "pending" /\ edge # NoRow
  <2>1. db[CodeOf(c)] \in CodeRow
    BY <1>1, RowsTyped
  <2>2. edge \in Referral
    BY <2>1 DEF CodeRow, Referral
  <2> QED
    BY <2>2, RowTypes, Marks
<1> HIDE DEF edge
<1>3. /\ \A g \in Human : /\ g # h => /\ db'[RegistrationOf(g)] = db[RegistrationOf(g)]
                                      /\ db'[ReferralOf(g)] = db[ReferralOf(g)]
                          /\ db'[ReputationOf(g)] = db[ReputationOf(g)]
                          /\ db'[SeatOf(g)] = db[SeatOf(g)]
      /\ \A d \in Code : d # c => db'[CodeOf(d)] = db[CodeOf(d)]
  <2> DEFINE K == {RegistrationOf(h), ReferralOf(h), CodeOf(c)}
  <2>1. \A g \in Human : /\ {ReputationOf(g), SeatOf(g)} \subseteq Key \ K
                         /\ g # h => {RegistrationOf(g), ReferralOf(g)} \subseteq Key \ K
    BY Keys
  <2>2. \A d \in Code : d # c => CodeOf(d) \in Key \ K
    BY Keys
  <2>3. \A k \in Key \ K : db'[k] = db[k]
    BY DEF RedeemingRegister, OnlyRows
  <2> HIDE DEF K
  <2> QED
    BY <2>1, <2>2, <2>3
<1>4. CodesIssued'
  BY <1>1, <1>2, <1>3 DEF DataInvariant, CodesIssued, Edge
<1>5. CodeSingleUse'
  <2> SUFFICES ASSUME NEW d \in Code
               PROVE  LET redeemers == {g \in Human : db'[ReferralOf(g)] # NoRow
                                                      /\ db'[ReferralOf(g)].code = d}
                      IN /\ db'[CodeOf(d)] # NoRow =>
                              /\ Cardinality(redeemers) <= db'[CodeOf(d)].used
                              /\ db'[CodeOf(d)].used <= MaxUses
                         /\ \A g \in redeemers : db'[ReferralOf(g)].referrer # g
    BY DEF CodeSingleUse, Edge
  <2> DEFINE old == {g \in Human : db[ReferralOf(g)] # NoRow /\ db[ReferralOf(g)].code = d}
             new == {g \in Human : db'[ReferralOf(g)] # NoRow /\ db'[ReferralOf(g)].code = d}
  <2>1. /\ db[CodeOf(d)] # NoRow => /\ Cardinality(old) <= db[CodeOf(d)].used
                                    /\ db[CodeOf(d)].used <= MaxUses
        /\ \A g \in old : db[ReferralOf(g)].referrer # g
    BY DEF DataInvariant, CodeSingleUse, Edge
  <2>2. \A g \in new : db'[ReferralOf(g)].referrer # g
    BY <1>1, <1>2, <1>3, <2>1
  <2>3. CASE d # c
    <3>1. new = old
      BY <1>1, <1>2, <1>3, <2>3
    <3> HIDE DEF old, new
    <3>2. db'[CodeOf(d)] # NoRow => /\ Cardinality(new) <= db'[CodeOf(d)].used
                                    /\ db'[CodeOf(d)].used <= MaxUses
      BY <1>3, <2>1, <2>3, <3>1
    <3> QED
      BY <2>2, <3>2 DEF new
  <2>4. CASE d = c
    <3>1. new = old \cup {h} /\ h \notin old
      BY <1>1, <1>2, <1>3, <2>4
    <3>2. IsFiniteSet(old)
      BY ReferralAssumption, FS_Subset
    <3> HIDE DEF old, new
    <3>3. Cardinality(new) = Cardinality(old) + 1 /\ Cardinality(old) \in Nat
      BY <3>1, <3>2, FS_AddElement, FS_CardinalityType
    <3>4. db[CodeOf(c)] \in CodeRow
      BY <1>1, RowsTyped
    <3>5. /\ db[CodeOf(c)].used \in Nat /\ db[CodeOf(c)].used < 1
          /\ db'[CodeOf(c)].used = db[CodeOf(c)].used + 1
      BY <1>1, <3>4 DEF CodeRow, MaxUses
    <3>6. /\ Cardinality(new) <= db'[CodeOf(d)].used /\ db'[CodeOf(d)].used <= MaxUses
      <4>1. Cardinality(old) <= db[CodeOf(c)].used
        BY <1>1, <2>1, <2>4
      <4> QED
        BY <2>4, <3>3, <3>5, <4>1 DEF MaxUses
    <3> QED
      BY <2>2, <3>6 DEF new
  <2> QED
    BY <2>3, <2>4
<1>6. CreditsBounded'
  <2> SUFFICES ASSUME NEW g \in Human
               PROVE  credits[g] + (IF db'[ReferralOf(g)] # NoRow
                                       /\ db'[ReferralOf(g)].state = "pending" THEN 1 ELSE 0)
                        <= lives'[g]
    BY <1>1 DEF CreditsBounded, Edge
  <2>1. credits[g] + (IF db[ReferralOf(g)] # NoRow
                         /\ db[ReferralOf(g)].state = "pending" THEN 1 ELSE 0)
          <= lives[g]
    BY DEF DataInvariant, CreditsBounded, Edge
  <2>2. credits[g] \in Nat /\ lives[g] \in Nat /\ lives'[g] = IF g = h THEN lives[g] + 1 ELSE lives[g]
    BY <1>1 DEF ReferralTypeOK
  <2> QED
    BY <1>1, <1>3, <2>1, <2>2
<1>7. PendingBelowBar'
  <2>1. ~MeetsBar(db'[RegistrationOf(h)])
    <3>1. db'[RegistrationOf(h)].total = 0
      BY <1>1
    <3> QED
      BY <3>1, ReferralAssumption DEF MeetsBar
  <2>2. \A g \in Human : g # h /\ db'[ReferralOf(g)] # NoRow /\ MeetsBar(db'[RegistrationOf(g)])
                           => db'[ReferralOf(g)].state = "active"
    BY <1>3 DEF DataInvariant, PendingBelowBar, Edge, MeetsBar
  <2> QED
    BY <2>1, <2>2 DEF PendingBelowBar, Edge, MeetsBar
<1>8. ReputationBacked'
  <2>1. \A r \in Human : ActiveFor(r)' = ActiveFor(r)
    BY <1>1, <1>2, <1>3 DEF ActiveFor, ReferredBy, Edge
  <2> QED
    BY <1>1, <1>3, <2>1 DEF DataInvariant, ReputationBacked
<1>9. BoardSeatsEarned'
  BY <1>1, <1>3 DEF DataInvariant, BoardSeatsEarned
<1> QED
  BY <1>4, <1>5, <1>6, <1>7, <1>8, <1>9 DEF DataInvariant

\* A commit that activates a referral: one more activated referral, one more in
\* the reputation of its referrer, and the credit was paid for.
LEMMA ActivatingData ==
  ASSUME ReferralTypeOK, DataInvariant, NEW h \in Human, NEW r \in Human,
         ActivatingAnswer(h, r), issued' = issued
  PROVE  /\ DataInvariant'
         /\ \A g \in Human :
              db[ReputationOf(g)] # NoRow /\ db[ReputationOf(g)].score >= BoardThreshold
              => db'[ReputationOf(g)] # NoRow /\ db'[ReputationOf(g)].score >= BoardThreshold
<1> DEFINE edge == [referrer |-> r, code |-> db[ReferralOf(h)].code, state |-> "active"]
           before(g) == IF db[ReputationOf(g)] = NoRow THEN 0 ELSE db[ReputationOf(g)].active
<1>1. /\ db[ReferralOf(h)] # NoRow /\ db[ReferralOf(h)].state = "pending"
      /\ r = db[ReferralOf(h)].referrer
      /\ db'[ReferralOf(h)] = edge
      /\ db'[ReputationOf(r)] = Credited(db[ReputationOf(r)])
      /\ credits' = [credits EXCEPT ![h] = @ + 1]
      /\ lives' = lives /\ departed' = departed
  BY DEF ActivatingAnswer
<1>2. /\ edge.referrer = r /\ edge.code = db[ReferralOf(h)].code
      /\ edge.state = "active" /\ edge # NoRow
  <2>1. db[ReferralOf(h)] \in Referral
    BY <1>1, RowsTyped
  <2>2. edge \in Referral
    BY <2>1 DEF Referral
  <2> QED
    BY <2>2, RowTypes, Marks
<1> HIDE DEF edge
<1>3. /\ \A g \in Human : /\ g # h => /\ db'[RegistrationOf(g)] = db[RegistrationOf(g)]
                                      /\ db'[ReferralOf(g)] = db[ReferralOf(g)]
                          /\ g # r => db'[ReputationOf(g)] = db[ReputationOf(g)]
                          /\ db'[SeatOf(g)] = db[SeatOf(g)]
      /\ \A d \in Code : db'[CodeOf(d)] = db[CodeOf(d)]
  <2> DEFINE K == {RegistrationOf(h), ReferralOf(h), ReputationOf(r)}
  <2>1. \A g \in Human : /\ SeatOf(g) \in Key \ K
                         /\ g # r => ReputationOf(g) \in Key \ K
                         /\ g # h => {RegistrationOf(g), ReferralOf(g)} \subseteq Key \ K
    BY Keys
  <2>2. \A d \in Code : CodeOf(d) \in Key \ K
    BY Keys
  <2>3. \A k \in Key \ K : db'[k] = db[k]
    BY DEF ActivatingAnswer, OnlyRows
  <2> HIDE DEF K
  <2> QED
    BY <2>1, <2>2, <2>3
<1>4. LET old == db[ReputationOf(r)]
          new == db'[ReputationOf(r)]
      IN /\ old \in Reputation \cup {NoRow} /\ new \in Reputation /\ new # NoRow
         /\ new.active = (IF old = NoRow THEN 0 ELSE old.active) + 1
         /\ new.score = (IF old = NoRow THEN 0 ELSE old.score) + RepPerReferral
         /\ new.tier = TierForScore(new.score)
  <2>1. db[ReputationOf(r)] \in Reputation \cup {NoRow}
    BY RowsTyped
  <2>2. Credited(db[ReputationOf(r)]) \in Reputation
    BY <2>1, CreditedType
  <2> QED
    BY <1>1, <2>1, <2>2, CreditedType, RowTypes, Marks
<1>5. CodesIssued'
  BY <1>1, <1>2, <1>3 DEF DataInvariant, CodesIssued, Edge
<1>6. CodeSingleUse'
  <2> SUFFICES ASSUME NEW d \in Code
               PROVE  LET redeemers == {g \in Human : db'[ReferralOf(g)] # NoRow
                                                      /\ db'[ReferralOf(g)].code = d}
                      IN /\ db'[CodeOf(d)] # NoRow =>
                              /\ Cardinality(redeemers) <= db'[CodeOf(d)].used
                              /\ db'[CodeOf(d)].used <= MaxUses
                         /\ \A g \in redeemers : db'[ReferralOf(g)].referrer # g
    BY DEF CodeSingleUse, Edge
  <2> DEFINE old == {g \in Human : db[ReferralOf(g)] # NoRow /\ db[ReferralOf(g)].code = d}
             new == {g \in Human : db'[ReferralOf(g)] # NoRow /\ db'[ReferralOf(g)].code = d}
  <2>1. /\ db[CodeOf(d)] # NoRow => /\ Cardinality(old) <= db[CodeOf(d)].used
                                    /\ db[CodeOf(d)].used <= MaxUses
        /\ \A g \in old : db[ReferralOf(g)].referrer # g
    BY DEF DataInvariant, CodeSingleUse, Edge
  <2>2. new = old
    BY <1>1, <1>2, <1>3
  <2>3. \A g \in new : db'[ReferralOf(g)].referrer # g
    BY <1>1, <1>2, <1>3, <2>1
  <2> HIDE DEF old, new
  <2>4. db'[CodeOf(d)] # NoRow => /\ Cardinality(new) <= db'[CodeOf(d)].used
                                  /\ db'[CodeOf(d)].used <= MaxUses
    BY <1>3, <2>1, <2>2
  <2> QED
    BY <2>3, <2>4 DEF new
<1>7. CreditsBounded'
  <2> SUFFICES ASSUME NEW g \in Human
               PROVE  credits'[g] + (IF db'[ReferralOf(g)] # NoRow
                                        /\ db'[ReferralOf(g)].state = "pending" THEN 1 ELSE 0)
                        <= lives[g]
    BY <1>1 DEF CreditsBounded, Edge
  <2>1. credits[g] + (IF db[ReferralOf(g)] # NoRow
                         /\ db[ReferralOf(g)].state = "pending" THEN 1 ELSE 0)
          <= lives[g]
    BY DEF DataInvariant, CreditsBounded, Edge
  <2>2. credits[g] \in Nat /\ lives[g] \in Nat
        /\ credits'[g] = IF g = h THEN credits[g] + 1 ELSE credits[g]
    BY <1>1 DEF ReferralTypeOK
  <2> QED
    BY <1>1, <1>2, <1>3, <2>1, <2>2
<1>8. PendingBelowBar'
  <2>1. \A g \in Human : g # h /\ db'[ReferralOf(g)] # NoRow /\ MeetsBar(db'[RegistrationOf(g)])
                           => db'[ReferralOf(g)].state = "active"
    BY <1>3 DEF DataInvariant, PendingBelowBar, Edge, MeetsBar
  <2> QED
    BY <1>1, <1>2, <2>1 DEF PendingBelowBar, Edge, MeetsBar
<1>9. ReputationBacked'
  <2>1. \A g \in Human : g # r => ActiveFor(g)' = ActiveFor(g)
    BY <1>1, <1>2, <1>3 DEF ActiveFor, ReferredBy, Edge
  <2>2. ActiveFor(r)' = ActiveFor(r) \cup {h} /\ h \notin ActiveFor(r)
    BY <1>1, <1>2, <1>3 DEF ActiveFor, ReferredBy, Edge
  <2>3. IsFiniteSet(ActiveFor(r))
    <3>1. ActiveFor(r) \subseteq Human
      BY DEF ActiveFor, ReferredBy
    <3> QED
      BY <3>1, ReferralAssumption, FS_Subset
  <2>4. /\ Cardinality(ActiveFor(r) \cup {h}) = Cardinality(ActiveFor(r)) + 1
        /\ Cardinality(ActiveFor(r)) \in Nat
    BY <2>2, <2>3, FS_AddElement, FS_CardinalityType
  <2>5. ASSUME NEW g \in Human \ departed, g # r
        PROVE  LET rep    == db'[ReputationOf(g)]
                   active == IF rep = NoRow THEN 0 ELSE rep.active
               IN /\ rep # NoRow => /\ rep.score = rep.active * RepPerReferral
                                    /\ rep.tier = TierForScore(rep.score)
                  /\ active >= Cardinality(ActiveFor(g)')
                  /\ departed' = {} => active = Cardinality(ActiveFor(g)')
    BY <1>1, <1>3, <2>1, <2>5 DEF DataInvariant, ReputationBacked
  <2>6. ASSUME r \in Human \ departed
        PROVE  LET rep    == db'[ReputationOf(r)]
                   active == IF rep = NoRow THEN 0 ELSE rep.active
               IN /\ rep # NoRow => /\ rep.score = rep.active * RepPerReferral
                                    /\ rep.tier = TierForScore(rep.score)
                  /\ active >= Cardinality(ActiveFor(r)')
                  /\ departed' = {} => active = Cardinality(ActiveFor(r)')
    <3> DEFINE a == before(r)
               n == Cardinality(ActiveFor(r))
    <3>1. /\ a >= n
          /\ departed = {} => a = n
          /\ db[ReputationOf(r)] # NoRow => db[ReputationOf(r)].score = a * RepPerReferral
      BY <2>6 DEF DataInvariant, ReputationBacked
    <3>2. a \in Nat /\ n \in Nat /\ RepPerReferral \in Nat
      BY <1>4, <2>4, ReferralAssumption DEF Reputation
    <3>3. /\ db'[ReputationOf(r)].active = a + 1
          /\ db'[ReputationOf(r)].score
               = (IF db[ReputationOf(r)] = NoRow THEN 0 ELSE db[ReputationOf(r)].score)
                   + RepPerReferral
      BY <1>4
    <3>4. a = 0 \/ db[ReputationOf(r)] # NoRow
      OBVIOUS
    <3>5. db[ReputationOf(r)] = NoRow => a = 0
      OBVIOUS
    <3> HIDE DEF a
    <3>6. db'[ReputationOf(r)].score = a * RepPerReferral + RepPerReferral
      <4>1. 0 * RepPerReferral = 0
        BY <3>2
      <4> QED
        BY <3>1, <3>2, <3>3, <3>5, <4>1
    <3>7. a * RepPerReferral + RepPerReferral = (a + 1) * RepPerReferral
      BY <3>2
    <3>8. Cardinality(ActiveFor(r)') = n + 1
      BY <2>2, <2>4
    <3> HIDE DEF n
    <3> QED
      <4>1. /\ db'[ReputationOf(r)] # NoRow
            /\ db'[ReputationOf(r)].score = db'[ReputationOf(r)].active * RepPerReferral
            /\ db'[ReputationOf(r)].tier = TierForScore(db'[ReputationOf(r)].score)
        BY <1>4, <3>3, <3>6, <3>7, Zenon
      <4>2. /\ db'[ReputationOf(r)].active >= Cardinality(ActiveFor(r)')
            /\ departed' = {} => db'[ReputationOf(r)].active = Cardinality(ActiveFor(r)')
        BY <1>1, <3>1, <3>2, <3>3, <3>8
      <4> QED
        BY <4>1, <4>2
  <2> QED
    BY <1>1, <2>5, <2>6 DEF ReputationBacked
<1>10. \A g \in Human :
         db[ReputationOf(g)] # NoRow /\ db[ReputationOf(g)].score >= BoardThreshold
         => db'[ReputationOf(g)] # NoRow /\ db'[ReputationOf(g)].score >= BoardThreshold
  <2>1. CASE db[ReputationOf(r)] = NoRow
    BY <1>3, <1>4, <2>1
  <2>2. CASE db[ReputationOf(r)] # NoRow
    <3>1. db[ReputationOf(r)].score \in Nat
      BY <1>4, <2>2 DEF Reputation
    <3>2. db'[ReputationOf(r)].score = db[ReputationOf(r)].score + RepPerReferral
      BY <1>4, <2>2
    <3> QED
      BY <1>3, <1>4, <2>2, <3>1, <3>2, ReferralAssumption
  <2> QED
    BY <2>1, <2>2
<1>11. BoardSeatsEarned'
  BY <1>1, <1>3, <1>10 DEF DataInvariant, BoardSeatsEarned
<1> QED
  BY <1>5, <1>6, <1>7, <1>8, <1>9, <1>10, <1>11 DEF DataInvariant

\* A commit that deletes the account of h: rows only go, and of the reputations
\* only that of h.
LEMMA DepartureData ==
  ASSUME ReferralTypeOK, DataInvariant, NEW h \in Human, Departure(h), issued' = issued
  PROVE  /\ DataInvariant'
         /\ \A g \in Human \ departed' : db'[ReputationOf(g)] = db[ReputationOf(g)]
<1>1. /\ departed' = departed \cup {h} /\ lives' = lives /\ credits' = credits
      /\ \A k \in Key : db'[k] \in {db[k], NoRow}
  BY DEF Departure
<1>2. /\ \A g \in Human : /\ db'[RegistrationOf(g)] \in {db[RegistrationOf(g)], NoRow}
                          /\ db'[ReferralOf(g)] \in {db[ReferralOf(g)], NoRow}
                          /\ db'[SeatOf(g)] \in {db[SeatOf(g)], NoRow}
      /\ \A d \in Code : db'[CodeOf(d)] \in {db[CodeOf(d)], NoRow}
  BY <1>1, Keys
<1>3. \A g \in Human : g # h => db'[ReputationOf(g)] = db[ReputationOf(g)]
  BY Keys DEF Departure, ReputationOf
<1>4. CodesIssued'
  BY <1>2 DEF DataInvariant, CodesIssued, Edge
<1>5. CodeSingleUse'
  <2> SUFFICES ASSUME NEW d \in Code
               PROVE  LET redeemers == {g \in Human : db'[ReferralOf(g)] # NoRow
                                                      /\ db'[ReferralOf(g)].code = d}
                      IN /\ db'[CodeOf(d)] # NoRow =>
                              /\ Cardinality(redeemers) <= db'[CodeOf(d)].used
                              /\ db'[CodeOf(d)].used <= MaxUses
                         /\ \A g \in redeemers : db'[ReferralOf(g)].referrer # g
    BY DEF CodeSingleUse, Edge
  <2> DEFINE old == {g \in Human : db[ReferralOf(g)] # NoRow /\ db[ReferralOf(g)].code = d}
             new == {g \in Human : db'[ReferralOf(g)] # NoRow /\ db'[ReferralOf(g)].code = d}
  <2>1. /\ db[CodeOf(d)] # NoRow => /\ Cardinality(old) <= db[CodeOf(d)].used
                                    /\ db[CodeOf(d)].used <= MaxUses
        /\ \A g \in old : db[ReferralOf(g)].referrer # g
    BY DEF DataInvariant, CodeSingleUse, Edge
  <2>2. new \subseteq old /\ IsFiniteSet(old)
    BY <1>2, ReferralAssumption, FS_Subset
  <2>3. \A g \in new : db'[ReferralOf(g)].referrer # g
    BY <1>2, <2>1
  <2>4. db[CodeOf(d)] \in CodeRow \cup {NoRow}
    BY RowsTyped
  <2> HIDE DEF old, new
  <2>5. Cardinality(new) <= Cardinality(old) /\ Cardinality(new) \in Nat
        /\ Cardinality(old) \in Nat
    BY <2>2, FS_Subset, FS_CardinalityType
  <2>6. db'[CodeOf(d)] # NoRow => /\ Cardinality(new) <= db'[CodeOf(d)].used
                                  /\ db'[CodeOf(d)].used <= MaxUses
    <3> SUFFICES ASSUME db'[CodeOf(d)] # NoRow
                 PROVE  /\ Cardinality(new) <= db'[CodeOf(d)].used
                        /\ db'[CodeOf(d)].used <= MaxUses
      OBVIOUS
    <3>1. db'[CodeOf(d)] = db[CodeOf(d)] /\ db[CodeOf(d)] \in CodeRow
      BY <1>2, <2>4
    <3>2. db[CodeOf(d)].used \in Nat
      BY <3>1 DEF CodeRow
    <3>3. Cardinality(old) <= db[CodeOf(d)].used /\ db[CodeOf(d)].used <= MaxUses
      BY <2>1, <3>1
    <3> QED
      BY <2>5, <3>1, <3>2, <3>3
  <2> QED
    BY <2>3, <2>6 DEF new
<1>6. CreditsBounded'
  <2> SUFFICES ASSUME NEW g \in Human
               PROVE  credits[g] + (IF db'[ReferralOf(g)] # NoRow
                                       /\ db'[ReferralOf(g)].state = "pending" THEN 1 ELSE 0)
                        <= lives[g]
    BY <1>1 DEF CreditsBounded, Edge
  <2>1. credits[g] + (IF db[ReferralOf(g)] # NoRow
                         /\ db[ReferralOf(g)].state = "pending" THEN 1 ELSE 0)
          <= lives[g]
    BY DEF DataInvariant, CreditsBounded, Edge
  <2>2. credits[g] \in Nat /\ lives[g] \in Nat
    BY DEF ReferralTypeOK
  <2> QED
    BY <1>2, <2>1, <2>2
<1>7. PendingBelowBar'
  BY <1>2 DEF DataInvariant, PendingBelowBar, Edge, MeetsBar
<1>8. ReputationBacked'
  <2> SUFFICES ASSUME NEW r \in Human \ departed'
               PROVE  LET rep    == db'[ReputationOf(r)]
                          active == IF rep = NoRow THEN 0 ELSE rep.active
                      IN /\ rep # NoRow => /\ rep.score = rep.active * RepPerReferral
                                           /\ rep.tier = TierForScore(rep.score)
                         /\ active >= Cardinality(ActiveFor(r)')
                         /\ departed' = {} => active = Cardinality(ActiveFor(r)')
    BY DEF ReputationBacked
  <2>1. r \notin departed /\ r # h /\ departed' # {}
    BY <1>1
  <2>2. ActiveFor(r)' \subseteq ActiveFor(r)
    BY <1>2 DEF ActiveFor, ReferredBy, Edge
  <2>3. IsFiniteSet(ActiveFor(r))
    <3>1. ActiveFor(r) \subseteq Human
      BY DEF ActiveFor, ReferredBy
    <3> QED
      BY <3>1, ReferralAssumption, FS_Subset
  <2>4. /\ Cardinality(ActiveFor(r)') <= Cardinality(ActiveFor(r))
        /\ Cardinality(ActiveFor(r)') \in Nat /\ Cardinality(ActiveFor(r)) \in Nat
    BY <2>2, <2>3, FS_Subset, FS_CardinalityType
  <2> DEFINE rep    == db[ReputationOf(r)]
             active == IF rep = NoRow THEN 0 ELSE rep.active
  <2>5. /\ rep # NoRow => /\ rep.score = rep.active * RepPerReferral
                          /\ rep.tier = TierForScore(rep.score)
        /\ active >= Cardinality(ActiveFor(r))
    BY <2>1 DEF DataInvariant, ReputationBacked
  <2>6. active \in Nat
    <3>1. rep \in Reputation \cup {NoRow}
      BY RowsTyped
    <3> QED
      BY <3>1 DEF Reputation
  <2>7. active >= Cardinality(ActiveFor(r)')
    BY <2>4, <2>5, <2>6
  <2> QED
    BY <1>3, <2>1, <2>5, <2>7
<1>9. BoardSeatsEarned'
  BY <1>1, <1>2, <1>3 DEF DataInvariant, BoardSeatsEarned
<1> QED
  BY <1>1, <1>3, <1>4, <1>5, <1>6, <1>7, <1>8, <1>9 DEF DataInvariant

\* A commit keeps the invariant.
LEMMA CommitKeeps ==
  ASSUME ReferralInvariant, NEW t \in Tx, pc[t] # "idle", Commit(t, req[t].human)
  PROVE  ReferralInvariant'
<1> USE InvariantParts
<1> SUFFICES ASSUME NEW h \in Human, h = req[t].human
             PROVE  ReferralInvariant'
  BY RequestTyped
<1>1. /\ Commit(t, h) /\ Finish(t) /\ UNCHANGED <<issued, expired>>
      /\ db' = [k \in Key |-> Visible(t, k)]
  BY DEF Commit, clocks
<1>2. \A k \in Key : /\ Wrote(t, k) => db'[k] = work[t][k]
                     /\ ~Wrote(t, k) => db'[k] = db[k]
  BY <1>1 DEF Visible, Wrote
<1>3. /\ db' \in [Key -> Row \cup {NoRow}]
      /\ \A k \in Key : db'[k] \in RowType(k) \cup {NoRow}
  <2>1. \A k \in Key : Visible(t, k) \in RowType(k) \cup {NoRow}
    BY DEF Visible, ReferralTypeOK
  <2>2. \A k \in Key : RowType(k) \cup {NoRow} \subseteq Row \cup {NoRow}
    BY RowTypes
  <2> QED
    BY <1>1, <2>1, <2>2
<1>4. \A s \in Tx \ {t}, k \in Key : Wrote(s, k) => db'[k] = db[k]
  BY <1>2 DEF WriteExclusive, Wrote
<1>5. /\ issued' \subseteq Code /\ expired' \subseteq issued'
      /\ lives' \in [Human -> Nat] /\ credits' \in [Human -> Nat]
      /\ departed' \subseteq Human /\ departed \subseteq departed'
      /\ \A g \in Human : lives'[g] >= lives[g]
  BY <1>1 DEF Commit, ReferralTypeOK
<1> DEFINE NoPendingFor(s, g) ==
             /\ Wrote(s, RegistrationOf(g))
             /\ db'[ReferralOf(g)] # NoRow /\ db'[ReferralOf(g)].state = "pending"
             => db[ReferralOf(g)] # NoRow /\ db[ReferralOf(g)].state = "pending"
           Risen == \A g \in Human \ departed' :
             db[ReputationOf(g)] # NoRow /\ db[ReputationOf(g)].score >= BoardThreshold
             => db'[ReputationOf(g)] # NoRow /\ db'[ReputationOf(g)].score >= BoardThreshold
<1>6. ASSUME OnlyRows({RegistrationOf(h)})
      PROVE  /\ \A g \in Human : /\ db'[ReferralOf(g)] = db[ReferralOf(g)]
                                 /\ db'[ReputationOf(g)] = db[ReputationOf(g)]
             /\ \A s \in Tx \ {t}, g \in Human : NoPendingFor(s, g)
             /\ Risen
  <2>1. \A g \in Human : {ReferralOf(g), ReputationOf(g)} \subseteq Key \ {RegistrationOf(h)}
    BY Keys
  <2>2. \A g \in Human : /\ db'[ReferralOf(g)] = db[ReferralOf(g)]
                         /\ db'[ReputationOf(g)] = db[ReputationOf(g)]
    BY <1>6, <2>1 DEF OnlyRows
  <2> QED
    BY <2>2
<1>7. CASE PlainRegister(h)
  <2>1. OnlyRows({RegistrationOf(h)}) /\ UNCHANGED <<credits, departed>>
    BY <1>7 DEF PlainRegister
  <2>2. MeetsBar(db'[RegistrationOf(h)]) /\ db[ReferralOf(h)] # NoRow
          => db[ReferralOf(h)].state = "active"
    <3>1. CASE db'[RegistrationOf(h)] = db[RegistrationOf(h)]
      BY <3>1 DEF DataInvariant, PendingBelowBar, Edge, MeetsBar
    <3>2. CASE db'[RegistrationOf(h)] = [total |-> 0, signal |-> 0]
      <4>1. db'[RegistrationOf(h)].total = 0
        BY <3>2
      <4> QED
        BY <4>1, ReferralAssumption DEF MeetsBar
    <3> QED
      BY <1>7, <3>1, <3>2 DEF PlainRegister
  <2>3. DataInvariant'
    BY <1>1, <1>5, <2>1, <2>2, CountersData
  <2> QED
    BY <1>1, <1>3, <1>4, <1>5, <1>6, <2>1, <2>3, FinishKeeps
<1>8. ASSUME NEW c \in Code, RedeemingRegister(h, c), Wrote(t, RegistrationOf(h))
      PROVE  ReferralInvariant'
  <2>1. DataInvariant'
    BY <1>1, <1>8, RedeemingData
  <2>2. \A s \in Tx \ {t}, g \in Human : NoPendingFor(s, g)
    <3> SUFFICES ASSUME NEW s \in Tx \ {t}, NEW g \in Human PROVE NoPendingFor(s, g)
      OBVIOUS
    <3>1. CASE g = h
      <4>1. ~Wrote(s, RegistrationOf(h))
        BY <1>8, Keys DEF WriteExclusive, Wrote
      <4> QED
        BY <3>1, <4>1
    <3>2. CASE g # h
      <4>1. ReferralOf(g) \in Key \ {RegistrationOf(h), ReferralOf(h), CodeOf(c)}
        BY <3>2, Keys
      <4>2. db'[ReferralOf(g)] = db[ReferralOf(g)]
        BY <1>8, <4>1 DEF RedeemingRegister, OnlyRows
      <4> QED
        BY <4>2
    <3> QED
      BY <3>1, <3>2
  <2>3. Risen
    <3>1. \A g \in Human :
            ReputationOf(g) \in Key \ {RegistrationOf(h), ReferralOf(h), CodeOf(c)}
      BY Keys
    <3>2. \A g \in Human : db'[ReputationOf(g)] = db[ReputationOf(g)]
      BY <1>8, <3>1 DEF RedeemingRegister, OnlyRows
    <3> QED
      BY <3>2
  <2> QED
    BY <1>1, <1>3, <1>4, <1>5, <2>1, <2>2, <2>3, FinishKeeps
<1>9. CASE PlainAnswer(h)
  <2>1. DataInvariant'
    BY <1>1, <1>5, <1>9, CountersData DEF PlainAnswer
  <2>2. OnlyRows({RegistrationOf(h)})
    BY <1>9 DEF PlainAnswer
  <2> QED
    BY <1>1, <1>3, <1>4, <1>5, <1>6, <2>1, <2>2, FinishKeeps
<1>10. ASSUME NEW r \in Human, ActivatingAnswer(h, r)
       PROVE  ReferralInvariant'
  <2>1. DataInvariant' /\ Risen
    BY <1>1, <1>10, ActivatingData
  <2>2. \A s \in Tx \ {t}, g \in Human : NoPendingFor(s, g)
    <3>1. db'[ReferralOf(h)].state = "active"
      BY <1>10 DEF ActivatingAnswer
    <3>2. \A g \in Human : g # h => db'[ReferralOf(g)] = db[ReferralOf(g)]
      <4>1. \A g \in Human : g # h =>
              ReferralOf(g) \in Key \ {RegistrationOf(h), ReferralOf(h), ReputationOf(r)}
        BY Keys
      <4> QED
        BY <1>10, <4>1 DEF ActivatingAnswer, OnlyRows
    <3> QED
      BY <3>1, <3>2
  <2> QED
    BY <1>1, <1>3, <1>4, <1>5, <2>1, <2>2, FinishKeeps
<1>11. CASE Departure(h)
  <2>1. DataInvariant' /\ Risen
    BY <1>1, <1>11, DepartureData
  <2>2. \A g \in Human : db'[ReferralOf(g)] \in {db[ReferralOf(g)], NoRow}
    BY <1>11, Keys DEF Departure
  <2>3. \A s \in Tx \ {t}, g \in Human : NoPendingFor(s, g)
    BY <2>2
  <2> QED
    BY <1>1, <1>3, <1>4, <1>5, <2>1, <2>3, FinishKeeps
<1> QED
  BY <1>1, <1>7, <1>8, <1>9, <1>10, <1>11, CommitEffect

-----------------------------------------------------------------------------
(* The invariant, and what follows from it.                                *)

\* The tables start empty and no request is under way.
LEMMA InitInvariant == Init => ReferralInvariant
<1> SUFFICES ASSUME Init PROVE ReferralInvariant
  OBVIOUS
<1> USE DEF Init
<1>1. \A k \in Key : db[k] = NoRow
  OBVIOUS
<1>2. \A t \in Tx : /\ pc[t] = "idle" /\ \A k \in Key : work[t][k] = Untouched
  OBVIOUS
<1>3. ReferralTypeOK
  BY DEF ReferralTypeOK, Stage
<1>4. WriteExclusive
  BY <1>2 DEF WriteExclusive
<1>5. RequestsOnCourse
  BY <1>2 DEF RequestsOnCourse, Course, Staged, Wrote, DeleteStage
<1>6. \A h \in Human : Edge(h) = NoRow
  BY <1>1, Keys DEF Edge
<1>7. CodesIssued /\ CodeSingleUse
  BY <1>1, <1>6, Keys DEF CodesIssued, CodeSingleUse
<1>8. CreditsBounded /\ PendingBelowBar
  BY <1>6 DEF CreditsBounded, PendingBelowBar
<1>9. ReputationBacked
  <2>1. \A r : ActiveFor(r) = {}
    BY <1>6 DEF ActiveFor, ReferredBy
  <2>2. Cardinality({}) = 0
    BY FS_EmptySet
  <2> QED
    <3>1. \A r \in Human : db[ReputationOf(r)] = NoRow /\ Cardinality(ActiveFor(r)) = 0
      BY <1>1, <2>1, <2>2, Keys, Zenon
    <3> QED
      BY <3>1 DEF ReputationBacked
<1>10. ClaimsEarned
  BY <1>2 DEF ClaimsEarned
<1>11. BoardSeatsEarned
  BY <1>1, Keys DEF BoardSeatsEarned
<1> QED
  BY <1>3, <1>4, <1>5, <1>7, <1>8, <1>9, <1>10, <1>11 DEF ReferralInvariant

\* Every step keeps the invariant.
LEMMA NextInvariant == ReferralInvariant /\ [Next]_vars => ReferralInvariant'
<1> SUFFICES ASSUME ReferralInvariant, [Next]_vars PROVE ReferralInvariant'
  OBVIOUS
<1> USE InvariantParts
<1>1. ASSUME NEW t \in Tx, pc[t] # "idle", Step(t, req[t].human)
      PROVE  ReferralInvariant'
  <2> SUFFICES ASSUME NEW h \in Human, h = req[t].human
               PROVE  ReferralInvariant'
    BY <1>1, RequestTyped
  <2>1. Course(t)
    BY DEF RequestsOnCourse
  <2>2. CASE InsertCode(t, h)
    BY <1>1, <2>2, InsertCodeKeeps
  <2>3. CASE UpsertRegistration(t, h)
    BY <1>1, <2>1, <2>3, UpsertKeeps, StatementKeeps
  <2>4. CASE LockCode(t, h)
    BY <1>1, <2>1, <2>4, LockCodeKeeps, StatementKeeps
  <2>5. CASE Redeem(t, h)
    BY <1>1, <2>1, <2>5, RedeemKeeps, StatementKeeps
  <2>6. CASE Count(t, h)
    BY <1>1, <2>1, <2>6, CountKeeps, StatementKeeps
  <2>7. CASE Activate(t, h)
    BY <1>1, <2>1, <2>7, ActivateKeeps, StatementKeeps
  <2>8. CASE Credit(t, h)
    BY <1>1, <2>1, <2>8, CreditKeeps, StatementKeeps
  <2>9. CASE TakeSeat(t, h)
    BY <1>1, <2>9, TakeSeatKeeps
  <2>10. CASE DeleteRows(t, h)
    BY <1>1, <2>1, <2>10, DeleteRowsKeeps, StatementKeeps
  <2>11. CASE Commit(t, h)
    BY <1>1, <2>11, CommitKeeps
  <2> QED
    BY <1>1, <2>2, <2>3, <2>4, <2>5, <2>6, <2>7, <2>8, <2>9, <2>10, <2>11 DEF Step
<1> QED
  BY <1>1, AskKeeps, AbortKeeps, ExpireKeeps DEF Next

\* The tables of the referral programme and every request under way stay as
\* ReferralInvariant describes them.
THEOREM ReferralsStayRight == Spec => []ReferralInvariant
BY InitInvariant, NextInvariant, PTL DEF Spec

\* However many humans register with a code at the same time, it attributes one
\* (redeemReferralCode), and nobody refers themselves.
THEOREM CodesStaySingleUse == Spec => []CodeSingleUse
<1>1. ReferralInvariant => CodeSingleUse
  BY DEF ReferralInvariant
<1> QED
  BY <1>1, ReferralsStayRight, PTL

\* A human earns a referrer one credit in each life at most, whatever answers,
\* revocations, deletions and new registrations are interleaved.
THEOREM CreditedAtMostOncePerLife == Spec => []CreditedOncePerLife
<1>1. ReferralInvariant => CreditedOncePerLife
  <2> SUFFICES ASSUME ReferralInvariant, NEW h \in Human PROVE credits[h] <= lives[h]
    BY DEF CreditedOncePerLife
  <2>1. credits[h] \in Nat /\ lives[h] \in Nat
    BY DEF ReferralInvariant, ReferralTypeOK
  <2> QED
    BY <2>1 DEF ReferralInvariant, CreditsBounded
<1> QED
  BY <1>1, ReferralsStayRight, PTL

\* No activation is missed: the answer that reaches the bar flips the referral
\* in its own transaction (creditReferralOnActivation).
THEOREM NoActivationMissed == Spec => []PendingBelowBar
<1>1. ReferralInvariant => PendingBelowBar
  BY DEF ReferralInvariant
<1> QED
  BY <1>1, ReferralsStayRight, PTL

\* The reputation of whoever keeps the account counts the activated referrals,
\* each once.
THEOREM ReputationStaysBacked == Spec => []ReputationBacked
<1>1. ReferralInvariant => ReputationBacked
  BY DEF ReferralInvariant
<1> QED
  BY <1>1, ReferralsStayRight, PTL

\* A seat is held on the reputation it takes, though it is claimed in two
\* statements with no transaction around them (routes/board.ts).
THEOREM SeatsStayEarned == Spec => []BoardSeatsEarned
<1>1. ReferralInvariant => BoardSeatsEarned
  BY DEF ReferralInvariant
<1> QED
  BY <1>1, ReferralsStayRight, PTL
=============================================================================
