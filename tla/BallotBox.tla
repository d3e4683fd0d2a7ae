----------------------------- MODULE BallotBox ------------------------------
(***************************************************************************)
(* What the answer store promises: a ballot box with at most one ballot    *)
(* per human per question.  A ballot is cast, replaced or withdrawn at one *)
(* instant, and at that instant the published tally of the question and    *)
(* the credit of the human are those of the ballots in the box.            *)
(* AnswerStore implements it with transactions of many statements.         *)
(***************************************************************************)
EXTENDS Tally

VARIABLES
  ballots,   \* ballots[q][u]: the ballot of u on q, or NoRow
  tally,     \* tally[q]: published counts
  credit     \* credit[u]: answers given, once u is enrolled

vars == <<ballots, tally, credit>>

CreditOf(table, u) ==
  [answers |-> Cardinality(Answered(table, u)),
   signals |-> Cardinality(Signalled(table, u))]

Init ==
  /\ ballots = [q \in Question |-> [u \in Human |-> NoRow]]
  /\ tally = [q \in Question |-> NoRow]
  /\ credit = [u \in Human |-> NoRow]

Enroll(u) ==
  /\ credit[u] = NoRow
  /\ credit' = [credit EXCEPT ![u] = CreditOf(ballots, u)]
  /\ UNCHANGED <<ballots, tally>>

\* Put a in the box of q for u; b = NoRow takes the ballot out.
SetBallot(q, u, b) ==
  /\ credit[u] # NoRow
  /\ ballots' = [ballots EXCEPT ![q][u] = b]
  /\ tally' = [tally EXCEPT ![q] = TallyOf(ballots'[q])]
  /\ credit' = [credit EXCEPT ![u] = CreditOf(ballots', u)]

Cast(q, u, a)  == a \in Answer /\ SetBallot(q, u, a)
Withdraw(q, u) == ballots[q][u] # NoRow /\ SetBallot(q, u, NoRow)

Next ==
  \E u \in Human :
    \/ Enroll(u)
    \/ \E q \in Question :
         \/ \E a \in Answer : Cast(q, u, a)
         \/ Withdraw(q, u)

Spec == Init /\ [][Next]_vars
=============================================================================
