------------------------ MODULE Invalidations_proofs ------------------------
(***************************************************************************)
(* The listener skips no final log and applies no other, for every number  *)
(* of confirmations that covers the reorganisations of the chain and the   *)
(* lag of the endpoint, and whatever fails.                                *)
(*                                                                         *)
(* The listener and the question secrets together: what the cursor covers  *)
(* is erased, whatever crashes in between.  The invariants of the two      *)
(* parts carry over to the composition, as each of its steps is a step of  *)
(* both or leaves one of them alone, a crash of the broker apart; and the  *)
(* commit of an erasure is what adds a tombstone.                          *)
(***************************************************************************)
EXTENDS Invalidations, QuestionSecrets_proofs

-----------------------------------------------------------------------------
(* The listener by itself.                                                 *)

\* The number of final blocks is a number of blocks.
LEMMA FinalType ==
  ASSUME ListenerTypeOK
  PROVE  Final \in 0..Len(chain)
BY ListenerAssumption DEF Final, ListenerTypeOK

\* The invariant holds before the first poll.
LEMMA InitPoll == ListenerInit => PollInvariant
BY ListenerAssumption
DEF ListenerInit, PollInvariant, ListenerTypeOK, CursorIsFinal, RangeIsNew,
    RangeIsFinal, LogsAreComplete, LogsAreFinal, NothingSkipped,
    OnlyFinalLogsCount, Final

\* Whatever the chain does, it keeps its final blocks and has no fewer.
LEMMA ChainKeepsFinal ==
  ASSUME ListenerTypeOK, ChainStep
  PROVE  /\ chain' \in Seq(SUBSET Nullifier)
         /\ Final <= Final'
         /\ Final' \in Nat
         /\ Len(chain) <= Len(chain')
         /\ \A b \in 1..Final : chain'[b] = chain[b]
<1>1. CASE Mine
  <2>1. PICK block \in Blocks : chain' = Append(chain, block)
    BY <1>1 DEF Mine
  <2>2. block \in SUBSET Nullifier
    BY ListenerAssumption
  <2> QED BY <2>1, <2>2, ListenerAssumption DEF ListenerTypeOK, Final
<1>2. CASE Reorg
  <2>1. PICK b \in 1..Len(chain), block \in Blocks :
          b > Len(chain) - ReorgDepth /\ chain' = [chain EXCEPT ![b] = block]
    BY <1>2 DEF Reorg
  <2>2. block \in SUBSET Nullifier
    BY ListenerAssumption
  <2>3. /\ chain' \in Seq(SUBSET Nullifier)
        /\ Len(chain') = Len(chain)
        /\ \A c \in 1..Len(chain) : c # b => chain'[c] = chain[c]
    BY <2>1, <2>2 DEF ListenerTypeOK
  <2>4. Final' = Final
    BY <2>3 DEF Final
  <2>5. \A c \in 1..Final : c # b /\ c \in 1..Len(chain)
    BY <2>1, ListenerAssumption DEF Final, ListenerTypeOK
  <2> QED BY <2>3, <2>4, <2>5, FinalType DEF ListenerTypeOK
<1> QED BY <1>1, <1>2 DEF ChainStep

\* A step of the chain keeps the invariant: all that it speaks of is final.
LEMMA ChainStepPoll ==
  ASSUME PollInvariant, ChainStep
  PROVE  PollInvariant'
<1> ListenerTypeOK
  BY DEF PollInvariant
<1>1. /\ chain' \in Seq(SUBSET Nullifier)
      /\ Final <= Final'
      /\ Final' \in Nat
      /\ Len(chain) <= Len(chain')
      /\ \A b \in 1..Final : chain'[b] = chain[b]
  BY ChainKeepsFinal
<1>2. UNCHANGED <<cursor, tombstones, poll, from, to, logs, failures>>
  BY DEF ChainStep, Mine, Reorg, pollVars
<1>3. Final \in 0..Len(chain)
  BY FinalType
<1>4. ListenerTypeOK'
  BY <1>1, <1>2 DEF ListenerTypeOK
<1>5. CursorIsFinal' /\ RangeIsNew' /\ RangeIsFinal'
  BY <1>1, <1>2, <1>3 DEF PollInvariant, CursorIsFinal, RangeIsNew, RangeIsFinal, ListenerTypeOK
<1>6. LogsAreComplete'
  BY <1>1, <1>2, <1>3 DEF PollInvariant, LogsAreComplete, RangeIsFinal, ListenerTypeOK
<1>7. LogsAreFinal'
  BY <1>1, <1>2, <1>3 DEF PollInvariant, LogsAreFinal, ListenerTypeOK
<1>8. NothingSkipped'
  BY <1>1, <1>2, <1>3, ListenerAssumption DEF PollInvariant, NothingSkipped, CursorIsFinal, ListenerTypeOK
<1>9. OnlyFinalLogsCount'
  BY <1>1, <1>2, <1>3 DEF PollInvariant, OnlyFinalLogsCount, ListenerTypeOK
<1> QED BY <1>4, <1>5, <1>6, <1>7, <1>8, <1>9 DEF PollInvariant

\* The range of a poll starts right after the cursor.
LEMMA ReadCursorPoll ==
  ASSUME PollInvariant, ReadCursor
  PROVE  PollInvariant'
BY ListenerAssumption
DEF ReadCursor, PollInvariant, ListenerTypeOK, CursorIsFinal, RangeIsNew,
    RangeIsFinal, LogsAreComplete, LogsAreFinal, NothingSkipped,
    OnlyFinalLogsCount, Final

\* The range ends at a final block, also if the head that was reported is old.
LEMMA LatestFinalBlockPoll ==
  ASSUME PollInvariant, LatestFinalBlock
  PROVE  PollInvariant'
<1>1. PICK head \in 0..Len(chain) :
        LET final == IF head > Confirmations THEN head - Confirmations ELSE 0
        IN IF final < from
           THEN Sleep
           ELSE to' = final /\ poll' = "fetch" /\ UNCHANGED <<from, logs>>
  BY DEF LatestFinalBlock
<1>2. poll = "head" /\ UNCHANGED <<chain, cursor, tombstones, failures>>
  BY DEF LatestFinalBlock
<1> DEFINE final == IF head > Confirmations THEN head - Confirmations ELSE 0
<1>3. final \in Nat /\ final <= Final
  BY <1>1, ListenerAssumption DEF Final, PollInvariant, ListenerTypeOK
<1>4. CASE final < from
  <2>1. Sleep
    BY <1>1, <1>4
  <2> QED BY <1>2, <2>1
      DEF Sleep, PollInvariant, ListenerTypeOK, CursorIsFinal, RangeIsNew,
          RangeIsFinal, LogsAreComplete, LogsAreFinal, NothingSkipped,
          OnlyFinalLogsCount, Final
<1>5. CASE ~(final < from)
  <2>1. to' = final /\ poll' = "fetch" /\ UNCHANGED <<from, logs>>
    BY <1>1, <1>5
  <2>2. from <= final
    BY <1>3, <1>5 DEF PollInvariant, ListenerTypeOK
  <2>3. ListenerTypeOK'
    BY <1>2, <1>3, <2>1 DEF PollInvariant, ListenerTypeOK
  <2>4. CursorIsFinal' /\ RangeIsNew' /\ RangeIsFinal'
    BY <1>2, <1>3, <2>1, <2>2
    DEF PollInvariant, CursorIsFinal, RangeIsNew, RangeIsFinal, Final
  <2>5. LogsAreComplete' /\ LogsAreFinal' /\ NothingSkipped' /\ OnlyFinalLogsCount'
    BY <1>2, <2>1
    DEF PollInvariant, LogsAreComplete, LogsAreFinal, NothingSkipped,
        OnlyFinalLogsCount, Final
  <2> QED BY <2>3, <2>4, <2>5 DEF PollInvariant
<1> QED BY <1>4, <1>5

\* The endpoint serves all of the range as it is, so its answer is complete.
LEMMA FetchLogsPoll ==
  ASSUME PollInvariant, FetchLogs
  PROVE  PollInvariant'
<1> DEFINE range  == {b \in from..to : b > 0}
           served == {b \in range : b <= Len(chain) - RpcLag}
<1>1. PICK other \in SUBSET ((range \ served) \X Nullifier) :
        logs' = {l \in served \X Nullifier : l[2] \in chain[l[1]]} \cup other
  BY DEF FetchLogs
<1>2. /\ poll = "fetch"
      /\ poll' = "apply"
      /\ UNCHANGED <<chain, cursor, tombstones, from, to, failures>>
  BY DEF FetchLogs
<1>3. /\ from <= to /\ to <= Final /\ from \in Nat /\ to \in Nat
      /\ Final \in 0..Len(chain)
  BY <1>2, FinalType DEF PollInvariant, RangeIsFinal, ListenerTypeOK
<1>4. served = range /\ range \subseteq 1..Final
  BY <1>3, ListenerAssumption DEF Final, PollInvariant, ListenerTypeOK
<1>5. logs' = {l \in range \X Nullifier : l[2] \in chain[l[1]]}
  BY <1>1, <1>4
<1> HIDE DEF range, served
<1>6. logs' \subseteq Log
  <2>1. range \subseteq Nat
    BY <1>3, <1>4
  <2> QED BY <1>5, <2>1 DEF Log
<1>7. ListenerTypeOK'
  BY <1>2, <1>6 DEF PollInvariant, ListenerTypeOK
<1>8. CursorIsFinal' /\ RangeIsNew' /\ RangeIsFinal' /\ NothingSkipped' /\ OnlyFinalLogsCount'
  BY <1>2
  DEF PollInvariant, CursorIsFinal, RangeIsNew, RangeIsFinal, NothingSkipped,
      OnlyFinalLogsCount, Final
<1>9. LogsAreComplete'
  <2>1. SUFFICES ASSUME NEW b \in from..to, b \in 1..Len(chain), NEW n \in chain[b]
                 PROVE  <<b, n>> \in logs'
    BY <1>2 DEF LogsAreComplete
  <2>2. n \in Nullifier
    BY <2>1 DEF PollInvariant, ListenerTypeOK
  <2>3. b \in range
    BY <2>1 DEF range
  <2> QED BY <1>5, <2>1, <2>2, <2>3
<1>10. LogsAreFinal'
  <2>1. \A l \in logs' : l[1] \in range /\ l[2] \in chain[l[1]]
    BY <1>5
  <2> QED BY <1>2, <1>4, <2>1 DEF LogsAreFinal, Final
<1> QED BY <1>7, <1>8, <1>9, <1>10 DEF PollInvariant

\* An applied log is a tombstone instead of a log.
LEMMA ApplyLogPoll ==
  ASSUME PollInvariant, NEW l \in logs, ApplyLog(l)
  PROVE  PollInvariant'
<1>1. /\ poll = "apply"
      /\ tombstones' = tombstones \cup {l[2]}
      /\ logs' = logs \ {l}
      /\ UNCHANGED <<chain, cursor, poll, from, to, failures>>
  BY DEF ApplyLog
<1>2. l \in Log /\ l[1] \in 1..Final /\ l[2] \in chain[l[1]] /\ l = <<l[1], l[2]>>
  BY DEF PollInvariant, LogsAreFinal, ListenerTypeOK, Log
<1>3. ListenerTypeOK'
  BY <1>1, <1>2 DEF PollInvariant, ListenerTypeOK, Log
<1>4. CursorIsFinal' /\ RangeIsNew' /\ RangeIsFinal' /\ LogsAreFinal'
  BY <1>1
  DEF PollInvariant, CursorIsFinal, RangeIsNew, RangeIsFinal, LogsAreFinal, Final
<1>5. LogsAreComplete'
  BY <1>1, <1>2 DEF PollInvariant, LogsAreComplete
<1>6. NothingSkipped'
  BY <1>1 DEF PollInvariant, NothingSkipped
<1>7. OnlyFinalLogsCount'
  BY <1>1, <1>2 DEF PollInvariant, OnlyFinalLogsCount, Final
<1> QED BY <1>3, <1>4, <1>5, <1>6, <1>7 DEF PollInvariant

\* The cursor moves over a range of which every log is applied.
LEMMA SaveCursorPoll ==
  ASSUME PollInvariant, SaveCursor
  PROVE  PollInvariant'
<1>1. /\ poll = "apply" /\ logs = {}
      /\ cursor' = to /\ poll' = "sleep" /\ from' = 0 /\ to' = 0 /\ logs' = {}
      /\ UNCHANGED <<chain, tombstones, failures>>
  BY DEF SaveCursor, Sleep
<1>2. from <= to /\ to <= Final /\ from \in Nat /\ to \in Nat
  BY <1>1 DEF PollInvariant, RangeIsFinal, ListenerTypeOK
<1>3. to # NoCursor
  BY <1>2, ListenerAssumption
<1>4. ListenerTypeOK'
  BY <1>1, <1>2 DEF PollInvariant, ListenerTypeOK
<1>5. CursorIsFinal' /\ RangeIsNew' /\ RangeIsFinal' /\ LogsAreComplete'
        /\ LogsAreFinal' /\ OnlyFinalLogsCount'
  BY <1>1, <1>2
  DEF PollInvariant, CursorIsFinal, RangeIsNew, RangeIsFinal, LogsAreComplete,
      LogsAreFinal, OnlyFinalLogsCount, Final
<1>6. NothingSkipped'
  <2>1. SUFFICES ASSUME NEW b \in FromBlock..to, b \in 1..Len(chain)
                 PROVE  chain[b] \subseteq tombstones
    BY <1>1 DEF NothingSkipped
  <2>2. CASE b \in from..to
    BY <1>1, <2>1, <2>2 DEF PollInvariant, LogsAreComplete
  <2>3. CASE b \notin from..to
    <3>1. from # FromBlock
      BY <2>1, <2>3
    <3>2. cursor # NoCursor /\ from = cursor + 1 /\ cursor \in Nat
      BY <1>1, <3>1 DEF PollInvariant, RangeIsNew, ListenerTypeOK
    <3>3. b \in FromBlock..cursor
      BY <1>2, <2>1, <2>3, <3>2, ListenerAssumption
    <3> QED BY <2>1, <3>2, <3>3 DEF PollInvariant, NothingSkipped
  <2> QED BY <2>2, <2>3
<1> QED BY <1>4, <1>5, <1>6 DEF PollInvariant

\* A poll that fails has applied some logs and moved nothing.
LEMMA FailPoll ==
  ASSUME PollInvariant, Fail
  PROVE  PollInvariant'
BY DEF Fail, Sleep, PollInvariant, ListenerTypeOK, CursorIsFinal, RangeIsNew,
       RangeIsFinal, LogsAreComplete, LogsAreFinal, NothingSkipped,
       OnlyFinalLogsCount, Final

\* So has one whose SELECT throws.
LEMMA ApplyThrowsPoll ==
  ASSUME PollInvariant, ApplyThrows
  PROVE  PollInvariant'
BY DEF ApplyThrows, Sleep, PollInvariant, ListenerTypeOK, CursorIsFinal, RangeIsNew,
       RangeIsFinal, LogsAreComplete, LogsAreFinal, NothingSkipped,
       OnlyFinalLogsCount, Final

\* PollInvariant is inductive.
LEMMA NextPoll ==
  ASSUME PollInvariant, [ListenerNext]_listenerVars
  PROVE  PollInvariant'
<1>1. CASE ChainStep
  BY <1>1, ChainStepPoll
<1>2. CASE PollStep
  BY <1>2, ReadCursorPoll, LatestFinalBlockPoll, FetchLogsPoll, SaveCursorPoll DEF PollStep
<1>3. CASE \E l \in logs : ApplyLog(l)
  BY <1>3, ApplyLogPoll
<1>4. CASE Fail
  BY <1>4, FailPoll
<1>5. CASE ApplyThrows
  BY <1>5, ApplyThrowsPoll
<1>6. CASE UNCHANGED listenerVars
  BY <1>6
  DEF listenerVars, pollVars, PollInvariant, ListenerTypeOK, CursorIsFinal,
      RangeIsNew, RangeIsFinal, LogsAreComplete, LogsAreFinal, NothingSkipped,
      OnlyFinalLogsCount, Final
<1> QED BY <1>1, <1>2, <1>3, <1>4, <1>5, <1>6 DEF ListenerNext

-----------------------------------------------------------------------------
\* At every step, a poll has in hand what its comments say, and what the
\* cursor covers is applied.
THEOREM PollIsInvariant == ListenerSpec => []PollInvariant
<1> QED BY InitPoll, NextPoll, PTL DEF ListenerSpec

\* The listener skips no log of a final block: whatever is at or below the
\* cursor is recorded, after any number of errors and restarts.
THEOREM ListenerSkipsNothing == ListenerSpec => []NothingSkipped
<1>1. PollInvariant => NothingSkipped
  BY DEF PollInvariant
<1> QED BY <1>1, PollIsInvariant, PTL

\* Nobody is invalidated by a log that the chain drops.
THEOREM ListenerAppliesOnlyFinal == ListenerSpec => []OnlyFinalLogsCount
<1>1. PollInvariant => OnlyFinalLogsCount
  BY DEF PollInvariant
<1> QED BY <1>1, PollIsInvariant, PTL

\* The cursor never goes back, whatever head the endpoint reports.
THEOREM CursorNeverGoesBack == ListenerSpec => CursorAdvances
<1>1. ASSUME PollInvariant, [ListenerNext]_listenerVars, cursor # NoCursor
      PROVE  cursor' # NoCursor /\ cursor' >= cursor
  <2>1. cursor \in Nat
    BY <1>1 DEF PollInvariant, ListenerTypeOK
  <2>2. CASE UNCHANGED cursor
    BY <1>1, <2>1, <2>2
  <2>3. CASE SaveCursor
    <3>1. cursor' = to /\ from = cursor + 1 /\ from <= to /\ to \in Nat
      BY <1>1, <2>3
      DEF SaveCursor, PollInvariant, RangeIsNew, RangeIsFinal, ListenerTypeOK
    <3> QED BY <2>1, <3>1, ListenerAssumption
  <2> QED
    BY <1>1, <2>2, <2>3
    DEF ListenerNext, ChainStep, PollStep, Mine, Reorg, ReadCursor,
        LatestFinalBlock, FetchLogs, ApplyLog, ApplyThrows, Fail, listenerVars
<1> QED BY <1>1, PollIsInvariant, PTL DEF ListenerSpec, CursorAdvances

-----------------------------------------------------------------------------
(* The listener and the secrets together.                                  *)

\* Who has a tombstone is revoked, in the same transaction.
TombstonesRevoked == tombstones = revoked

InvalidationInvariant ==
  /\ SecretsInvariant
  /\ PollInvariant
  /\ TombstonesRevoked

\* The broker starts with nothing asked and nothing applied.
LEMMA InitJoint == Init => InvalidationInvariant
<1>1. SecretsInit /\ ListenerInit => TombstonesRevoked
  BY DEF SecretsInit, ListenerInit, TombstonesRevoked
<1> QED
  BY <1>1, InitSecrets, InitPoll DEF Init, InvalidationInvariant

\* A part that no step touches stays right.
LEMMA SecretsUnchanged ==
  ASSUME SecretsInvariant, UNCHANGED secretsVars
  PROVE  SecretsInvariant'
BY NextSecrets

\* The same for the listener.
LEMMA ListenerUnchanged ==
  ASSUME PollInvariant, UNCHANGED listenerVars
  PROVE  PollInvariant'
BY NextPoll

\* A crash ends all requests: nobody holds a key and no erasure is under way.
LEMMA CrashSecrets ==
  ASSUME SecretsInvariant, Crash
  PROVE  SecretsInvariant'
<1>1. /\ UNCHANGED <<phase, secret, minted, rows, revoked, racing>>
      /\ \A t \in Slot : /\ stage'[t] = "idle" /\ asks'[t] = Nobody
                         /\ held'[t] = NoKey
      /\ stage' = [t \in Slot |-> "idle"] /\ asks' = [t \in Slot |-> Nobody]
      /\ held' = [t \in Slot |-> NoKey] /\ todo' = [t \in Slot |-> {}]
      /\ tags' = [t \in Slot |-> {}]
  BY DEF Crash
<1>2. SecretsTypeOK'
  BY <1>1 DEF SecretsInvariant, SecretsTypeOK
<1>3. TagsShareKey' /\ KeysInHand' /\ AliveUntilGrace'
  BY <1>1
  DEF SecretsInvariant, TagsShareKey, KeysInHand, AliveUntilGrace, AnswerStage, EraseStage
<1>4. ErasuresOnCourse' /\ ErasedUnlinkable'
  BY <1>1
  DEF SecretsInvariant, ErasuresOnCourse, ErasedUnlinkable, AnsweringOf, AnswerStage, EraseStage
<1> QED
  BY <1>2, <1>3, <1>4 DEF SecretsInvariant

\* Every step of the two together keeps all of it.
LEMMA NextJoint ==
  ASSUME InvalidationInvariant, [Next]_allVars
  PROVE  InvalidationInvariant'
<1> USE DEF InvalidationInvariant
<1>1. CASE SecretsStep
  <2>1. SecretsNext /\ UNCHANGED listenerVars
    BY <1>1, InvalidationAssumption DEF SecretsStep, SecretsNext
  <2>2. UNCHANGED revoked
    BY <1>1
    DEF SecretsStep, Pass, Reap, Requests, Answer, Revoke, Begin, AnswerSteps, Mint,
        ReadSecret, Store, Lookup, Withdraw, Abandon, EraseSteps, Find, Derive
  <2> QED
    BY <2>1, <2>2, NextSecrets, ListenerUnchanged DEF TombstonesRevoked, listenerVars
<1>2. CASE ListenerStep
  <2>1. ListenerNext /\ UNCHANGED secretsVars
    BY <1>2 DEF ListenerStep, ListenerNext
  <2>2. UNCHANGED tombstones
    BY <1>2
    DEF ListenerStep, ChainStep, Mine, Reorg, PollStep, ReadCursor, LatestFinalBlock,
        FetchLogs, SaveCursor
  <2> QED
    BY <2>1, <2>2, NextPoll, SecretsUnchanged DEF TombstonesRevoked, secretsVars
<1>3. ASSUME NEW l \in logs, ApplyBegin(l)
      PROVE  InvalidationInvariant'
  <2>1. l[2] \in Human
    BY InvalidationAssumption DEF PollInvariant, ListenerTypeOK, Log
  <2>2. SecretsInvariant' /\ UNCHANGED <<listenerVars, revoked>>
    BY <1>3, <2>1, EraseSecrets, InvalidationAssumption DEF ApplyBegin, Erase, Begin
  <2> QED
    BY <2>2, ListenerUnchanged DEF TombstonesRevoked, listenerVars
<1>4. ASSUME NEW l \in logs, ApplyCommit(l)
      PROVE  InvalidationInvariant'
  <2>1. /\ ApplyLog(l) /\ Purge(Listener, asks[Listener].human)
        /\ tombstones' = tombstones \cup {l[2]} /\ revoked' = revoked \cup {l[2]}
    BY <1>4 DEF ApplyCommit, ApplyLog, Purge
  <2>2. SecretsInvariant'
    BY <2>1, PurgeSecrets, InvalidationAssumption
  <2>3. PollInvariant'
    BY <2>1, ApplyLogPoll
  <2> QED
    BY <2>1, <2>2, <2>3 DEF TombstonesRevoked
<1>5. CASE PollFails
  <2>1. Fail /\ (UNCHANGED secretsVars \/ Abandon(Listener))
    BY <1>5 DEF PollFails
  <2>2. SecretsInvariant' /\ PollInvariant'
    BY <2>1, SecretsUnchanged, AbandonSecrets, FailPoll, InvalidationAssumption
  <2>3. UNCHANGED <<revoked, tombstones>>
    BY <2>1 DEF Fail, Abandon, secretsVars
  <2> QED
    BY <2>2, <2>3 DEF TombstonesRevoked
<1>6. CASE Crash
  <2>1. SecretsInvariant' /\ PollInvariant'
    BY <1>6, CrashSecrets, FailPoll DEF Crash
  <2>2. UNCHANGED <<revoked, tombstones>>
    BY <1>6 DEF Crash, Fail
  <2> QED
    BY <2>1, <2>2 DEF TombstonesRevoked
<1>7. CASE SelectThrows
  <2>1. ApplyThrows /\ UNCHANGED secretsVars
    BY <1>7 DEF SelectThrows
  <2>2. SecretsInvariant' /\ PollInvariant'
    BY <2>1, SecretsUnchanged, ApplyThrowsPoll
  <2>3. UNCHANGED <<revoked, tombstones>>
    BY <2>1 DEF ApplyThrows, secretsVars
  <2> QED
    BY <2>2, <2>3 DEF TombstonesRevoked
<1>8. CASE UNCHANGED allVars
  <2>1. UNCHANGED <<secretsVars, listenerVars, revoked, tombstones>>
    BY <1>8 DEF allVars, secretsVars, listenerVars
  <2> QED
    BY <2>1, SecretsUnchanged, ListenerUnchanged DEF TombstonesRevoked
<1> QED
  BY <1>1, <1>2, <1>3, <1>4, <1>5, <1>6, <1>7, <1>8 DEF Next

-----------------------------------------------------------------------------
\* What was proved of the secrets and of the listener by themselves stays true
\* when applyLog is the erasure, with crashes between its statements.
THEOREM PartsStayRight == Spec => []InvalidationInvariant
<1> QED
  BY InitJoint, NextJoint, PTL DEF Spec

\* Whoever a log at or below the cursor names is revoked, and no answer of
\* theirs can be tied to them: the cursor is saved after the commits, so that
\* an erasure cut short is done again (selfRevocations.ts, applyLog).
THEOREM CursorIsErased == Spec => []CursorMeansErased
<1>1. InvalidationInvariant => CursorMeansErased
  <2> SUFFICES ASSUME InvalidationInvariant, NEW u \in Human, NEW b \in 1..Len(chain),
                      u \in chain[b], cursor # NoCursor, b \in FromBlock..cursor
               PROVE  /\ u \in revoked
                      /\ u \in racing \/ \A r \in rows : r.human = u => secret[r.question] # r.key
    BY DEF CursorMeansErased
  <2>1. u \in revoked
    BY DEF InvalidationInvariant, PollInvariant, NothingSkipped, TombstonesRevoked
  <2> QED
    BY <2>1 DEF InvalidationInvariant, SecretsInvariant, ErasedUnlinkable
<1> QED
  BY <1>1, PartsStayRight, PTL

\* The composition refines the listener of SelfRevocations: every step is one of
\* its steps or leaves it alone, and applying a log with all that the erasure
\* deletes is still one of them.
THEOREM ListenerIsRefined == Spec => ListenerSpec
<1>1. Init => ListenerInit
  BY DEF Init
<1>2. [Next]_allVars => [ListenerNext]_listenerVars
  BY DEF Next, allVars, SecretsStep, ListenerStep, ApplyBegin, ApplyCommit, SelectThrows, PollFails, Crash,
         ListenerNext
<1> QED
  BY <1>1, <1>2, PTL DEF Spec, ListenerSpec
=============================================================================
