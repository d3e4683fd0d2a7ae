--------------------------- MODULE SelfRevocations ---------------------------
(***************************************************************************)
(* The listener for Self's on-chain invalidations                          *)
(* (packages/broker/src/selfRevocations.ts): a loop that reads its cursor, *)
(* asks a JSON-RPC endpoint for the head and for the logs of the final     *)
(* blocks after the cursor, applies them in order and then moves the       *)
(* cursor.  An error anywhere ends the poll; a crash and restart of the    *)
(* broker has the same effect, as everything but the cursor and what was   *)
(* applied is in memory.                                                   *)
(*                                                                         *)
(* To apply a log is, first, a SELECT that binds an array of candidates as *)
(* ANY(..::text[]).  What the driver and Postgres make of it is the        *)
(* constant SelectOutcomes: {"throws"} for the code as it stands, as the   *)
(* comment on deleteEnvelopesByVoterTags (queries.ts) says of this very    *)
(* form; "answers" is the SELECT once it is mended.                        *)
(*                                                                         *)
(* chain[b] is the set of nullifiers invalidated in block b = 1, 2, ...    *)
(* The last ReorgDepth blocks may still be replaced, and the endpoint may  *)
(* not serve the last RpcLag blocks yet, or serve them as they were.       *)
(***************************************************************************)
EXTENDS Integers, Sequences

CONSTANTS Nullifier,
          NoCursor,        \* self_chain_cursors has no row
          FromBlock,       \* selfRevocationFromBlock
          Confirmations,   \* selfRevocationConfirmations
          ReorgDepth,      \* the chain: blocks that may be replaced
          RpcLag,          \* the endpoint: blocks it may not serve yet
          SelectOutcomes,  \* what the SELECT of applyLog may do
          Blocks,          \* bound: what a block may invalidate
          MaxBlock,        \* bound: length of the chain
          MaxFailures      \* bound: polls that fail

ASSUME ListenerAssumption ==
  /\ NoCursor \notin Nat
  /\ FromBlock \in Nat
  /\ Confirmations \in Nat
  /\ ReorgDepth \in 0..Confirmations
  /\ RpcLag \in 0..Confirmations
  /\ SelectOutcomes \subseteq {"throws", "answers"}
  /\ Blocks \subseteq SUBSET Nullifier
  /\ MaxBlock \in Nat
  /\ MaxFailures \in Nat

VARIABLES
  chain,        \* the blocks so far
  cursor,       \* last_block of the committed cursor
  tombstones,   \* nullifiers recorded in self_nullifier_invalidations
  poll,         \* where the poll is
  from, to,     \* its range of blocks
  logs,         \* fetched and not yet applied: <<block, nullifier>>
  failures      \* polls that have failed

pollVars     == <<poll, from, to, logs>>
listenerVars == <<chain, cursor, tombstones, pollVars, failures>>

Log == Nat \X Nullifier

ListenerTypeOK ==
  /\ chain \in Seq(SUBSET Nullifier)
  /\ cursor \in Nat \cup {NoCursor}
  /\ tombstones \subseteq Nullifier
  /\ poll \in {"sleep", "head", "fetch", "apply"}
  /\ from \in Nat
  /\ to \in Nat
  /\ logs \subseteq Log
  /\ failures \in Nat

ListenerInit ==
  /\ chain = <<>>
  /\ cursor = NoCursor
  /\ tombstones = {}
  /\ poll = "sleep"
  /\ from = 0
  /\ to = 0
  /\ logs = {}
  /\ failures = 0

-----------------------------------------------------------------------------
(* The chain.                                                              *)

Mine ==
  /\ Len(chain) < MaxBlock
  /\ \E block \in Blocks : chain' = Append(chain, block)
  /\ UNCHANGED <<cursor, tombstones, pollVars, failures>>

\* Some of the last blocks turn out different.
Reorg ==
  /\ \E b \in 1..Len(chain), block \in Blocks :
       /\ b > Len(chain) - ReorgDepth
       /\ chain' = [chain EXCEPT ![b] = block]
  /\ UNCHANGED <<cursor, tombstones, pollVars, failures>>

\* Blocks that can no longer change.
Final == IF Len(chain) > Confirmations THEN Len(chain) - Confirmations ELSE 0

-----------------------------------------------------------------------------
(* pollOnce.                                                               *)

\* The poll is over, and with it everything it has in memory.
Sleep ==
  /\ poll' = "sleep"
  /\ from' = 0
  /\ to' = 0
  /\ logs' = {}

ReadCursor ==
  /\ poll = "sleep"
  /\ from' = IF cursor = NoCursor THEN FromBlock ELSE cursor + 1
  /\ poll' = "head"
  /\ UNCHANGED <<chain, cursor, tombstones, to, logs, failures>>

\* (faulty variants: no confirmations; no early return)
LatestUnconfirmedBlock ==
  /\ poll = "head"
  /\ \E head \in 0..Len(chain) :
       /\ head >= Len(chain) - RpcLag
       /\ IF head < from
          THEN Sleep
          ELSE to' = head /\ poll' = "fetch" /\ UNCHANGED <<from, logs>>
  /\ UNCHANGED <<chain, cursor, tombstones, failures>>
LatestBlockWithoutReturn ==
  /\ poll = "head"
  /\ \E head \in 0..Len(chain) :
       /\ head >= Len(chain) - RpcLag
       /\ to' = IF head > Confirmations THEN head - Confirmations ELSE 0
       /\ poll' = "fetch"
  /\ UNCHANGED <<chain, cursor, tombstones, from, logs, failures>>

\* latestFinalBlock: eth_blockNumber less the confirmations; nothing new, no
\* poll.
LatestFinalBlock ==
  /\ poll = "head"
  /\ \E head \in 0..Len(chain) :
       LET final == IF head > Confirmations THEN head - Confirmations ELSE 0
       IN /\ head >= Len(chain) - RpcLag
          /\ IF final < from
             THEN Sleep
             ELSE to' = final /\ poll' = "fetch" /\ UNCHANGED <<from, logs>>
  /\ UNCHANGED <<chain, cursor, tombstones, failures>>

\* fetchLogs: eth_getLogs of from..to.  The answer is right for the blocks
\* that the endpoint serves as they are, and anything for the others.
FetchLogs ==
  LET range    == {b \in from..to : b > 0}
      served   == {b \in range : b <= Len(chain) - RpcLag}
      unserved == range \ served
  IN /\ poll = "fetch"
     /\ \E other \in SUBSET (unserved \X Nullifier) :
          logs' = {l \in served \X Nullifier : l[2] \in chain[l[1]]} \cup other
     /\ poll' = "apply"
     /\ UNCHANGED <<chain, cursor, tombstones, from, to, failures>>

\* The logs are applied in the order of the chain.
NextLogs == {l \in logs : \A m \in logs : l[1] <= m[1]}

\* (faulty variant: the cursor follows each log)
ApplyLogAndMove(l) ==
  /\ poll = "apply"
  /\ "answers" \in SelectOutcomes
  /\ l \in NextLogs
  /\ tombstones' = tombstones \cup {l[2]}
  /\ cursor' = l[1]
  /\ logs' = logs \ {l}
  /\ UNCHANGED <<chain, poll, from, to, failures>>

\* applyLog.  A log that was applied before is applied again, to no effect.
ApplyLog(l) ==
  /\ poll = "apply"
  /\ "answers" \in SelectOutcomes
  /\ l \in NextLogs
  /\ tombstones' = tombstones \cup {l[2]}
  /\ logs' = logs \ {l}
  /\ UNCHANGED <<chain, cursor, poll, from, to, failures>>

SaveCursor ==
  /\ poll = "apply"
  /\ logs = {}
  /\ cursor' = to
  /\ Sleep
  /\ UNCHANGED <<chain, tombstones, failures>>

\* The SELECT throws: run catches it, the poll is over, and the next one starts
\* at the same cursor.  No bound: it is what the statement does.
ApplyThrows ==
  /\ poll = "apply"
  /\ logs # {}
  /\ "throws" \in SelectOutcomes
  /\ Sleep
  /\ UNCHANGED <<chain, cursor, tombstones, failures>>

\* Any other exception, caught by run, or the process dies and is started again.
Fail ==
  /\ poll # "sleep"
  /\ failures < MaxFailures
  /\ failures' = failures + 1
  /\ Sleep
  /\ UNCHANGED <<chain, cursor, tombstones>>

-----------------------------------------------------------------------------
ChainStep == Mine \/ Reorg
PollStep  == ReadCursor \/ LatestFinalBlock \/ FetchLogs \/ SaveCursor

ListenerNext ==
  \/ ChainStep
  \/ PollStep
  \/ \E l \in logs : ApplyLog(l)
  \/ ApplyThrows
  \/ Fail

ListenerSpec == ListenerInit /\ [][ListenerNext]_listenerVars

-----------------------------------------------------------------------------
(* Properties.                                                             *)

\* What is at or below the cursor has been applied: no log is skipped by a
\* crash, an error, a lagging endpoint or a reorganisation of the chain.
NothingSkipped ==
  cursor # NoCursor =>
    \A b \in FromBlock..cursor : b \in 1..Len(chain) => chain[b] \subseteq tombstones

\* Nobody is invalidated by a block that the chain then drops.
OnlyFinalLogsCount ==
  \A n \in tombstones : \E b \in 1..Final : n \in chain[b]

\* The cursor never goes back, also when the endpoint reports an older head.
CursorAdvances ==
  [][cursor # NoCursor => cursor' # NoCursor /\ cursor' >= cursor]_listenerVars

\* Why nothing is skipped, and nothing else applied: what the poll has in hand
\* at each of its steps.
RangeIsNew ==
  poll # "sleep" => from = IF cursor = NoCursor THEN FromBlock ELSE cursor + 1
RangeIsFinal == poll \in {"fetch", "apply"} => from <= to /\ to <= Final
CursorIsFinal == cursor # NoCursor => cursor <= Final
LogsAreComplete ==
  poll = "apply" =>
    \A b \in from..to : b \in 1..Len(chain) =>
      \A n \in chain[b] : n \in tombstones \/ <<b, n>> \in logs
LogsAreFinal == \A l \in logs : l[1] \in 1..Final /\ l[2] \in chain[l[1]]

PollInvariant ==
  /\ ListenerTypeOK
  /\ CursorIsFinal
  /\ RangeIsNew
  /\ RangeIsFinal
  /\ LogsAreComplete
  /\ LogsAreFinal
  /\ NothingSkipped
  /\ OnlyFinalLogsCount
=============================================================================
