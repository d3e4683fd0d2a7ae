----------------------------- MODULE Classifier -----------------------------
(***************************************************************************)
(* The topic classifier (packages/classifier) and the part of the          *)
(* questions table it shares with the web app and the broker's feed.       *)
(*                                                                         *)
(* Every worker repeats: list the oldest untagged open questions, ask the  *)
(* model about each of them in turn, write the topic of those it got an    *)
(* answer for.  Between the list and a write the table may change.         *)
(*                                                                         *)
(* A topic column is the sequence of its tokens.  What the model may say   *)
(* about a question is a set of word sequences; a failed call (timeout,    *)
(* HTTP error, malformed JSON) is an action of its own.                    *)
(***************************************************************************)
EXTENDS Integers, FiniteSets, SequencesExt

CONSTANTS Question, Worker,
          Untagged,    \* topic IS NULL
          Safe, Sensitive, Fallback,  \* the taxonomy
          Replies,     \* Replies[q]: what the model may say about q
          MaxTopics,   \* tokens kept of a reply (code: 3)
          BatchSize,   \* rows listed per tick (code: 20)
          Closing      \* bound: the questions whose time comes

Taxonomy == Safe \cup Sensitive \cup {Fallback}

ASSUME ClassifierAssumption ==
  /\ Safe \cap Sensitive = {}
  /\ MaxTopics \in Nat \ {0}
  /\ BatchSize \in Nat \ {0}
  /\ DOMAIN Replies = Question
  /\ \A q \in Question : \A raw \in Replies[q] :
       Len(raw) \in Nat /\ DOMAIN raw = 1..Len(raw)

VARIABLES
  asked,    \* the questions, oldest first (created_at)
  topic,    \* the topic column
  closed,   \* questions that are no longer open
  batch     \* batch[w]: what is left of the rows w listed

classifierVars == <<asked, topic, closed, batch>>

\* The elements of s at its positions in K, in their order, at most limit.
Picked(s, K, limit) ==
  LET rank(i) == Cardinality({j \in K : j <= i})
      n == IF Cardinality(K) < limit THEN Cardinality(K) ELSE limit
  IN  [k \in 1..n |-> s[CHOOSE i \in K : rank(i) = k]]

\* Known tokens only, each once, in the order of the reply, max at most.
NormaliseTopics(raw, max) ==
  Picked(raw, {i \in DOMAIN raw : raw[i] \in Taxonomy /\ \A j \in 1..i-1 : raw[j] # raw[i]}, max)

\* classifyQuestion: the topics a reply may yield.  A reply without a known
\* token is a failure, never the fallback.
Classified(q) == {NormaliseTopics(raw, MaxTopics) : raw \in Replies[q]} \ {<<>>}

\* A question on which every answer of the model is unusable.
Hard == {q \in Question : Classified(q) = {}}

Topic == UNION {[1..n -> Taxonomy] : n \in 1..MaxTopics}

ClassifierTypeOK ==
  /\ ToSet(asked) \subseteq Question
  /\ topic \in [Question -> Topic \cup {Untagged}]
  /\ closed \subseteq ToSet(asked)
  /\ \A w \in Worker : ToSet(batch[w]) \subseteq ToSet(asked) /\ Len(batch[w]) <= BatchSize

ClassifierInit ==
  /\ asked = <<>>
  /\ topic = [q \in Question |-> Untagged]
  /\ closed = {}
  /\ batch = [w \in Worker |-> <<>>]

Unclassified(q) == topic[q] = Untagged /\ q \notin closed

\* (faulty variant: the filter on the topic is lost)
UnclassifiedOrNot(q) == q \notin closed

\* (faulty variant: every open row is listed)
ListOpen(limit) == Picked(asked, {i \in DOMAIN asked : UnclassifiedOrNot(asked[i])}, limit)

\* listUnclassified: the oldest rows, at most limit of them.
ListUnclassified(limit) == Picked(asked, {i \in DOMAIN asked : Unclassified(asked[i])}, limit)

\* createQuestion inserts the row without a topic ...
Ask(q) ==
  /\ q \notin ToSet(asked)
  /\ asked' = Append(asked, q)
  /\ UNCHANGED <<topic, closed, batch>>

\* ... and its closing time comes.
Close(q) ==
  /\ q \in (Closing \cap ToSet(asked)) \ closed
  /\ closed' = closed \cup {q}
  /\ UNCHANGED <<asked, topic, batch>>

\* runOnce lists its rows.
StartTick(w) ==
  /\ batch[w] = <<>>
  /\ ListUnclassified(BatchSize) # <<>>
  /\ batch' = [batch EXCEPT ![w] = ListUnclassified(BatchSize)]
  /\ UNCHANGED <<asked, topic, closed>>

\* (faulty variant: the write is not guarded by topic IS NULL)
OverwriteTopic(q, topics) == topic' = [topic EXCEPT ![q] = topics]

\* setTopic: the first writer wins.
SetTopic(q, topics) ==
  topic' = IF topic[q] = Untagged THEN [topic EXCEPT ![q] = topics] ELSE topic

\* classifyOne with a usable reply ...
Classify(w) ==
  /\ batch[w] # <<>>
  /\ \E topics \in Classified(Head(batch[w])) : SetTopic(Head(batch[w]), topics)
  /\ batch' = [batch EXCEPT ![w] = Tail(@)]
  /\ UNCHANGED <<asked, closed>>

\* ... and with none: the row stays as it is.
ClassifyFails(w) ==
  /\ batch[w] # <<>>
  /\ batch' = [batch EXCEPT ![w] = Tail(@)]
  /\ UNCHANGED <<asked, topic, closed>>

\* The database fails or the process restarts: the rest of the batch is dropped.
TickCrashes(w) ==
  /\ batch[w] # <<>>
  /\ batch' = [batch EXCEPT ![w] = <<>>]
  /\ UNCHANGED <<asked, topic, closed>>

ClassifierStep ==
  \/ \E q \in Question : Ask(q) \/ Close(q)
  \/ \E w \in Worker : StartTick(w) \/ Classify(w) \/ ClassifyFails(w) \/ TickCrashes(w)

ClassifierSpec == ClassifierInit /\ [][ClassifierStep]_classifierVars

\* The worker is past the first question of its batch, with a topic if there
\* is one to be had.
GetsPast(w) ==
  /\ batch[w] # <<>>
  /\ IF Head(batch[w]) \in Hard THEN ClassifyFails(w) ELSE Classify(w)

\* runForever: every worker goes on ticking, whatever becomes of a tick.  A
\* call may fail and a tick may crash, again and again, but on no question
\* every time.
FairClassifierSpec ==
  /\ ClassifierSpec
  /\ \A w \in Worker : WF_classifierVars(StartTick(w))
  /\ \A w \in Worker, q \in Question :
       SF_classifierVars(batch[w] # <<>> /\ Head(batch[w]) = q /\ GetsPast(w))

-----------------------------------------------------------------------------
(* What the broker makes of the table.                                     *)

IsOpen(q) == q \in ToSet(asked) \ closed

\* (faulty variant: the feed shows untagged questions)
OpenFeed == {q \in Question : IsOpen(q)}

\* listOpenQuestions: open and tagged.
Feed == {q \in Question : IsOpen(q) /\ topic[q] # Untagged}

\* What a reader makes of a topic column; NULL is read as an empty one.
Shown(q) == IF topic[q] = Untagged THEN <<>> ELSE topic[q]

-----------------------------------------------------------------------------
\* A topic, once written, stays: an agent that has read it consented to that
\* topic.  Two workers may hold the same question in their batches
\* (worker.ts:70, db.ts:65).
TopicNeverRewritten ==
  [][\A q \in Question : topic[q] # Untagged => topic'[q] = topic[q]]_topic

\* No starvation while the hopeless questions fit in a batch with room to
\* spare: a tick that starts while a question the model can tag is waiting
\* takes such a question (db.ts:48).
TickMakesProgress ==
  [][\A w \in Worker :
       /\ batch[w] = <<>> /\ batch'[w] # <<>>
       /\ Cardinality({q \in ToSet(asked) \cap Hard : Unclassified(q)}) < BatchSize
       /\ \E q \in ToSet(asked) \ Hard : Unclassified(q)
       => \E q \in ToSet(batch'[w]) \ Hard : Unclassified(q)]_batch

\* A question stays hidden from the agents, as long as it is open, only if
\* the model is wrong about it every time (classify.ts:97).  So it is while the
\* hopeless questions leave room in a batch; once they fill one they are listed
\* first, tick after tick, and the rest starves (db.ts:56).
OnlyHardStayHidden ==
  \A q \in Question \ Hard :
    q \in ToSet(asked) ~> topic[q] # Untagged \/ q \in closed
=============================================================================
