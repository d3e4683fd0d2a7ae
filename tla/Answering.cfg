SPECIFICATION Spec
CONSTANTS
  Question = {q1}
  q1 = q1
  Worker = {w1, w2}
  Untagged = Untagged
  Safe = {"philosophy"}
  Sensitive = {"religion"}
  Fallback = "other"
  Replies <- MCReplies
  MaxTopics = 3
  BatchSize = 1
  Closing = {q1}
  Proc = {cron, chat}
  Cron = cron
  Option <- MCOption
  Said <- MCSaid
  NoSignal = NoSignal
  Nothing = Nothing
  Idle = Idle
  File <- MCFile
  Unreadable = Unreadable
  Attempts = 2
  MaxMisreads = 1
  Budget = 1
  DaysPerMonth = 2
SYMMETRY Symmetry
INVARIANTS
  AnsweringTypeOK
  AnsweredWithConsent
  LedgerKnowsStored
  DailyCapOvershoot
  ParkedOnlyOverBudget
PROPERTIES
  TopicNeverRewritten
  CronLeavesRetractedAlone
