SPECIFICATION Spec
CONSTANTS
  Question = {q1}
  q1 = q1
  Worker = {w1}
  Untagged = Untagged
  Safe = {"philosophy"}
  Sensitive = {"religion"}
  Fallback = "other"
  Replies <- MCCrossover
  MaxTopics = 3
  BatchSize = 1
  Closing = {}
  Proc = {cron, chat}
  Cron = cron
  Option <- MCOption
  Said <- MCSaid
  NoSignal = NoSignal
  Nothing = Nothing
  Idle = Idle
  File <- MCBlockFile
  Unreadable = Unreadable
  Attempts = 2
  MaxMisreads = 1
  Budget = 1
  DaysPerMonth = 2
INVARIANTS
  GatedStaysUnanswered
