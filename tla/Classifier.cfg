SPECIFICATION FairClassifierSpec
CONSTANTS
  Question = {q1, q2, q3}
  q1 = q1
  q2 = q2
  q3 = q3
  Worker = {w1, w2}
  Untagged = Untagged
  Safe = {"philosophy"}
  Sensitive = {"religion"}
  Fallback = "other"
  Replies <- MCReplies
  MaxTopics = 3
  BatchSize = 2
  Closing = {q3}
PROPERTY
  OnlyHardStayHidden
