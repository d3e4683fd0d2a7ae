SPECIFICATION FairSpec
CONSTANTS
  Question = {q1}
  Human = {u1}
  Answer = {yes}
  Signal = {yes}
  Tx = {t1, t2, t3}
  NoRow = NoRow
  NoTx = NoTx
  Untouched = Untouched
  NoRequest = NoRequest
INVARIANT
  OnlyTheRetryDeadlocks
PROPERTY
  RequestsFinish
