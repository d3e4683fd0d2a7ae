SPECIFICATION EraseSpec
CONSTANTS
  Question = {q1}
  Human = {u1, u2}
  Answer = {yes, skip}
  Signal = {yes}
  Tx = {t1, t2}
  NoRow = NoRow
  NoTx = NoTx
  Untouched = Untouched
  NoRequest = NoRequest
  SelectOutcomes = {"throws"}
SYMMETRY Symmetry
INVARIANT
  AggregatesExact
