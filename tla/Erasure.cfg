SPECIFICATION EraseSpec
CONSTANTS
  Question = {q1}
  Human = {u1, u2}
  Answer = {yes}
  Signal = {yes}
  Tx = {t1, t2}
  NoRow = NoRow
  NoTx = NoTx
  Untouched = Untouched
  NoRequest = NoRequest
  SelectOutcomes = {"throws", "answers"}
SYMMETRY Symmetry
INVARIANTS
  DriftOnlyWhereErased
  CountersExactUnlessDeparted
