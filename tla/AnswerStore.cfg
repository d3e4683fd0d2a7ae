SPECIFICATION Spec
CONSTANTS
  Question = {q1, q2}
  Human = {u1, u2}
  Answer = {yes, skip}
  Signal = {yes}
  Tx = {t1, t2}
  NoRow = NoRow
  NoTx = NoTx
  Untouched = Untouched
  NoRequest = NoRequest
SYMMETRY Symmetry
INVARIANTS
  TypeOK
  AggregatesExact
  CountersExact
  DuplicateNeverReturned
  StoreInvariant
PROPERTIES
  SettledOnlyShrinks
  ImplementsBallotBox
