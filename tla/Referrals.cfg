SPECIFICATION Spec
CONSTANTS
  Human = {r, a, b}
  Referrer = {r}
  Referee = {a, b}
  Leaver = {a}
  Code = {c1, c2}
  Tx = {t1, t2}
  NoRow = NoRow
  Untouched = Untouched
  NoRequest = NoRequest
  RequiredTotal = 1
  RequiredSignal = 1
  RepPerReferral = 1
  BoardThreshold = 2
  MaxActiveCodes = 1
  MaxAnswers = 1
  MaxLives = 1
SYMMETRY Symmetry
INVARIANTS
  CodeSingleUse
  CreditedOncePerLife
  PendingBelowBar
  ReputationBacked
  BoardSeatsEarned
