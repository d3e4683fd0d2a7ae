SPECIFICATION FairSpec
CONSTANTS
  ana = ana
  bob = bob
  l1 = l1
  l2 = l2
  e1 = e1
  Human = {ana, bob}
  Request = {l1, l2, e1}
  Enrolment = {e1}
  Age <- MCAge
  Nationality <- MCNationality
  Profile <- MCProfile
  KeyOf <- MCKeyOf
  AgeThresholds = {18, 25}
  AgeLadder <- MCAgeLadder
  NoEntry = NoEntry
  None = None
  Tab = {v}
  RequiredTotal = 1
  RequiredSignal = 1
  EnvAdmins = {}
  QuestionLimit = 1
  MaxQuestions = 1
  MaxActs = 2
INVARIANTS
  SignInTypeOK
  RegistrationTrue
  DeletedUnlinked
PROPERTY
  LoginEnds
CHECK_DEADLOCK FALSE
