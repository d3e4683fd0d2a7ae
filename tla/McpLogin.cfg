SPECIFICATION FairSpec
CONSTANTS
  ana = ana
  r1 = r1
  Human = {ana}
  Request = {r1}
  Age <- MCAge
  Nationality <- MCNationality
  Profile <- MCProfile
  KeyOf <- MCKeyOf
  AgeThresholds = {18}
  NoEntry = NoEntry
  None = None
  OAuthRequest = {o1}
  Question = {q}
  Call = {c1, c2}
  MaxCodes = 2
PROPERTIES
  ProofEndsAuthorization
CHECK_DEADLOCK FALSE
