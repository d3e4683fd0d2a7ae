SPECIFICATION LoopsGoOn
CONSTANTS
  Question = {q1}
  Human = {u1, u2}
  Answerer = {u1}
  Nullifier = {u1, u2}
  Slot = {t1, t2, worker}
  Listener = worker
  Key = {k1, k2}
  NoSecret = NoSecret
  Destroyed = Destroyed
  NoKey = NoKey
  Nobody = Nobody
  NoCursor = NoCursor
  Blocks <- MC_Blocks
  SelectOutcomes = {"throws", "answers"}
  FromBlock = 0
  Confirmations = 1
  ReorgDepth = 1
  RpcLag = 1
  MaxBlock = 2
  MaxFailures = 1
INVARIANTS
  OneKeyPerQuestion
  ReachableUntilGrace
  ErasedUnlinkable
  SecretsInvariant
  PollInvariant
  NothingSkipped
  OnlyFinalLogsCount
  CursorMeansErased
PROPERTIES
  SecretsOnlyDie
  CursorAdvances
  SecretsDestroyed
