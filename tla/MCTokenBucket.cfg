SPECIFICATION HeartSpec
CONSTANTS
  Threads = {t1, t2, t3}
  Limit = 2
  MaxAmount = 3
  TrickleEvery = 2
  MaxWait = 4
INVARIANTS
  TypeOK
  NoSleepBesideTokens
PROPERTY
  TokensFlow
CHECK_DEADLOCK FALSE
