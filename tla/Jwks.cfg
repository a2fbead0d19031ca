SPECIFICATION FairSpec
CONSTANTS
  Threads = {t1, t2}
  Keys = {k1}
  Tokens <- MCTokens
  TTL = 2
  NoThread = NoThread
  NoJwks = NoJwks
  NoKid = NoKid
INVARIANTS TypeOK FreshKeysRecent NoResurrection
PROPERTIES EveryVerifyReturns CacheFollowsProvider
