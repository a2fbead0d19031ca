\* Two threads on one subject, two thirds of a token per second, a burst of one.
CONSTANTS
  Threads = {t1, t2}
  Keys = {alice}
  RatePerMinute = 40
  Burst = 1
  MaxClock = 4
  NoThread = NoThread
  NoBucket = NoBucket
SPECIFICATION FairSpec
INVARIANTS TypeOK WindowBound LevelNeverNegative
PROPERTY EveryCallReturns
