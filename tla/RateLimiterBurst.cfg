CONSTANTS
  Threads = {t1, t2}
  Keys = {alice, bob}
  RatePerMinute = 30
  Burst = 2
  MaxClock = 4
  NoThread = NoThread
  NoBucket = NoBucket
SPECIFICATION Spec
PROPERTY RefusedOnlyAfterBurst
