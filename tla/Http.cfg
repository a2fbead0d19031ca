SPECIFICATION FairSpec
CONSTANTS
  Requests = {r1, r2, r3}
  Workers = 1
  NoRequest = NoRequest
INVARIANTS TypeOK GatedBeforeDispatch ForgedNeverServed
PROPERTIES EveryRequestAnswered ProbeAnswered
CHECK_DEADLOCK FALSE
