SPECIFICATION Spec
CONSTANTS
  Requests = {r1, r2, r3}
  Workers = 1
  NoRequest = NoRequest
INVARIANT EventLoopFree
CHECK_DEADLOCK FALSE
