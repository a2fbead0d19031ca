CONSTANTS
  Procs = {server, cli}
  Threads = {t1}
  Bodies = {e1, e2}
  Forged = Forged
  Junk = Junk
  NoThread = NoThread
  NoBody = NoBody
  TornWrites = FALSE
  Edits = FALSE
  Doctor = FALSE
  MaxCrashes = 0
SPECIFICATION Spec
INVARIANT ChainIntact
CHECK_DEADLOCK FALSE
