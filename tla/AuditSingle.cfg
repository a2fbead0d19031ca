CONSTANTS
  Procs = {server}
  Threads = {t1, t2}
  Bodies = {e1, e2, e3}
  Forged = Forged
  Junk = Junk
  NoThread = NoThread
  NoBody = NoBody
  TornWrites = FALSE
  Edits = FALSE
  Doctor = FALSE
  MaxCrashes = 2
SPECIFICATION FairSpec
INVARIANTS TypeOK ChainIntact AckedRecorded
PROPERTIES EveryWriteReturns RefinesLedger
CHECK_DEADLOCK FALSE
