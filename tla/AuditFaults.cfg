CONSTANTS
  Procs = {server, cli}
  Threads = {t1}
  Bodies = {e1, e2, e3}
  Forged = Forged
  Junk = Junk
  NoThread = NoThread
  NoBody = NoBody
  TornWrites = TRUE
  Edits = TRUE
  Doctor = TRUE
  MaxCrashes = 1
SPECIFICATION Spec
INVARIANT VerifiedMeansComplete
SYMMETRY BodySymmetry
CHECK_DEADLOCK FALSE
