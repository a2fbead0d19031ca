SPECIFICATION Spec
CONSTANTS
  Calls = {c1}
  guest = guest
  dev = dev
  ops = ops
  QMD = QMD
  QMP = QMP
  Subjects = {guest, dev, ops}
  Roles <- MCRoles
  QMs = {QMD, QMP}
  ProdQMs = {QMP}
  UnknownQM = UnknownQM
  NotAString = NotAString
  Requests <- MCRequests
  Burst = 1
  None = None
INVARIANT EveryCallRecorded
CHECK_DEADLOCK FALSE
