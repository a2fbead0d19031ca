SPECIFICATION Spec
CONSTANTS
  ThisQM = QM1
  OtherQM = QM2
  Systems <- MCSystems
  OwnHost <- MCOwnHost
  MaxChanges = 2
  MaxFaults = 1
  NoReply = NoReply
  Complaints = {AMQ8147E, Usage}
  Naming = {Usage}
  NotFound = AMQ8147E
  NoNumber = NoNumber
  None = None
INVARIANTS TypeOK FindingsWitnessed NothingMissed SeenMeansChecked TopologyJustified RemoteUnseen FindingsCited
CHECK_DEADLOCK FALSE
