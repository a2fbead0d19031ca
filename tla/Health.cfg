SPECIFICATION FairSpec
CONSTANTS
  ThisQM = QM1
  RemoteQM = QM2
  CLUS = CLUS
  clus = clus
  Views <- MCViews
  KnownCodes = {"AMQ9202"}
  Upper <- MCUpper
  Messages <- MCMessages
  SampleSizes = {0, 1}
  MaxSample = 1
  MediumAbove = 1
  HighAbove = 2
  CriticalAbove = 3
  MaxChanges = 1
  NoReply = NoReply
INVARIANTS TypeOK FindingsWitnessed NothingMissed SkippedSayNothing SummaryTellsWorst DeadConnectionShows
PROPERTY ReportAlwaysMade
CHECK_DEADLOCK FALSE
