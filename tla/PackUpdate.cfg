SPECIFICATION FairSpec
CONSTANTS
  Projects = {p1}
  Own = own
  MaxVersion = 2
  FilesMayFail = TRUE
  MaxUpdates = 2
  MaxEdits = 1
  MaxEnds = 1
INVARIANTS NothingLostUntilFetched FailedUpdateRestores
PROPERTIES SuccessMeansInstalled UpdateEnds
\* Nobody need update anything.
CHECK_DEADLOCK FALSE
