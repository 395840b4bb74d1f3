SPECIFICATION FairSpec
CONSTANTS
  Downloads = {d1}
  MaxVersion = 2
  MaxRedirects = 1
  Fallbacks = {TRUE, FALSE}
  WriteFaults = {"chunk", "rest", "commit"}
  Tampers = {"removed", "replaced"}
  Junk = Junk
  NoFile = NoFile
  NoEntry = NoEntry
  NoReply = NoReply
  Unknown = Unknown
INVARIANTS TrustedFileIsWhole
PROPERTIES SuccessIsCurrent SuccessMeansWhole EveryStartAnswered
CHECK_DEADLOCK FALSE
