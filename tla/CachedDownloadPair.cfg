SPECIFICATION Spec
CONSTANTS
  Downloads = {d1, d2}
  MaxVersion = 2
  MaxRedirects = 0
  Fallbacks = {FALSE}
  WriteFaults = {"chunk"}
  Tampers = {"replaced"}
  Junk = Junk
  NoFile = NoFile
  NoEntry = NoEntry
  NoReply = NoReply
  Unknown = Unknown
SYMMETRY Symmetry
PROPERTIES SuccessMeansWhole
CHECK_DEADLOCK FALSE
