SPECIFICATION FairSpec
CONSTANTS
  Names = {m1, m2}
  MaxFiles = 2
  MaxDate = 3
  MaxChanges = 2
  MaxVisits = 1
  NoUpdate = NoUpdate
  Reading = Reading
  Unread = Unread
  NoDetails = NoDetails
INVARIANTS IndexFits ShowsFolder
PROPERTIES ComesToRest
\* The user may be done.
CHECK_DEADLOCK FALSE
