SPECIFICATION Spec
CONSTANTS
  steve = steve
  alex = alex
  steveAgain = steveAgain
  Account = {steve, steveAgain}
  ProfileOf <- MCProfileOf
  Microsoft = {steveAgain}
  Stored <- MCOne
  Launches = {l1}
  Outcomes = {"Online", "Offline", "Errored", "MustMigrate", "Expired", "Gone"}
  MaxRequests = 1
  Blank = Blank
  NoAccount = NoAccount
INVARIANTS TypeOK ListConsistent WaitsForLiveTask
\* The program ends when it crashes.
CHECK_DEADLOCK FALSE
