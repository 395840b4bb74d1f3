SPECIFICATION FairSpec
CONSTANTS
  steve = steve
  alex = alex
  steveAgain = steveAgain
  Account = {steve, alex, steveAgain}
  ProfileOf <- MCProfileOf
  Microsoft = {steveAgain}
  Stored <- MCTwo
  Launches = {l1}
  Outcomes = {"Online", "Expired"}
  MaxRequests = 0
  Blank = Blank
  NoAccount = NoAccount
PROPERTY RefreshSparesGame
\* The program ends when it crashes.
CHECK_DEADLOCK FALSE
