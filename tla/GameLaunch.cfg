CONSTANTS
  Settings <- MCSettings
  MaxLaunches = 2
  MaxQuits = 1
SPECIFICATION FairSpec
INVARIANTS GameHasFiles NothingLeftBehind AbortIsFinal
PROPERTIES LaunchSettles
CHECK_DEADLOCK FALSE
