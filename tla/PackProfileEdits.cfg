SPECIFICATION Spec
CONSTANTS
  Uids = {1, 2, 3}
  Versions = {1, 2}
  NoFile = NoFile
  Metadata <- MCMetadata
  Minecraft = 1
  DefaultVersion <- MCDefault
  FollowsMinecraft = {}
  Index = Index
  NoList = NoList
  BadList = BadList
  NoTask = NoTask
  InitialLists <- MCLists
  InitialPatches <- MCPatches
  Netmodes = {"Online", "Offline"}
  EditsDuringUpdate = TRUE
  PatchesMayFail = TRUE
  WritesMayFail = FALSE
  MaxEdits = 2
  MaxCrashes = 1
INVARIANTS IndexMatchesList NothingLostWhenClean CustomMatchesPatch AnswersFindTheirRow
PROPERTIES UnloadedListNotSaved
CHECK_DEADLOCK FALSE
