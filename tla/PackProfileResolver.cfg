SPECIFICATION FairSpec
CONSTANTS
  Uids = {1, 2, 3, 4}
  Versions = {1, 2, 3, 4}
  NoFile = NoFile
  Metadata <- MCMetadata
  Minecraft = 1
  DefaultVersion <- MCDefault
  FollowsMinecraft = {4}
  Index = Index
  NoList = NoList
  BadList = BadList
  NoTask = NoTask
  InitialLists <- MCLists
  InitialPatches <- MCPatches
  Netmodes = {"Online", "Offline"}
  EditsDuringUpdate = FALSE
  PatchesMayFail = TRUE
  WritesMayFail = FALSE
  MaxEdits = 1
  MaxCrashes = 0
PROPERTIES SuccessMeansResolved InjectedBeforeDependees UpdateKeepsUserChoices UpdateTerminates
CHECK_DEADLOCK FALSE
