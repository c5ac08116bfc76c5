\* A prune on request that leaves no set a rollback would accept.
SPECIFICATION Spec
CONSTANTS
  Releases <- MC_Releases
  Installed = 1
  Unordered = {}
  Ids <- MC_Ids
  MaxTouched = 0
  NoSet = NoSet
  NoProgress = NoProgress
  NoMem = NoMem
PROPERTIES AlternateIsUsable
CHECK_DEADLOCK FALSE
