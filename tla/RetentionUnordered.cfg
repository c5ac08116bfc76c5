\* The oldest release has a tag that is no version.
SPECIFICATION Spec
CONSTANTS
  Releases <- MC_Releases
  Installed = 0
  Unordered = {0}
  Ids <- MC_Ids
  MaxTouched = 0
  NoSet = NoSet
  NoProgress = NoProgress
  NoMem = NoMem
INVARIANTS RecordsAreTrue
PROPERTIES RecoveryRemains
CHECK_DEADLOCK FALSE
