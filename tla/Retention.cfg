SPECIFICATION Spec
CONSTANTS
  Releases <- MC_Releases
  Installed = 0
  Unordered = {}
  Ids <- MC_Ids
  MaxTouched = 1
  NoSet = NoSet
  NoProgress = NoProgress
  NoMem = NoMem
INVARIANTS RecordsAreTrue
PROPERTIES RecoveryRemains
CHECK_DEADLOCK FALSE
