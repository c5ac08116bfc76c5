SPECIFICATION Spec
CONSTANTS
  r = r
  a = a
  c = c
  Procs = {r, a, c}
  Kind <- MC_Kind
  Attempts = 2
  MaxWrites = 2
  MaxInodes = 5
  MaxOutside = 1
  MaxFaults = 2
INVARIANTS ReadsAreSnapshots SavesAreKept ReadersOutlastWriters
CHECK_DEADLOCK FALSE
