SPECIFICATION Spec
CONSTANTS
  a = a
  b = b
  Catalog <- MC_Catalog
  Procs = {p, q}
  MaxEdits = 1
  MaxFaults = 2
  None = None
INVARIANTS IgnoresTheSetsAlone ClaimsAreDurable BackupBeforePublication
SYMMETRY MC_Symmetry
CHECK_DEADLOCK FALSE
