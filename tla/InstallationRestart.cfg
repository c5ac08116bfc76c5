\* A crash of an operation, and one of its recovery; nobody edits.
SPECIFICATION Spec
CONSTANTS
  Order <- MC_KeptOrder
  Baseline <- MC_KeptBaseline
  Target <- MC_KeptTarget
  Meta = "meta"
  Hybrid = TRUE
  NoRecord = NoRecord
  NoRow = NoRow
  MaxFaults = 2
  MaxEdits = 0
CHECK_DEADLOCK FALSE
INVARIANT
  ReconciledOnRestart
