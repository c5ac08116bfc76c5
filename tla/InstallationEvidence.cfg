\* A crash of a rollback in its preparation; nobody edits.
SPECIFICATION Spec
CONSTANTS
  Order <- MC_KeptOrder
  Baseline <- MC_KeptBaseline
  Target <- MC_KeptTarget
  Meta = "meta"
  Hybrid = TRUE
  NoRecord = NoRecord
  NoRow = NoRow
  MaxFaults = 1
  MaxEdits = 0
CHECK_DEADLOCK FALSE
INVARIANT
  EvidenceIsRetryable
