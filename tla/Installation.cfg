SPECIFICATION FairSpec
CONSTANTS
  Order <- MC_Order
  Baseline <- MC_Baseline
  Target <- MC_Target
  Meta = "meta"
  Hybrid = TRUE
  NoRecord = NoRecord
  NoRow = NoRow
  MaxFaults = 2
  MaxEdits = 1
CHECK_DEADLOCK FALSE
PROPERTIES
  ImplementsAtomic
  ReplacedIsRecoverable
  UnknownCheckIsEvidence
  RecoveryCompletes
