\* A crash between the marker and the record of it; nobody edits.
SPECIFICATION PersistentSpec
CONSTANTS
  Order <- MC_KeptOrder
  Baseline <- MC_KeptBaseline
  Target <- MC_KeptTarget
  Meta = "meta"
  Hybrid = TRUE
  NoRecord = NoRecord
  NoRow = NoRow
  MaxFaults = 1
  MaxEdits = 0
CHECK_DEADLOCK FALSE
PROPERTY
  UnrecordedMarkerComesDown
