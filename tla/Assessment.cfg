SPECIFICATION Spec
CONSTANTS
  Inodes <- MC_Inodes
  MaxEdits = 1
  MaxFaults = 2
  None = None
  Blank = Blank
  Foreign = Foreign
INVARIANTS BarrierOutlastsDoubt Resolvable AsProposed
PROPERTY SettledStays
CHECK_DEADLOCK FALSE
