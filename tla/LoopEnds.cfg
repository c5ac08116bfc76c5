\* One controller, three attempts and two failures: its run comes to an end.
SPECIFICATION FairSpec
CONSTANTS
  Procs = {p1}
  Tasks = {"feature", "lint"}
  Mode <- MC_Mode
  Sources = {0, 1}
  Safety = {0}
  Codes = {0, 1}
  MaxAttempts = 3
  NoProgressLimit = 2
  Timeout = 1
  MaxFaults = 2
  NoRow = NoRow
  NoMem = NoMem
PROPERTIES RunsEnd
CHECK_DEADLOCK FALSE
