SPECIFICATION Spec
CONSTANTS
  Procs = {p1, p2}
  Tasks = {"feature", "lint"}
  Mode <- MC_Mode
  Sources = {0, 1}
  Safety = {0}
  Codes = {0, 1}
  MaxAttempts = 2
  NoProgressLimit = 1
  Timeout = 1
  MaxFaults = 1
  NoRow = NoRow
  NoMem = NoMem
INVARIANTS VerdictIsProven GroupsAreMarked
PROPERTIES OneTaskAtATime RunsAdvance
CHECK_DEADLOCK FALSE
