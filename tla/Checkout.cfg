\* Two commands at a time, two edits, one failed call or death.
CONSTANTS
  a = a
  b = b
  Procs = {a, b}
  Scenarios <- MCScenarios
  Edits = {"one", "two"}
  MaxFaults = 1
SPECIFICATION Spec
CHECK_DEADLOCK FALSE
INVARIANTS
  AuthoredIsKept
  LaneIsInstalled
  RunnableIsWhole
PROPERTY
  AdaptersMoveForward
