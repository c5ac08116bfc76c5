\* The same two controllers: one dies, its number is used again, and the other
\* one is admitted beside the reservation the dead one left.
SPECIFICATION FairSpec
CONSTANTS
  Procs = {p1, p2}
  Requests <- ThreeTasks
  Timeouts = {2}
  MaxAttempts = 1
  MaxSessionRuns = 2
  MaxConcurrent = 2
  SessionSeconds = 3
  Grace = 1
  MaxFaults = 1
CHECK_DEADLOCK FALSE
PROPERTY
  OrphanFailsClosed
