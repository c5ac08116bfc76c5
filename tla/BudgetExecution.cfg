\* Two controllers and three tasks of one session: the limits of a task, of the
\* session and of its time are all met, a reservation competes with a running
\* one, and two faults combine (a publication in doubt and an unconfirmed exit).
SPECIFICATION FairSpec
CONSTANTS
  Procs = {p1, p2}
  Requests <- ThreeTasks
  Timeouts = {2}
  MaxAttempts = 1
  MaxSessionRuns = 2
  MaxConcurrent = 2
  SessionSeconds = 3
  Grace = 1
  MaxFaults = 2
CHECK_DEADLOCK FALSE
INVARIANTS
  LimitsHold
  TimeIsBudgeted
  NativeIsReserved
  ActiveHasEvidence
PROPERTIES
  ReservationResolves
