SPECIFICATION Spec
CONSTANTS
  Exec = {e1, e2}
  CrashThreshold = 2
  MaxFaults = 1
  Cancelled = {e1}
INVARIANTS WorkersOwned CancelWins ProbeAccounted
PROPERTY RunnerReturns
CHECK_DEADLOCK FALSE
