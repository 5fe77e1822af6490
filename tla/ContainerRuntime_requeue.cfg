SPECIFICATION Spec
CONSTANTS
  Exec = {e1, e2}
  Swamps = {s1}
  RebalanceMin = 4
  MaxResults = 2
  MaxEvents = 1
  Torn = FALSE
PROPERTY RequeuedWorkRuns
CHECK_DEADLOCK FALSE
