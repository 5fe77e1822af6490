SPECIFICATION Spec
CONSTANTS
  Exec = {e1, e2}
  Swamps = {s1, s2}
  RebalanceMin = 2
  MaxResults = 1
  MaxEvents = 2
  Torn = TRUE
INVARIANTS HeldOnce CancelRepresented JournalFaithful
PROPERTIES StartsOnce EventuallyResolved
CHECK_DEADLOCK FALSE
