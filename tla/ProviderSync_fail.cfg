SPECIFICATION Spec
CONSTANTS
  n1 = n1
  n2 = n2
  a = a
  b = b
  Nodes = {n1, n2}
  Roots = {e, a, b}
  EmptyRoot = e
  Policy <- AllFail
  Atomic = TRUE
  BusyEdits = FALSE
  MaxPasses = 2
  MaxEdits = 2
  MaxFailures = 1
SYMMETRY SamePolicy
PROPERTIES NothingUnpublished PullKeepsEdits
