SPECIFICATION FairSpec
CONSTANTS
  n1 = n1
  n2 = n2
  a = a
  b = b
  Nodes = {n1, n2}
  Roots = {e, a}
  EmptyRoot = e
  Policy <- OneLeads
  Atomic = FALSE
  BusyEdits = TRUE
  MaxPasses = 2
  MaxEdits = 1
  MaxFailures = 1
INVARIANT HistoriesWhole
PROPERTIES Converges
