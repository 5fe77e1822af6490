SPECIFICATION Spec
CONSTANTS
  c1 = c1
  c2 = c2
  x1 = x1
  x2 = x2
  h1 = h1
  Callers = {c1}
  Restarts = {x1}
  Probes = {}
  AttemptCap = 1
  CrashLoopThreshold = 1
INVARIANT NoDuplicateRespawn
CHECK_DEADLOCK FALSE
