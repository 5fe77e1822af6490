SPECIFICATION Spec
CONSTANTS
  c1 = c1
  c2 = c2
  x1 = x1
  x2 = x2
  h1 = h1
  Callers = {c1, c2}
  Restarts = {x1}
  Probes = {h1}
  AttemptCap = 2
  CrashLoopThreshold = 2
SYMMETRY Symmetry
INVARIANTS TypeOK IdleStopSparesCalls ShutdownIsTerminal DrainedMeansQuiet RestartHasOwner
PROPERTIES LiveChildKept StoppedIsFinal
CHECK_DEADLOCK FALSE
