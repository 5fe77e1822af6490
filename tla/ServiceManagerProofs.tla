------------------------ MODULE ServiceManagerProofs ------------------------
(***************************************************************************)
(* Proofs about one managed service, for any number of callers, explicit    *)
(* restarts and probes.  IInv (module ServiceManager) is inductive; every   *)
(* safety property of the service runs follows from it.                     *)
(***************************************************************************)
EXTENDS ServiceManager, TLAPS

(* Every step keeps the flags Boolean and the other variables in their sets. *)
LEMMA FlagsStep ==
  ASSUME TypeOK, [Next]_vars
  PROVE  FlagsOK'
<1>1. CASE UNCHANGED vars
  BY <1>1 DEF TypeOK, FlagsOK, vars, managed, config, monitor, explicit,
     shutdown
<1>2. CASE Environment
  <2>1. CASE ChildExits
    BY <2>1, Zenon DEF TypeOK, FlagsOK, ChildExits, managed, config, monitor,
       explicit, shutdown
  <2>2. CASE IdleElapses
    BY <2>2, Zenon DEF TypeOK, FlagsOK, IdleElapses, managed, config, monitor,
       explicit, shutdown
  <2> QED
    BY <1>2, <2>1, <2>2 DEF Environment
<1>3. CASE BootStep
  <2>1. CASE BootSpawn
    BY <2>1, Zenon DEF TypeOK, FlagsOK, BootSpawn, managed, config, monitor,
       explicit, shutdown
  <2>2. CASE BootInstall
    BY <2>2, Zenon DEF TypeOK, FlagsOK, BootInstall, Installed, managed,
       config, monitor, explicit, shutdown
  <2>3. CASE BootFails
    BY <2>3, Zenon DEF TypeOK, FlagsOK, BootFails, Booted, managed, config, monitor,
       explicit, shutdown
  <2>4. CASE MonitorStart
    BY <2>4, Zenon DEF TypeOK, FlagsOK, MonitorStart, managed, config, monitor,
       explicit, shutdown
  <2> QED
    BY <1>3, <2>1, <2>2, <2>3, <2>4 DEF BootStep
<1>4. CASE MonitorStep
  <2>1. CASE MonitorTick
    BY <2>1, Zenon DEF TypeOK, FlagsOK, MonitorTick, managed, config, monitor,
       explicit, shutdown
  <2>2. CASE MonitorSkip
    BY <2>2, Zenon DEF TypeOK, FlagsOK, MonitorSkip, IdleDue, Wakeable,
       managed, config, monitor, explicit, shutdown
  <2>3. CASE MonitorIdleStop
    BY <2>3, Zenon DEF TypeOK, FlagsOK, MonitorIdleStop, IdleDue, Wakeable,
       managed, config, monitor, explicit, shutdown
  <2>4. CASE MonitorStopped
    BY <2>4, Zenon DEF TypeOK, FlagsOK, MonitorStopped, managed, config,
       monitor, explicit, shutdown
  <2>5. CASE MonitorReport
    BY <2>5, Zenon DEF TypeOK, FlagsOK, MonitorReport, managed, config,
       monitor, explicit, shutdown
  <2>6. CASE MonitorDecide
    BY <2>6, Zenon DEF TypeOK, FlagsOK, MonitorDecide, NextRestartAttempt,
       SaturatingIncrement, managed, config, monitor, explicit, shutdown
  <2>7. CASE MonitorBackoffOver
    BY <2>7, Zenon DEF TypeOK, FlagsOK, MonitorBackoffOver, managed, config,
       monitor, explicit, shutdown
  <2>8. CASE MonitorSuperseded
    BY <2>8, Zenon DEF TypeOK, FlagsOK, MonitorSuperseded, managed, config,
       monitor, explicit, shutdown
  <2>9. CASE MonitorRespawn
    BY <2>9, Zenon DEF TypeOK, FlagsOK, MonitorRespawn, managed, config,
       monitor, explicit, shutdown
  <2>10. CASE MonitorRespawned
    BY <2>10, Zenon DEF TypeOK, FlagsOK, MonitorRespawned, Installed, managed,
       config, monitor, explicit, shutdown
  <2>11. CASE MonitorRespawnFails
    BY <2>11, Zenon DEF TypeOK, FlagsOK, MonitorRespawnFails, managed, config,
       monitor, explicit, shutdown
  <2> QED
    BY <1>4, <2>1, <2>2, <2>3, <2>4, <2>5, <2>6, <2>7, <2>8, <2>9, <2>10, <2>11
       DEF MonitorStep
<1>5. ASSUME NEW c \in Callers, CallStep(c) PROVE FlagsOK'
  <2>1. CASE CallBegin(c)
    BY <2>1, Zenon DEF TypeOK, FlagsOK, CallBegin, managed, config,
       monitor, explicit, shutdown
  <2>2. CASE CallRejected(c)
    BY <2>2, Zenon DEF TypeOK, FlagsOK, CallRejected, CallAdmitted, Wakeable,
       managed, config, monitor, explicit, shutdown
  <2>3. CASE CallRunning(c)
    BY <2>3, Zenon DEF TypeOK, FlagsOK, CallRunning, CallAdmitted, managed,
       config, monitor, explicit, shutdown
  <2>4. CASE CallActivate(c)
    BY <2>4, Zenon DEF TypeOK, FlagsOK, CallActivate, CallAdmitted, Wakeable,
       managed, config, monitor, explicit, shutdown
  <2>5. CASE CallActivated(c)
    BY <2>5, Zenon DEF TypeOK, FlagsOK, CallActivated, Installed, managed,
       config, monitor, explicit, shutdown
  <2>6. CASE CallActivationFails(c)
    BY <2>6, Zenon DEF TypeOK, FlagsOK, CallActivationFails, managed, config,
       monitor, explicit, shutdown
  <2>7. CASE CallReturned(c)
    BY <2>7, Zenon DEF TypeOK, FlagsOK, CallReturned, managed, config, monitor,
       explicit, shutdown
  <2>8. CASE CallReleased(c)
    BY <2>8, Zenon DEF TypeOK, FlagsOK, CallReleased, managed, config, monitor,
       explicit, shutdown
  <2> QED
    BY <1>5, <2>1, <2>2, <2>3, <2>4, <2>5, <2>6, <2>7, <2>8 DEF CallStep
<1>6. ASSUME NEW x \in Restarts, RestartStep(x) PROVE FlagsOK'
  <2>1. CASE RestartBegin(x)
    BY <2>1, Zenon DEF TypeOK, FlagsOK, RestartBegin, Booted, managed, config,
       monitor, explicit, shutdown
  <2>2. CASE RestartJoined(x)
    BY <2>2, Zenon DEF TypeOK, FlagsOK, RestartJoined, managed, config,
       monitor, explicit, shutdown
  <2>3. CASE RestartTake(x)
    BY <2>3, Zenon DEF TypeOK, FlagsOK, RestartTake, managed, config, monitor,
       explicit, shutdown
  <2>4. CASE RestartOldStopped(x)
    BY <2>4, Zenon DEF TypeOK, FlagsOK, RestartOldStopped, managed, config,
       monitor, explicit, shutdown
  <2>5. CASE RestartCheck(x)
    BY <2>5, Zenon DEF TypeOK, FlagsOK, RestartCheck, SaturatingIncrement,
       managed, config, monitor, explicit, shutdown
  <2>6. CASE RestartCancel(x)
    BY <2>6, Zenon DEF TypeOK, FlagsOK, RestartCancel, managed, config,
       monitor, explicit, shutdown
  <2>7. CASE RestartSpawned(x)
    BY <2>7, Zenon DEF TypeOK, FlagsOK, RestartSpawned, managed, config,
       monitor, explicit, shutdown
  <2>8. CASE RestartSpawnFails(x)
    BY <2>8, Zenon DEF TypeOK, FlagsOK, RestartSpawnFails, managed, config,
       monitor, explicit, shutdown
  <2>9. CASE RestartInstall(x)
    BY <2>9, Zenon DEF TypeOK, FlagsOK, RestartInstall, Installed,
       ReplacementWanted, managed, config, monitor, explicit, shutdown
  <2>10. CASE RestartDiscard(x)
    BY <2>10, Zenon DEF TypeOK, FlagsOK, RestartDiscard, ReplacementWanted,
       managed, config, monitor, explicit, shutdown
  <2>11. CASE RestartDiscarded(x)
    BY <2>11, Zenon DEF TypeOK, FlagsOK, RestartDiscarded, managed, config,
       monitor, explicit, shutdown
  <2>12. CASE RestartRetry(x)
    BY <2>12, Zenon DEF TypeOK, FlagsOK, RestartRetry, RetryWanted, managed,
       config, monitor, explicit, shutdown
  <2>13. CASE RestartBackoffOver(x)
    BY <2>13, Zenon DEF TypeOK, FlagsOK, RestartBackoffOver, managed, config,
       monitor, explicit, shutdown
  <2> QED
    BY <1>6, <2>1, <2>2, <2>3, <2>4, <2>5, <2>6, <2>7, <2>8, <2>9, <2>10,
       <2>11, <2>12, <2>13 DEF RestartStep
<1>7. ASSUME NEW h \in Probes, ProbeStep(h) PROVE FlagsOK'
  <2>1. CASE ProbeBegin(h)
    BY <2>1, Zenon DEF TypeOK, FlagsOK, ProbeBegin, Booted, managed, config,
       monitor, explicit, shutdown
  <2>2. CASE ProbeTarget(h)
    BY <2>2, Zenon DEF TypeOK, FlagsOK, ProbeTarget, managed, config, monitor,
       explicit, shutdown
  <2>3. CASE ProbeDone(h)
    BY <2>3, Zenon DEF TypeOK, FlagsOK, ProbeDone, managed, config, monitor,
       explicit, shutdown
  <2> QED
    BY <1>7, <2>1, <2>2, <2>3 DEF ProbeStep
<1>8. CASE ShutdownStep
  <2>1. CASE BeginShutdown
    BY <2>1, Zenon DEF TypeOK, FlagsOK, BeginShutdown, Booted, managed, config,
       monitor, explicit, shutdown
  <2>2. CASE ShutdownCollect
    BY <2>2, Zenon DEF TypeOK, FlagsOK, ShutdownCollect, managed, config,
       monitor, explicit, shutdown
  <2>3. CASE ShutdownDrained
    BY <2>3, Zenon DEF TypeOK, FlagsOK, ShutdownDrained, managed, config,
       monitor, explicit, shutdown
  <2>4. CASE ShutdownDrainTimeout
    BY <2>4, Zenon DEF TypeOK, FlagsOK, ShutdownDrainTimeout, managed, config,
       monitor, explicit, shutdown
  <2>5. CASE ShutdownTake
    BY <2>5, Zenon DEF TypeOK, FlagsOK, ShutdownTake, managed, config, monitor,
       explicit, shutdown
  <2>6. CASE ShutdownStopped
    BY <2>6, Zenon DEF TypeOK, FlagsOK, ShutdownStopped, managed, config,
       monitor, explicit, shutdown
  <2> QED
    BY <1>8, <2>1, <2>2, <2>3, <2>4, <2>5, <2>6 DEF ShutdownStep
<1> QED
  BY <1>1, <1>2, <1>3, <1>4, <1>5, <1>6, <1>7, <1>8 DEF Next

LEMMA ValuesStep ==
  ASSUME TypeOK, [Next]_vars
  PROVE  ValuesOK'
<1>1. CASE UNCHANGED vars
  BY <1>1 DEF TypeOK, ValuesOK, vars, managed, config, monitor, explicit,
     shutdown
<1>2. CASE Environment
  <2>1. CASE ChildExits
    BY <2>1 DEF TypeOK, ValuesOK, ChildExits, Modes, Policies, Children,
       Exited, MonitorPcs, CallPcs, RestartPcs, ProbePcs, ShutdownPcs, managed,
       config, monitor, explicit, shutdown
  <2>2. CASE IdleElapses
    BY <2>2 DEF TypeOK, ValuesOK, IdleElapses, Modes, Policies, Children,
       Exited, MonitorPcs, CallPcs, RestartPcs, ProbePcs, ShutdownPcs, managed,
       config, monitor, explicit, shutdown
  <2> QED
    BY <1>2, <2>1, <2>2 DEF Environment
<1>3. CASE BootStep
  <2>1. CASE BootSpawn
    BY <2>1 DEF TypeOK, ValuesOK, BootSpawn, Modes, Policies, Children, Exited,
       MonitorPcs, CallPcs, RestartPcs, ProbePcs, ShutdownPcs, managed, config,
       monitor, explicit, shutdown
  <2>2. CASE BootInstall
    BY <2>2, CapAssumption DEF TypeOK, ValuesOK, BootInstall, Installed, Modes,
       Policies, Children, Exited, MonitorPcs, CallPcs, RestartPcs, ProbePcs,
       ShutdownPcs, managed, config, monitor, explicit, shutdown
  <2>3. CASE BootFails
    BY <2>3 DEF TypeOK, ValuesOK, BootFails, Booted, Modes, Policies, Children, Exited,
       MonitorPcs, CallPcs, RestartPcs, ProbePcs, ShutdownPcs, managed, config,
       monitor, explicit, shutdown
  <2>4. CASE MonitorStart
    BY <2>4 DEF TypeOK, ValuesOK, MonitorStart, Modes, Policies, Children,
       Exited, MonitorPcs, CallPcs, RestartPcs, ProbePcs, ShutdownPcs, managed,
       config, monitor, explicit, shutdown
  <2> QED
    BY <1>3, <2>1, <2>2, <2>3, <2>4 DEF BootStep
<1>4. CASE MonitorStep
  <2>1. CASE MonitorTick
    BY <2>1 DEF TypeOK, ValuesOK, MonitorTick, Modes, Policies, Children,
       Exited, MonitorPcs, CallPcs, RestartPcs, ProbePcs, ShutdownPcs, managed,
       config, monitor, explicit, shutdown
  <2>2. CASE MonitorSkip
    BY <2>2 DEF TypeOK, ValuesOK, MonitorSkip, IdleDue, Wakeable, Modes,
       Policies, Children, Exited, MonitorPcs, CallPcs, RestartPcs, ProbePcs,
       ShutdownPcs, managed, config, monitor, explicit, shutdown
  <2>3. CASE MonitorIdleStop
    BY <2>3, CapAssumption DEF TypeOK, ValuesOK, MonitorIdleStop, IdleDue,
       Wakeable, Modes, Policies, Children, Exited, MonitorPcs, CallPcs,
       RestartPcs, ProbePcs, ShutdownPcs, managed, config, monitor, explicit,
       shutdown
  <2>4. CASE MonitorStopped
    BY <2>4 DEF TypeOK, ValuesOK, MonitorStopped, Modes, Policies, Children,
       Exited, MonitorPcs, CallPcs, RestartPcs, ProbePcs, ShutdownPcs, managed,
       config, monitor, explicit, shutdown
  <2>5. CASE MonitorReport
    BY <2>5 DEF TypeOK, ValuesOK, MonitorReport, Modes, Policies, Children,
       Exited, MonitorPcs, CallPcs, RestartPcs, ProbePcs, ShutdownPcs, managed,
       config, monitor, explicit, shutdown
  <2>6. CASE MonitorDecide
    BY <2>6, CapAssumption DEF TypeOK, ValuesOK, MonitorDecide,
       NextRestartAttempt, SaturatingIncrement, Modes, Policies, Children,
       Exited, MonitorPcs, CallPcs, RestartPcs, ProbePcs, ShutdownPcs, managed,
       config, monitor, explicit, shutdown
  <2>7. CASE MonitorBackoffOver
    BY <2>7, CapAssumption DEF TypeOK, ValuesOK, MonitorBackoffOver, Modes,
       Policies, Children, Exited, MonitorPcs, CallPcs, RestartPcs, ProbePcs,
       ShutdownPcs, managed, config, monitor, explicit, shutdown
  <2>8. CASE MonitorSuperseded
    BY <2>8, CapAssumption DEF TypeOK, ValuesOK, MonitorSuperseded, Modes,
       Policies, Children, Exited, MonitorPcs, CallPcs, RestartPcs, ProbePcs,
       ShutdownPcs, managed, config, monitor, explicit, shutdown
  <2>9. CASE MonitorRespawn
    BY <2>9 DEF TypeOK, ValuesOK, MonitorRespawn, Modes, Policies, Children,
       Exited, MonitorPcs, CallPcs, RestartPcs, ProbePcs, ShutdownPcs, managed,
       config, monitor, explicit, shutdown
  <2>10. CASE MonitorRespawned
    BY <2>10, CapAssumption DEF TypeOK, ValuesOK, MonitorRespawned, Installed,
       Modes, Policies, Children, Exited, MonitorPcs, CallPcs, RestartPcs,
       ProbePcs, ShutdownPcs, managed, config, monitor, explicit, shutdown
  <2>11. CASE MonitorRespawnFails
    BY <2>11, CapAssumption DEF TypeOK, ValuesOK, MonitorRespawnFails, Modes,
       Policies, Children, Exited, MonitorPcs, CallPcs, RestartPcs, ProbePcs,
       ShutdownPcs, managed, config, monitor, explicit, shutdown
  <2> QED
    BY <1>4, <2>1, <2>2, <2>3, <2>4, <2>5, <2>6, <2>7, <2>8, <2>9, <2>10, <2>11
       DEF MonitorStep
<1>5. ASSUME NEW c \in Callers, CallStep(c) PROVE ValuesOK'
  <2>1. CASE CallBegin(c)
    BY <2>1 DEF TypeOK, ValuesOK, CallBegin, Modes, Policies, Children,
       Exited, MonitorPcs, CallPcs, RestartPcs, ProbePcs, ShutdownPcs, managed,
       config, monitor, explicit, shutdown
  <2>2. CASE CallRejected(c)
    BY <2>2 DEF TypeOK, ValuesOK, CallRejected, CallAdmitted, Wakeable, Modes,
       Policies, Children, Exited, MonitorPcs, CallPcs, RestartPcs, ProbePcs,
       ShutdownPcs, managed, config, monitor, explicit, shutdown
  <2>3. CASE CallRunning(c)
    BY <2>3 DEF TypeOK, ValuesOK, CallRunning, CallAdmitted, Modes, Policies,
       Children, Exited, MonitorPcs, CallPcs, RestartPcs, ProbePcs,
       ShutdownPcs, managed, config, monitor, explicit, shutdown
  <2>4. CASE CallActivate(c)
    BY <2>4 DEF TypeOK, ValuesOK, CallActivate, CallAdmitted, Wakeable, Modes,
       Policies, Children, Exited, MonitorPcs, CallPcs, RestartPcs, ProbePcs,
       ShutdownPcs, managed, config, monitor, explicit, shutdown
  <2>5. CASE CallActivated(c)
    BY <2>5, CapAssumption DEF TypeOK, ValuesOK, CallActivated, Installed,
       Modes, Policies, Children, Exited, MonitorPcs, CallPcs, RestartPcs,
       ProbePcs, ShutdownPcs, managed, config, monitor, explicit, shutdown
  <2>6. CASE CallActivationFails(c)
    BY <2>6 DEF TypeOK, ValuesOK, CallActivationFails, Modes, Policies,
       Children, Exited, MonitorPcs, CallPcs, RestartPcs, ProbePcs,
       ShutdownPcs, managed, config, monitor, explicit, shutdown
  <2>7. CASE CallReturned(c)
    BY <2>7 DEF TypeOK, ValuesOK, CallReturned, Modes, Policies, Children,
       Exited, MonitorPcs, CallPcs, RestartPcs, ProbePcs, ShutdownPcs, managed,
       config, monitor, explicit, shutdown
  <2>8. CASE CallReleased(c)
    BY <2>8 DEF TypeOK, ValuesOK, CallReleased, Modes, Policies, Children,
       Exited, MonitorPcs, CallPcs, RestartPcs, ProbePcs, ShutdownPcs, managed,
       config, monitor, explicit, shutdown
  <2> QED
    BY <1>5, <2>1, <2>2, <2>3, <2>4, <2>5, <2>6, <2>7, <2>8 DEF CallStep
<1>6. ASSUME NEW x \in Restarts, RestartStep(x) PROVE ValuesOK'
  <2>1. CASE RestartBegin(x)
    BY <2>1 DEF TypeOK, ValuesOK, RestartBegin, Booted, Modes, Policies,
       Children, Exited, MonitorPcs, CallPcs, RestartPcs, ProbePcs,
       ShutdownPcs, managed, config, monitor, explicit, shutdown
  <2>2. CASE RestartJoined(x)
    BY <2>2 DEF TypeOK, ValuesOK, RestartJoined, Modes, Policies, Children,
       Exited, MonitorPcs, CallPcs, RestartPcs, ProbePcs, ShutdownPcs, managed,
       config, monitor, explicit, shutdown
  <2>3. CASE RestartTake(x)
    BY <2>3, CapAssumption DEF TypeOK, ValuesOK, RestartTake, Modes, Policies,
       Children, Exited, MonitorPcs, CallPcs, RestartPcs, ProbePcs,
       ShutdownPcs, managed, config, monitor, explicit, shutdown
  <2>4. CASE RestartOldStopped(x)
    BY <2>4 DEF TypeOK, ValuesOK, RestartOldStopped, Modes, Policies, Children,
       Exited, MonitorPcs, CallPcs, RestartPcs, ProbePcs, ShutdownPcs, managed,
       config, monitor, explicit, shutdown
  <2>5. CASE RestartCheck(x)
    BY <2>5, CapAssumption DEF TypeOK, ValuesOK, RestartCheck,
       SaturatingIncrement, Modes, Policies, Children, Exited, MonitorPcs,
       CallPcs, RestartPcs, ProbePcs, ShutdownPcs, managed, config, monitor,
       explicit, shutdown
  <2>6. CASE RestartCancel(x)
    BY <2>6, CapAssumption DEF TypeOK, ValuesOK, RestartCancel, Modes,
       Policies, Children, Exited, MonitorPcs, CallPcs, RestartPcs, ProbePcs,
       ShutdownPcs, managed, config, monitor, explicit, shutdown
  <2>7. CASE RestartSpawned(x)
    BY <2>7 DEF TypeOK, ValuesOK, RestartSpawned, Modes, Policies, Children,
       Exited, MonitorPcs, CallPcs, RestartPcs, ProbePcs, ShutdownPcs, managed,
       config, monitor, explicit, shutdown
  <2>8. CASE RestartSpawnFails(x)
    BY <2>8 DEF TypeOK, ValuesOK, RestartSpawnFails, Modes, Policies, Children,
       Exited, MonitorPcs, CallPcs, RestartPcs, ProbePcs, ShutdownPcs, managed,
       config, monitor, explicit, shutdown
  <2>9. CASE RestartInstall(x)
    BY <2>9, CapAssumption DEF TypeOK, ValuesOK, RestartInstall, Installed,
       ReplacementWanted, Modes, Policies, Children, Exited, MonitorPcs,
       CallPcs, RestartPcs, ProbePcs, ShutdownPcs, managed, config, monitor,
       explicit, shutdown
  <2>10. CASE RestartDiscard(x)
    BY <2>10, CapAssumption DEF TypeOK, ValuesOK, RestartDiscard,
       ReplacementWanted, Modes, Policies, Children, Exited, MonitorPcs,
       CallPcs, RestartPcs, ProbePcs, ShutdownPcs, managed, config, monitor,
       explicit, shutdown
  <2>11. CASE RestartDiscarded(x)
    BY <2>11, CapAssumption DEF TypeOK, ValuesOK, RestartDiscarded, Modes,
       Policies, Children, Exited, MonitorPcs, CallPcs, RestartPcs, ProbePcs,
       ShutdownPcs, managed, config, monitor, explicit, shutdown
  <2>12. CASE RestartRetry(x)
    BY <2>12, CapAssumption DEF TypeOK, ValuesOK, RestartRetry, RetryWanted,
       Modes, Policies, Children, Exited, MonitorPcs, CallPcs, RestartPcs,
       ProbePcs, ShutdownPcs, managed, config, monitor, explicit, shutdown
  <2>13. CASE RestartBackoffOver(x)
    BY <2>13 DEF TypeOK, ValuesOK, RestartBackoffOver, Modes, Policies,
       Children, Exited, MonitorPcs, CallPcs, RestartPcs, ProbePcs,
       ShutdownPcs, managed, config, monitor, explicit, shutdown
  <2> QED
    BY <1>6, <2>1, <2>2, <2>3, <2>4, <2>5, <2>6, <2>7, <2>8, <2>9, <2>10,
       <2>11, <2>12, <2>13 DEF RestartStep
<1>7. ASSUME NEW h \in Probes, ProbeStep(h) PROVE ValuesOK'
  <2>1. CASE ProbeBegin(h)
    BY <2>1 DEF TypeOK, ValuesOK, ProbeBegin, Booted, Modes, Policies,
       Children, Exited, MonitorPcs, CallPcs, RestartPcs, ProbePcs,
       ShutdownPcs, managed, config, monitor, explicit, shutdown
  <2>2. CASE ProbeTarget(h)
    BY <2>2 DEF TypeOK, ValuesOK, ProbeTarget, Modes, Policies, Children,
       Exited, MonitorPcs, CallPcs, RestartPcs, ProbePcs, ShutdownPcs, managed,
       config, monitor, explicit, shutdown
  <2>3. CASE ProbeDone(h)
    BY <2>3 DEF TypeOK, ValuesOK, ProbeDone, Modes, Policies, Children, Exited,
       MonitorPcs, CallPcs, RestartPcs, ProbePcs, ShutdownPcs, managed, config,
       monitor, explicit, shutdown
  <2> QED
    BY <1>7, <2>1, <2>2, <2>3 DEF ProbeStep
<1>8. CASE ShutdownStep
  <2>1. CASE BeginShutdown
    BY <2>1 DEF TypeOK, ValuesOK, BeginShutdown, Booted, Modes, Policies,
       Children, Exited, MonitorPcs, CallPcs, RestartPcs, ProbePcs,
       ShutdownPcs, managed, config, monitor, explicit, shutdown
  <2>2. CASE ShutdownCollect
    BY <2>2 DEF TypeOK, ValuesOK, ShutdownCollect, Modes, Policies, Children,
       Exited, MonitorPcs, CallPcs, RestartPcs, ProbePcs, ShutdownPcs, managed,
       config, monitor, explicit, shutdown
  <2>3. CASE ShutdownDrained
    BY <2>3 DEF TypeOK, ValuesOK, ShutdownDrained, Modes, Policies, Children,
       Exited, MonitorPcs, CallPcs, RestartPcs, ProbePcs, ShutdownPcs, managed,
       config, monitor, explicit, shutdown
  <2>4. CASE ShutdownDrainTimeout
    BY <2>4 DEF TypeOK, ValuesOK, ShutdownDrainTimeout, Modes, Policies,
       Children, Exited, MonitorPcs, CallPcs, RestartPcs, ProbePcs,
       ShutdownPcs, managed, config, monitor, explicit, shutdown
  <2>5. CASE ShutdownTake
    BY <2>5 DEF TypeOK, ValuesOK, ShutdownTake, Modes, Policies, Children,
       Exited, MonitorPcs, CallPcs, RestartPcs, ProbePcs, ShutdownPcs, managed,
       config, monitor, explicit, shutdown
  <2>6. CASE ShutdownStopped
    BY <2>6 DEF TypeOK, ValuesOK, ShutdownStopped, Modes, Policies, Children,
       Exited, MonitorPcs, CallPcs, RestartPcs, ProbePcs, ShutdownPcs, managed,
       config, monitor, explicit, shutdown
  <2> QED
    BY <1>8, <2>1, <2>2, <2>3, <2>4, <2>5, <2>6 DEF ShutdownStep
<1> QED
  BY <1>1, <1>2, <1>3, <1>4, <1>5, <1>6, <1>7, <1>8 DEF Next

-----------------------------------------------------------------------------
(* The inductive step, one lemma per actor and one step per action: what the *)
(* action may disturb is the mutex, the guard set, what the mutex holder      *)
(* knows, where shutdown puts the tasks, and who owns a pending restart.      *)

Strengthening ==
  /\ MutexInv
  /\ GuardInv
  /\ HolderInv
  /\ ShutdownInv
  /\ RestartingMeansNoLiveChild
  /\ OwnerInv

(* IInv is TypeOK together with the strengthening. *)
LEMMA IInvParts == IInv <=> TypeOK /\ Strengthening
BY DEF IInv, Strengthening

(* The steps of the environment preserve the strengthening. *)
LEMMA EnvironmentKeeps ==
  ASSUME IInv, TypeOK', Environment
  PROVE  Strengthening'
<1> USE TasksAssumption DEF IInv, Strengthening, TypeOK, FlagsOK, ValuesOK, MutexInv, GuardInv,
      HolderInv, ShutdownInv, RestartingMeansNoLiveChild, OwnerInv, Booted,
      Modes, Policies, Children, Exited, MonitorPcs, CallPcs, RestartPcs,
      ProbePcs, ShutdownPcs, managed, config, monitor, explicit, shutdown
<1>1. CASE ChildExits
  BY <1>1 DEF ChildExits
<1>2. CASE IdleElapses
  BY <1>2 DEF IdleElapses
<1> QED
  BY <1>1, <1>2 DEF Environment

(* The steps of boot preserve the strengthening. *)
LEMMA BootStepKeeps ==
  ASSUME IInv, TypeOK', BootStep
  PROVE  Strengthening'
<1> USE TasksAssumption DEF IInv, Strengthening, TypeOK, FlagsOK, ValuesOK, MutexInv, GuardInv,
      HolderInv, ShutdownInv, RestartingMeansNoLiveChild, OwnerInv, Booted,
      Modes, Policies, Children, Exited, MonitorPcs, CallPcs, RestartPcs,
      ProbePcs, ShutdownPcs, managed, config, monitor, explicit, shutdown
<1>1. CASE BootSpawn
  BY <1>1 DEF BootSpawn
<1>2. CASE BootInstall
  BY <1>2 DEF BootInstall, Installed
<1>3. CASE BootFails
  BY <1>3 DEF BootFails
<1>4. CASE MonitorStart
  BY <1>4 DEF MonitorStart
<1> QED
  BY <1>1, <1>2, <1>3, <1>4 DEF BootStep

(* The steps of the monitor preserve the strengthening. *)
LEMMA MonitorStepKeeps ==
  ASSUME IInv, TypeOK', MonitorStep
  PROVE  Strengthening'
<1> USE TasksAssumption DEF IInv, Strengthening, TypeOK, FlagsOK, ValuesOK, MutexInv, GuardInv,
      HolderInv, ShutdownInv, RestartingMeansNoLiveChild, OwnerInv, Booted,
      Modes, Policies, Children, Exited, MonitorPcs, CallPcs, RestartPcs,
      ProbePcs, ShutdownPcs, managed, config, monitor, explicit, shutdown
<1>1. CASE MonitorTick
  BY <1>1 DEF MonitorTick
<1>2. CASE MonitorSkip
  BY <1>2 DEF MonitorSkip, IdleDue, Wakeable
<1>3. CASE MonitorIdleStop
  BY <1>3 DEF MonitorIdleStop, IdleDue, Wakeable
<1>4. CASE MonitorStopped
  BY <1>4 DEF MonitorStopped
<1>5. CASE MonitorReport
  BY <1>5 DEF MonitorReport
<1>6. CASE MonitorDecide
  BY <1>6 DEF MonitorDecide, NextRestartAttempt, SaturatingIncrement
<1>7. CASE MonitorBackoffOver
  BY <1>7 DEF MonitorBackoffOver
<1>8. CASE MonitorSuperseded
  BY <1>8 DEF MonitorSuperseded
<1>9. CASE MonitorRespawn
  BY <1>9 DEF MonitorRespawn
<1>10. CASE MonitorRespawned
  BY <1>10 DEF MonitorRespawned, Installed
<1>11. CASE MonitorRespawnFails
  BY <1>11 DEF MonitorRespawnFails
<1> QED
  BY <1>1, <1>2, <1>3, <1>4, <1>5, <1>6, <1>7, <1>8, <1>9, <1>10, <1>11 DEF
     MonitorStep

(* The steps of callers preserve the strengthening. *)
LEMMA CallStepKeeps ==
  ASSUME IInv, TypeOK', NEW c \in Callers, CallStep(c)
  PROVE  Strengthening'
<1> USE TasksAssumption DEF IInv, Strengthening, TypeOK, FlagsOK, ValuesOK, MutexInv, GuardInv,
      HolderInv, ShutdownInv, RestartingMeansNoLiveChild, OwnerInv, Booted,
      Modes, Policies, Children, Exited, MonitorPcs, CallPcs, RestartPcs,
      ProbePcs, ShutdownPcs, managed, config, monitor, explicit, shutdown
<1>1. CASE CallBegin(c)
  BY <1>1 DEF CallBegin
<1>2. CASE CallRejected(c)
  BY <1>2 DEF CallRejected, CallAdmitted, Wakeable
<1>3. CASE CallRunning(c)
  BY <1>3 DEF CallRunning, CallAdmitted
<1>4. CASE CallActivate(c)
  BY <1>4 DEF CallActivate, CallAdmitted, Wakeable
<1>5. CASE CallActivated(c)
  BY <1>5 DEF CallActivated, Installed
<1>6. CASE CallActivationFails(c)
  BY <1>6 DEF CallActivationFails
<1>7. CASE CallReturned(c)
  BY <1>7 DEF CallReturned
<1>8. CASE CallReleased(c)
  BY <1>8 DEF CallReleased
<1> QED
  BY <1>1, <1>2, <1>3, <1>4, <1>5, <1>6, <1>7, <1>8 DEF CallStep

(* The steps of explicit restarts preserve the strengthening. *)
LEMMA RestartStepKeeps ==
  ASSUME IInv, TypeOK', NEW x \in Restarts, RestartStep(x)
  PROVE  Strengthening'
<1> USE TasksAssumption DEF IInv, Strengthening, TypeOK, FlagsOK, ValuesOK, MutexInv, GuardInv,
      HolderInv, ShutdownInv, RestartingMeansNoLiveChild, OwnerInv, Booted,
      Modes, Policies, Children, Exited, MonitorPcs, CallPcs, RestartPcs,
      ProbePcs, ShutdownPcs, managed, config, monitor, explicit, shutdown
<1>1. CASE RestartBegin(x)
  BY <1>1 DEF RestartBegin
<1>2. CASE RestartJoined(x)
  BY <1>2 DEF RestartJoined
<1>3. CASE RestartTake(x)
  BY <1>3 DEF RestartTake
<1>4. CASE RestartOldStopped(x)
  BY <1>4 DEF RestartOldStopped
<1>5. CASE RestartCheck(x)
  BY <1>5 DEF RestartCheck, SaturatingIncrement
<1>6. CASE RestartCancel(x)
  BY <1>6 DEF RestartCancel
<1>7. CASE RestartSpawned(x)
  BY <1>7 DEF RestartSpawned
<1>8. CASE RestartSpawnFails(x)
  BY <1>8 DEF RestartSpawnFails
<1>9. CASE RestartInstall(x)
  BY <1>9 DEF RestartInstall, Installed, ReplacementWanted
<1>10. CASE RestartDiscard(x)
  BY <1>10 DEF RestartDiscard, ReplacementWanted
<1>11. CASE RestartDiscarded(x)
  BY <1>11 DEF RestartDiscarded
<1>12. CASE RestartRetry(x)
  BY <1>12 DEF RestartRetry, RetryWanted
<1>13. CASE RestartBackoffOver(x)
  BY <1>13 DEF RestartBackoffOver
<1> QED
  BY <1>1, <1>2, <1>3, <1>4, <1>5, <1>6, <1>7, <1>8, <1>9, <1>10, <1>11, <1>12,
     <1>13 DEF RestartStep

(* The steps of probes preserve the strengthening. *)
LEMMA ProbeStepKeeps ==
  ASSUME IInv, TypeOK', NEW h \in Probes, ProbeStep(h)
  PROVE  Strengthening'
<1> USE TasksAssumption DEF IInv, Strengthening, TypeOK, FlagsOK, ValuesOK, MutexInv, GuardInv,
      HolderInv, ShutdownInv, RestartingMeansNoLiveChild, OwnerInv, Booted,
      Modes, Policies, Children, Exited, MonitorPcs, CallPcs, RestartPcs,
      ProbePcs, ShutdownPcs, managed, config, monitor, explicit, shutdown
<1>1. CASE ProbeBegin(h)
  BY <1>1 DEF ProbeBegin
<1>2. CASE ProbeTarget(h)
  BY <1>2 DEF ProbeTarget
<1>3. CASE ProbeDone(h)
  BY <1>3 DEF ProbeDone
<1> QED
  BY <1>1, <1>2, <1>3 DEF ProbeStep

(* The steps of shutdown preserve the strengthening. *)
LEMMA ShutdownStepKeeps ==
  ASSUME IInv, TypeOK', ShutdownStep
  PROVE  Strengthening'
<1> USE TasksAssumption DEF IInv, Strengthening, TypeOK, FlagsOK, ValuesOK, MutexInv, GuardInv,
      HolderInv, ShutdownInv, RestartingMeansNoLiveChild, OwnerInv, Booted,
      Modes, Policies, Children, Exited, MonitorPcs, CallPcs, RestartPcs,
      ProbePcs, ShutdownPcs, managed, config, monitor, explicit, shutdown
<1>1. CASE BeginShutdown
  BY <1>1 DEF BeginShutdown
<1>2. CASE ShutdownCollect
  BY <1>2 DEF ShutdownCollect
<1>3. CASE ShutdownDrained
  BY <1>3 DEF ShutdownDrained
<1>4. CASE ShutdownDrainTimeout
  BY <1>4 DEF ShutdownDrainTimeout
<1>5. CASE ShutdownTake
  BY <1>5 DEF ShutdownTake
<1>6. CASE ShutdownStopped
  BY <1>6 DEF ShutdownStopped
<1> QED
  BY <1>1, <1>2, <1>3, <1>4, <1>5, <1>6 DEF ShutdownStep

(* Every step of the next-state relation preserves the invariant. *)
LEMMA IInvStep ==
  ASSUME IInv, [Next]_vars
  PROVE  IInv'
<1>1. TypeOK'
  BY FlagsStep, ValuesStep DEF IInv, TypeOK
<1>2. CASE UNCHANGED vars
  BY <1>1, <1>2 DEF IInv, MutexInv, GuardInv, HolderInv, ShutdownInv,
         RestartingMeansNoLiveChild, OwnerInv, Booted, vars, managed,
         config, monitor, explicit, shutdown
<1>3. CASE Next
  BY <1>1, <1>3, EnvironmentKeeps, BootStepKeeps, MonitorStepKeeps, CallStepKeeps, RestartStepKeeps, ProbeStepKeeps, ShutdownStepKeeps,
     IInvParts DEF Next, IInv, Strengthening
<1> QED
  BY <1>2, <1>3

(* The initial states satisfy the invariant. *)
LEMMA IInvInit == ASSUME Init PROVE IInv
<1>1. FlagsOK
  BY Zenon DEF Init, FlagsOK
<1>2. ValuesOK
  BY CapAssumption DEF Init, ValuesOK, Modes, Policies, Children, Exited, MonitorPcs, CallPcs, RestartPcs,
     ProbePcs, ShutdownPcs
<1>3. Strengthening
  BY DEF Init, Strengthening, MutexInv, GuardInv, HolderInv, ShutdownInv,
         RestartingMeansNoLiveChild, OwnerInv, Booted, Exited
<1> QED
  BY <1>1, <1>2, <1>3, IInvParts DEF TypeOK

-----------------------------------------------------------------------------
(* The invariant holds in every reachable state. *)
THEOREM IInvAlways == Spec => []IInv
BY IInvInit, IInvStep, PTL DEF Spec

(* The Managed record and the tasks' locations are always well typed, and    *)
(* the saturating restart counters of monitor_service and                    *)
(* restart_requested_until_ready stay within their bound.                    *)
THEOREM TypeCorrect == Spec => []TypeOK
<1>1. IInv => TypeOK
  BY DEF IInv
<1> QED
  BY <1>1, IInvAlways, PTL

(* One step of LiveChildKept.                                                *)
KeepStep == InstallsAfterBoot => process # "live"

(* The only step that takes an explicit restart from its finished spawn to   *)
(* idle installs the replacement.                                            *)
LEMMA InstallStep ==
  ASSUME TypeOK, [Next]_vars, NEW x \in Restarts,
         xpc[x] = "install", xpc'[x] = "idle"
  PROVE  RestartInstall(x)
<1>1. xpc' # xpc
  OBVIOUS
<1>2. ~UNCHANGED vars
  BY <1>1, Zenon DEF vars, explicit
<1>3. ~Environment
  BY <1>1, Zenon DEF Environment, ChildExits, IdleElapses, explicit
<1>4. ~BootStep
  BY <1>1, Zenon DEF BootStep, BootSpawn, BootInstall, MonitorStart, BootFails, explicit
<1>5. ~MonitorStep
  BY <1>1, Zenon DEF MonitorStep, MonitorTick, MonitorSkip, MonitorIdleStop,
     MonitorStopped, MonitorReport, MonitorDecide, MonitorBackoffOver,
     MonitorSuperseded, MonitorRespawn, MonitorRespawned, MonitorRespawnFails, explicit
<1>6. \A c \in Callers : ~CallStep(c)
  BY <1>1, Zenon DEF CallStep, CallBegin, CallRejected, CallRunning, CallActivate,
     CallActivated, CallActivationFails, CallReturned, CallReleased, explicit
<1>7. \A h \in Probes : ~ProbeStep(h)
  BY <1>1, Zenon DEF ProbeStep, ProbeBegin, ProbeTarget, ProbeDone, explicit
<1>8. ~ShutdownStep
  BY <1>1, Zenon DEF ShutdownStep, BeginShutdown, ShutdownCollect, ShutdownDrained,
     ShutdownDrainTimeout, ShutdownTake, ShutdownStopped, explicit
<1>9. PICK y \in Restarts : RestartStep(y)
  BY <1>2, <1>3, <1>4, <1>5, <1>6, <1>7, <1>8 DEF Next
<1>10. xpc \in [Restarts -> RestartPcs]
  BY DEF TypeOK, ValuesOK
<1>11. \/ RestartInstall(y)
       \/ xpc[y] # "install" /\ xpc' = [xpc EXCEPT ![y] = xpc'[y]]
       \/ xpc' = [xpc EXCEPT ![y] = "discard"]
  BY <1>9, <1>10 DEF RestartStep, RestartBegin, RestartJoined, RestartTake,
     RestartOldStopped, RestartCheck, RestartCancel, RestartSpawned, RestartSpawnFails,
     RestartDiscard, RestartDiscarded, RestartRetry, RestartBackoffOver
<1>12. CASE RestartInstall(y)
  BY <1>10, <1>12 DEF RestartInstall
<1> QED
  BY <1>10, <1>11, <1>12

(* For any number of callers, explicit restarts and probes, the monitor, an  *)
(* explicit restart and a cold activation never install a child over a live  *)
(* one: each does so under the mutex with the restarting flag set, which     *)
(* never stands beside a live child.  The boot install, which looks at       *)
(* nothing, is not among them.                                               *)
THEOREM NoLiveChildReplaced == Spec => LiveChildKept
<1>1. ASSUME IInv, [Next]_vars PROVE [KeepStep]_vars
  <2>1. mpc = "respawn" => process # "live"
    BY <1>1 DEF IInv, HolderInv
  <2>2. \A c \in Callers : cpc[c] = "spawn" => process # "live"
    BY <1>1 DEF IInv, HolderInv
  <2>3. ASSUME NEW x \in Restarts, xpc[x] = "install", xpc'[x] = "idle"
        PROVE  process # "live"
    <3>1. RestartInstall(x)
      BY <1>1, <2>3, InstallStep DEF IInv
    <3> QED
      BY <1>1, <3>1 DEF IInv, RestartingMeansNoLiveChild, RestartInstall, ReplacementWanted
  <2> QED
    BY <2>1, <2>2, <2>3, Zenon DEF KeepStep, InstallsAfterBoot
<1> QED
  BY <1>1, IInvAlways, PTL DEF Spec, LiveChildKept, KeepStep

(* The monitor's idle stop never hits a child with a call or a health probe  *)
(* in flight: the guard count it reads under the mutex is exact.             *)
THEOREM IdleStopIsSafe == Spec => []IdleStopSparesCalls
<1>1. IInv => IdleStopSparesCalls
  BY TasksAssumption DEF IInv, HolderInv, GuardInv, IdleStopSparesCalls
<1> QED
  BY <1>1, IInvAlways, PTL

(* After shutdown_all has taken the child no task installs another.          *)
THEOREM ShutdownLeavesNoChild == Spec => []ShutdownIsTerminal
<1>1. IInv => ShutdownIsTerminal
  BY DEF IInv, ShutdownInv, ShutdownIsTerminal
<1> QED
  BY <1>1, IInvAlways, PTL

(* A successful wait_for_service_drain is never followed by a call.          *)
THEOREM DrainIsFinal == Spec => []DrainedMeansQuiet
<1>1. IInv => DrainedMeansQuiet
  BY DEF IInv, ShutdownInv, DrainedMeansQuiet
<1> QED
  BY <1>1, IInvAlways, PTL

(* No interleaving leaves the restarting flag set with nobody to clear it.   *)
THEOREM RestartNeverOrphaned == Spec => []RestartHasOwner
<1>1. IInv => RestartHasOwner
  BY DEF IInv, TypeOK, ValuesOK, OwnerInv, RestartingMeansNoLiveChild,
         RestartHasOwner, Children, Exited
<1> QED
  BY <1>1, IInvAlways, PTL

-----------------------------------------------------------------------------
(* One step of StoppedIsFinal.                                               *)
StoppedStep ==
  (RuntimeState = "stopped" /\ RuntimeState' # "stopped")
     => \/ mpc = "booting" /\ mpc' = "booted"
        \/ \E c \in Callers : cpc[c] = "lock" /\ cpc'[c] = "spawn"
        \/ \E x \in Restarts : xpc[x] = "lock" /\ xpc'[x] \in {"check", "stop_old"}


(* What "stopped" means in terms of the record: no live child, no pending    *)
(* restart, and either an exit that was dealt with or one the policy would   *)
(* not restart.                                                              *)
Stopped ==
  /\ process # "live"
  /\ ~restarting
  /\ process = "none" => (mode = "resident" \/ exitObserved)
  /\ process # "none" => (exitObserved \/ ~ShouldRestart(policy, process = "clean"))

(* The reported state is "stopped" exactly in those states. *)
LEMMA StoppedMeans == ASSUME TypeOK PROVE RuntimeState = "stopped" <=> Stopped
BY DEF RuntimeState, TypeOK, FlagsOK, ValuesOK, Children, Stopped, Wakeable

(* ER's directive and the local policy never revive a stopped service. *)
LEMMA DirectiveAgrees ==
  ASSUME NEW p \in Policies, NEW s \in BOOLEAN,
         NEW d \in {ComputeServiceDirective(p, s), "unavailable"}
  PROVE  RestartDecision(d, p, s) <=> ShouldRestart(p, s)
BY DEF Policies, ComputeServiceDirective, RestartDecision, ShouldRestart

(* Only a call that wakes the service or an explicit restart ends "stopped". *)
LEMMA StoppedUntilAsked ==
  ASSUME IInv, [Next]_vars
  PROVE  StoppedStep
<1> SUFFICES ASSUME Stopped, ~Stopped', ~(mpc = "booting" /\ mpc' = "booted"),
                    \A c \in Callers : ~(cpc[c] = "lock" /\ cpc'[c] = "spawn"),
                    \A x \in Restarts : ~(xpc[x] = "lock" /\ xpc'[x] \in {"check", "stop_old"})
             PROVE  FALSE
  <2>1. TypeOK /\ TypeOK'
    BY IInvStep DEF IInv
  <2>2. (RuntimeState = "stopped" <=> Stopped) /\ (RuntimeState' = "stopped" <=> Stopped')
    <3>1. RuntimeState = "stopped" <=> Stopped
      BY <2>1, StoppedMeans
    <3>2. RuntimeState' = "stopped" <=> Stopped'
      BY <2>1 DEF RuntimeState, TypeOK, FlagsOK, ValuesOK, Children, Stopped, Wakeable
    <3> QED
      BY <3>1, <3>2
  <2> QED
    BY <2>2 DEF StoppedStep
<1> USE DEF Stopped, Booted, IInv, TypeOK, ValuesOK, HolderInv, Children, CallPcs, RestartPcs
<1>1. CASE UNCHANGED vars
  BY <1>1 DEF vars, managed, config
<1>2. CASE Environment
  <2>1. CASE ChildExits
    BY <2>1 DEF ChildExits, Exited, ShouldRestart, managed, config
  <2>2. CASE IdleElapses
    BY <2>2 DEF IdleElapses, ShouldRestart, managed, config
  <2> QED
    BY <1>2, <2>1, <2>2 DEF Environment
<1>3. CASE BootStep
  <2>1. CASE BootSpawn
    BY <2>1 DEF BootSpawn, ShouldRestart, managed, config
  <2>2. CASE BootInstall
    BY <2>2 DEF BootInstall, Installed, ShouldRestart, managed, config
  <2>3. CASE BootFails
    BY <2>3 DEF BootFails, ShouldRestart, managed, config
  <2>4. CASE MonitorStart
    BY <2>4 DEF MonitorStart, ShouldRestart, managed, config
  <2> QED
    BY <1>3, <2>1, <2>2, <2>3, <2>4 DEF BootStep
<1>4. CASE MonitorStep
  <2>1. CASE MonitorTick
    BY <2>1 DEF MonitorTick, ShouldRestart, managed, config
  <2>2. CASE MonitorSkip
    BY <2>2 DEF MonitorSkip, IdleDue, Wakeable, ShouldRestart, managed, config
  <2>3. CASE MonitorIdleStop
    BY <2>3 DEF MonitorIdleStop, IdleDue, Wakeable, ShouldRestart, managed,
       config
  <2>4. CASE MonitorStopped
    BY <2>4 DEF MonitorStopped, ShouldRestart, managed, config
  <2>5. CASE MonitorReport
    BY <2>5 DEF MonitorReport, ShouldRestart, managed, config
  <2>6. CASE MonitorDecide
    <3>1. policy \in Policies /\ (process = "clean") \in BOOLEAN
      OBVIOUS
    <3>2. PICK d \in {ComputeServiceDirective(policy, process = "clean"), "unavailable"} :
            ~RestartDecision(d, policy, process = "clean") => exitObserved'
      BY <2>6 DEF MonitorDecide
    <3>3. RestartDecision(d, policy, process = "clean") <=> ShouldRestart(policy, process = "clean")
      BY <3>1, DirectiveAgrees
    <3> QED
      BY <2>6, <3>2, <3>3 DEF MonitorDecide, Exited, config
  <2>7. CASE MonitorBackoffOver
    BY <2>7 DEF MonitorBackoffOver, ShouldRestart, managed, config
  <2>8. CASE MonitorSuperseded
    BY <2>8 DEF MonitorSuperseded, ShouldRestart, managed, config
  <2>9. CASE MonitorRespawn
    BY <2>9 DEF MonitorRespawn, ShouldRestart, managed, config
  <2>10. CASE MonitorRespawned
    BY <2>10 DEF MonitorRespawned, Installed, ShouldRestart, managed, config
  <2>11. CASE MonitorRespawnFails
    BY <2>11 DEF MonitorRespawnFails, ShouldRestart, managed, config
  <2> QED
    BY <1>4, <2>1, <2>2, <2>3, <2>4, <2>5, <2>6, <2>7, <2>8, <2>9, <2>10, <2>11
       DEF MonitorStep
<1>5. ASSUME NEW c \in Callers, CallStep(c) PROVE FALSE
  <2>1. CASE CallBegin(c)
    BY <2>1 DEF CallBegin, ShouldRestart, managed, config
  <2>2. CASE CallRejected(c)
    BY <2>2 DEF CallRejected, CallAdmitted, Wakeable, ShouldRestart, managed,
       config
  <2>3. CASE CallRunning(c)
    BY <2>3 DEF CallRunning, CallAdmitted, ShouldRestart, managed, config
  <2>4. CASE CallActivate(c)
    BY <2>4 DEF CallActivate, CallAdmitted, Wakeable, ShouldRestart, managed,
       config
  <2>5. CASE CallActivated(c)
    BY <2>5 DEF CallActivated, Installed, ShouldRestart, managed, config
  <2>6. CASE CallActivationFails(c)
    BY <2>6 DEF CallActivationFails, ShouldRestart, managed, config
  <2>7. CASE CallReturned(c)
    BY <2>7 DEF CallReturned, ShouldRestart, managed, config
  <2>8. CASE CallReleased(c)
    BY <2>8 DEF CallReleased, ShouldRestart, managed, config
  <2> QED
    BY <1>5, <2>1, <2>2, <2>3, <2>4, <2>5, <2>6, <2>7, <2>8 DEF CallStep
<1>6. ASSUME NEW x \in Restarts, RestartStep(x) PROVE FALSE
  <2>1. CASE RestartBegin(x)
    BY <2>1 DEF RestartBegin, ShouldRestart, managed, config
  <2>2. CASE RestartJoined(x)
    BY <2>2 DEF RestartJoined, ShouldRestart, managed, config
  <2>3. CASE RestartTake(x)
    BY <2>3 DEF RestartTake, ShouldRestart, managed, config
  <2>4. CASE RestartOldStopped(x)
    BY <2>4 DEF RestartOldStopped, ShouldRestart, managed, config
  <2>5. CASE RestartCheck(x)
    BY <2>5 DEF RestartCheck, SaturatingIncrement, ShouldRestart, managed,
       config
  <2>6. CASE RestartCancel(x)
    BY <2>6 DEF RestartCancel, ShouldRestart, managed, config
  <2>7. CASE RestartSpawned(x)
    BY <2>7 DEF RestartSpawned, ShouldRestart, managed, config
  <2>8. CASE RestartSpawnFails(x)
    BY <2>8 DEF RestartSpawnFails, ShouldRestart, managed, config
  <2>9. CASE RestartInstall(x)
    BY <2>9 DEF RestartInstall, Installed, ReplacementWanted, ShouldRestart,
       managed, config
  <2>10. CASE RestartDiscard(x)
    BY <2>10 DEF RestartDiscard, ReplacementWanted, ShouldRestart, managed,
       config
  <2>11. CASE RestartDiscarded(x)
    BY <2>11 DEF RestartDiscarded, ShouldRestart, managed, config
  <2>12. CASE RestartRetry(x)
    BY <2>12 DEF RestartRetry, RetryWanted, ShouldRestart, managed, config
  <2>13. CASE RestartBackoffOver(x)
    BY <2>13 DEF RestartBackoffOver, ShouldRestart, managed, config
  <2> QED
    BY <1>6, <2>1, <2>2, <2>3, <2>4, <2>5, <2>6, <2>7, <2>8, <2>9, <2>10,
       <2>11, <2>12, <2>13 DEF RestartStep
<1>7. ASSUME NEW h \in Probes, ProbeStep(h) PROVE FALSE
  <2>1. CASE ProbeBegin(h)
    BY <2>1 DEF ProbeBegin, ShouldRestart, managed, config
  <2>2. CASE ProbeTarget(h)
    BY <2>2 DEF ProbeTarget, ShouldRestart, managed, config
  <2>3. CASE ProbeDone(h)
    BY <2>3 DEF ProbeDone, ShouldRestart, managed, config
  <2> QED
    BY <1>7, <2>1, <2>2, <2>3 DEF ProbeStep
<1>8. CASE ShutdownStep
  <2>1. CASE BeginShutdown
    BY <2>1 DEF BeginShutdown, ShouldRestart, managed, config
  <2>2. CASE ShutdownCollect
    BY <2>2 DEF ShutdownCollect, ShouldRestart, managed, config
  <2>3. CASE ShutdownDrained
    BY <2>3 DEF ShutdownDrained, ShouldRestart, managed, config
  <2>4. CASE ShutdownDrainTimeout
    BY <2>4 DEF ShutdownDrainTimeout, ShouldRestart, managed, config
  <2>5. CASE ShutdownTake
    BY <2>5 DEF ShutdownTake, ShouldRestart, managed, config
  <2>6. CASE ShutdownStopped
    BY <2>6 DEF ShutdownStopped, ShouldRestart, managed, config
  <2> QED
    BY <1>8, <2>1, <2>2, <2>3, <2>4, <2>5, <2>6 DEF ShutdownStep
<1> QED
  BY <1>1, <1>2, <1>3, <1>4, <1>5, <1>6, <1>7, <1>8 DEF Next

(* A service the snapshot reports as stopped is revived only by a call that   *)
(* activates it or by an explicit restart, never by the monitor alone.        *)
THEOREM StoppedStaysStopped == Spec => StoppedIsFinal
<1>1. IInv /\ [Next]_vars => [StoppedStep]_vars
  BY StoppedUntilAsked
<1> QED
  BY <1>1, IInvAlways, PTL DEF Spec, StoppedIsFinal, StoppedStep
=============================================================================
