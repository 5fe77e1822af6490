--------------------------- MODULE ServiceManager ---------------------------
(***************************************************************************)
(* One managed .service of the Service Mother: the `Managed` record behind  *)
(* its tokio mutex and every task that touches it (the boot loop, the       *)
(* monitor, callers, explicit restarts, health probes, shutdown).           *)
(* Source: engine/crates/service-runtime/src/manager.rs.                    *)
(*                                                                          *)
(* A `ServiceProcess` is an owned Rust value, so a child OS process is      *)
(* represented by the owner that holds it: `process` is the installed child *)
(* (Managed.process), and a task whose program counter lies in one of the   *)
(* spawning or stopping locations holds exactly one more.  Every await at   *)
(* which the mutex is held is a location with `locked` true; a critical     *)
(* section without an await is one atomic step.  A local variable is reset  *)
(* to zero when the task leaves the scope it lives in.                      *)
(***************************************************************************)
EXTENDS Naturals

CONSTANTS
  Callers,            \* tasks running invoke (call / event)
  Restarts,           \* tasks running restart_service
  Probes,             \* tasks running snapshot_managed_service
  AttemptCap,         \* where the u32 restart counters saturate
  CrashLoopThreshold  \* CRASH_LOOP_BACKOFF_THRESHOLD

ASSUME CapAssumption ==
  /\ AttemptCap \in Nat \ {0}
  /\ CrashLoopThreshold \in 1..AttemptCap
ASSUME TasksAssumption == Callers \cap Probes = {}

VARIABLES
  mode,           \* ServiceFile.mode, fixed at boot
  policy,         \* ServiceFile.restart, fixed at boot
  process,        \* Managed.process and the status try_wait reports of it
  attempts,       \* Managed.restart_attempts
  exitObserved,   \* Managed.exit_observed
  restarting,     \* Managed.restarting
  guards,         \* tasks owning an ActiveCallGuard; active_calls counts them
  idle,           \* idle_timeout has elapsed since Managed.last_activity
  locked,         \* the tokio Mutex<Managed> is held across an await
  shuttingDown,   \* ServiceManager.shutting_down
  mpc,            \* the boot loop, then the monitor task
  mattempt,       \* the monitor's local `attempt`
  cpc,            \* callers
  xpc,            \* explicit restart tasks
  xattempt,       \* their local `attempt` (zero outside the restart loop)
  hpc,            \* health probes
  spc,            \* shutdown_all
  drained         \* wait_for_service_drain returned true

managed == <<process, attempts, exitObserved, restarting, guards, idle>>
config  == <<mode, policy>>
monitor == <<mpc, mattempt>>
explicit == <<xpc, xattempt>>
shutdown == <<shuttingDown, spc, drained>>
vars == <<config, managed, locked, monitor, cpc, explicit, hpc, shutdown>>

Modes    == {"resident", "on_demand", "hybrid"}
Policies == {"always", "on_failure", "never"}
Children == {"none", "live", "clean", "failed"}
Exited   == {"clean", "failed"}

MonitorPcs  == {"boot", "booting", "booted", "sleep", "lock", "decide",
                "stop", "backoff", "relock", "respawn", "done"}
CallPcs     == {"idle", "lock", "spawn", "rpc", "release"}
RestartPcs  == {"idle", "lock", "stop_old", "check", "cancel", "spawning",
                "install", "discard", "failed", "backoff"}
ProbePcs    == {"idle", "lock", "probe"}
ShutdownPcs == {"none", "collect", "drain", "take", "stop", "done"}

-----------------------------------------------------------------------------
(* Pure helpers of manager.rs and er_recovery.rs.                           *)

Wakeable == mode # "resident"

IdleDueIgnoringCalls == Wakeable /\ idle
IdleDue == Wakeable /\ guards = {} /\ idle

ShouldRestart(restart, success) ==
  \/ restart = "always"
  \/ restart = "on_failure" /\ ~success

WrappingIncrement(n) == n + 1
SaturatingIncrement(n) == IF n < AttemptCap THEN n + 1 ELSE n

NextRestartAttempt(current, stable, retryInProgress) ==
  SaturatingIncrement(IF stable /\ ~retryInProgress THEN 0 ELSE current)

(* CONTROL ER's answer to an exit report (expected is always false here).   *)
DirectiveRestartsAlways(restart, success) ==
  IF restart = "never" THEN "stop" ELSE "restart"
ComputeServiceDirective(restart, success) ==
  IF restart = "never" \/ (restart = "on_failure" /\ success)
    THEN "stop" ELSE "restart"

(* The monitor's decision: the authority's directive, or the local policy   *)
(* when ER is absent, fails or does not answer within 700 ms.               *)
RestartDecision(directive, restart, success) ==
  CASE directive = "restart" -> TRUE
    [] directive = "stop"    -> FALSE
    [] OTHER                 -> ShouldRestart(restart, success)

(* The state a snapshot reports for the service.                            *)
RuntimeState ==
  CASE process = "live" -> "running"
    [] process # "live" /\ restarting ->
         IF attempts >= CrashLoopThreshold THEN "crash_loop_backoff"
                                           ELSE "restarting"
    [] process = "none" /\ ~restarting ->
         IF Wakeable /\ ~exitObserved THEN "dormant" ELSE "stopped"
    [] OTHER ->
         IF exitObserved \/ ~ShouldRestart(policy, process = "clean")
           THEN "stopped" ELSE "restarting"

(* The operator's control queue is polled, and the backend learns the       *)
(* Mother's address, only after start_prepared returned: explicit restarts, *)
(* probes and shutdown requests come later.  Calls do not wait: Fabric is   *)
(* served before start_prepared, for the services' own start hooks.         *)
Booted == mpc \notin {"boot", "booting", "booted"}

(* A fresh child becomes Managed.process: the assignments every successful  *)
(* spawn ends in.                                                           *)
InstalledKeepsFlag(n) ==
  /\ process' = "live" /\ attempts' = n /\ exitObserved' = FALSE
  /\ idle' = FALSE /\ UNCHANGED restarting
Installed(n) ==
  /\ process' = "live"
  /\ attempts' = n
  /\ exitObserved' = FALSE
  /\ restarting' = FALSE
  /\ idle' = FALSE

(* invoke's second look at the shutdown flag, under the mutex.              *)
CallAdmittedLate == TRUE
CallAdmitted == ~shuttingDown

(* What an explicit restart checks before it installs its replacement, and  *)
(* before it retries a failed one.                                          *)
ReplacementWantedAlways == TRUE
ReplacementWanted == ~shuttingDown /\ restarting

RetryNever == FALSE
RetryWanted == restarting

-----------------------------------------------------------------------------
(* prepare_all leaves every service dormant.                                *)
Init ==
  /\ mode \in Modes
  /\ policy \in Policies
  /\ process = "none"
  /\ attempts = 0
  /\ exitObserved = FALSE
  /\ restarting = FALSE
  /\ guards = {}
  /\ idle = FALSE
  /\ locked = FALSE
  /\ shuttingDown = FALSE
  /\ mpc = "boot"
  /\ mattempt = 0
  /\ cpc = [c \in Callers |-> "idle"]
  /\ xpc = [x \in Restarts |-> "idle"]
  /\ xattempt = [x \in Restarts |-> 0]
  /\ hpc = [h \in Probes |-> "idle"]
  /\ spc = "none"
  /\ drained = FALSE

-----------------------------------------------------------------------------
(* The environment: the child exits, the idle timeout elapses.              *)

ChildExits ==
  /\ process = "live"
  /\ \E status \in Exited : process' = status
  /\ UNCHANGED <<config, attempts, exitObserved, restarting, guards, idle,
                 locked, monitor, cpc, explicit, hpc, shutdown>>

IdleElapses ==
  /\ ~idle
  /\ idle' = TRUE
  /\ UNCHANGED <<config, process, attempts, exitObserved, restarting, guards,
                 locked, monitor, cpc, explicit, hpc, shutdown>>

-----------------------------------------------------------------------------
(* start_prepared.  The spawn holds no lock, and a call may activate the    *)
(* service while it waits for its turn or spawns: the install does not look *)
(* at the record, and drops the child it overwrites.  A failure, of this    *)
(* service or another, shuts everything down and no monitor is started.     *)

BootSpawn ==
  /\ mpc = "boot"
  /\ mpc' = IF mode = "on_demand" THEN "booted" ELSE "booting"
  /\ UNCHANGED <<config, managed, locked, mattempt, cpc, explicit, hpc, shutdown>>

BootInstall ==
  /\ mpc = "booting"
  /\ ~locked
  /\ Installed(0)
  /\ mpc' = "booted"
  /\ UNCHANGED <<config, guards, locked, mattempt, cpc, explicit, hpc, shutdown>>

(* Every other service has been started too.                                *)
MonitorStart ==
  /\ mpc = "booted"
  /\ mpc' = "sleep"
  /\ UNCHANGED <<config, managed, locked, mattempt, cpc, explicit, hpc, shutdown>>

BootFails ==
  /\ ~Booted
  /\ mpc' = "done"
  /\ shuttingDown' = TRUE
  /\ spc' = "collect"
  /\ UNCHANGED <<config, managed, locked, mattempt, cpc, explicit, hpc, drained>>

-----------------------------------------------------------------------------
(* monitor_service.                                                         *)

MonitorTick ==
  /\ mpc = "sleep"
  /\ mpc' = IF shuttingDown THEN "done" ELSE "lock"
  /\ UNCHANGED <<config, managed, locked, mattempt, cpc, explicit, hpc, shutdown>>

(* Nothing to do: no child, an exit already handled, a child that is not    *)
(* due for its idle stop, or a try_wait error.                              *)
MonitorSkip ==
  /\ mpc = "lock"
  /\ ~locked
  /\ mpc' = "sleep"
  /\ UNCHANGED <<config, managed, locked, mattempt, cpc, explicit, hpc, shutdown>>
  /\ \/ process = "none"
     \/ process \in Exited /\ exitObserved
     \/ process = "live" /\ ~IdleDue
     \/ process # "none"   \* try_wait failed

MonitorIdleStop ==
  /\ mpc = "lock"
  /\ ~locked
  /\ process = "live"
  /\ IdleDue
  /\ process' = "none"
  /\ attempts' = 0
  /\ exitObserved' = FALSE
  /\ restarting' = FALSE
  /\ locked' = TRUE
  /\ mpc' = "stop"
  /\ UNCHANGED <<config, guards, idle, mattempt, cpc, explicit, hpc, shutdown>>

MonitorStopped ==
  /\ mpc = "stop"
  /\ locked' = FALSE
  /\ mpc' = "sleep"
  /\ UNCHANGED <<config, managed, mattempt, cpc, explicit, hpc, shutdown>>

MonitorReport ==
  /\ mpc = "lock"
  /\ ~locked
  /\ process \in Exited
  /\ ~exitObserved
  /\ locked' = TRUE
  /\ mpc' = "decide"
  /\ UNCHANGED <<config, managed, mattempt, cpc, explicit, hpc, shutdown>>

(* The mutex is held while the authority is consulted.  `stable`: whether   *)
(* SERVICE_STABLE_WINDOW has passed since the child was started.            *)
MonitorDecide ==
  /\ mpc = "decide"
  /\ locked' = FALSE
  /\ \E directive \in {ComputeServiceDirective(policy, process = "clean"), "unavailable"} :
       IF RestartDecision(directive, policy, process = "clean")
         THEN /\ \E stable \in BOOLEAN :
                   attempts' = NextRestartAttempt(attempts, stable, restarting)
              /\ mattempt' = attempts'
              /\ restarting' = TRUE
              /\ mpc' = "backoff"
              /\ UNCHANGED exitObserved
         ELSE /\ exitObserved' = TRUE
              /\ restarting' = FALSE
              /\ mpc' = "sleep"
              /\ UNCHANGED <<attempts, mattempt>>
  /\ UNCHANGED <<config, process, guards, idle, cpc, explicit, hpc, shutdown>>

MonitorBackoffOver ==
  /\ mpc = "backoff"
  /\ mpc' = IF shuttingDown THEN "done" ELSE "relock"
  /\ mattempt' = IF shuttingDown THEN 0 ELSE mattempt
  /\ UNCHANGED <<config, managed, locked, cpc, explicit, hpc, shutdown>>

SupersededMonitorReturns ==
  /\ mpc = "relock"
  /\ ~locked
  /\ \/ shuttingDown /\ mpc' = "done" /\ UNCHANGED restarting
     \/ ~shuttingDown /\ ~restarting /\ mpc' = "done" /\ UNCHANGED restarting
  /\ mattempt' = 0
  /\ UNCHANGED <<config, process, attempts, exitObserved, guards, idle, locked,
                 cpc, explicit, hpc, shutdown>>
(* The re-check under the mutex: shutdown, superseded, a running            *)
(* replacement, or a try_wait error.                                        *)
MonitorSuperseded ==
  /\ mpc = "relock"
  /\ ~locked
  /\ \/ shuttingDown /\ mpc' = "done" /\ UNCHANGED restarting
     \/ ~shuttingDown /\ ~restarting /\ mpc' = "sleep" /\ UNCHANGED restarting
     \/ /\ ~shuttingDown /\ restarting /\ process = "live"
        /\ mpc' = "sleep" /\ restarting' = FALSE
     \/ /\ ~shuttingDown /\ restarting /\ process # "none"  \* try_wait failed
        /\ mpc' = "sleep" /\ UNCHANGED restarting
  /\ mattempt' = 0
  /\ UNCHANGED <<config, process, attempts, exitObserved, guards, idle, locked,
                 cpc, explicit, hpc, shutdown>>

MonitorRespawn ==
  /\ mpc = "relock"
  /\ ~locked
  /\ ~shuttingDown
  /\ restarting
  /\ process # "live"
  /\ locked' = TRUE
  /\ mpc' = "respawn"
  /\ UNCHANGED <<config, managed, mattempt, cpc, explicit, hpc, shutdown>>

MonitorRespawned ==
  /\ mpc = "respawn"
  /\ Installed(mattempt)
  /\ locked' = FALSE
  /\ mpc' = "sleep"
  /\ mattempt' = 0
  /\ UNCHANGED <<config, guards, cpc, explicit, hpc, shutdown>>

MonitorRespawnFails ==
  /\ mpc = "respawn"
  /\ attempts' = mattempt
  /\ restarting' = TRUE
  /\ locked' = FALSE
  /\ mpc' = "sleep"
  /\ mattempt' = 0
  /\ UNCHANGED <<config, process, exitObserved, guards, idle, cpc,
                 explicit, hpc, shutdown>>

-----------------------------------------------------------------------------
(* invoke and activate_for_call.                                            *)

CallBegin(c) ==
  /\ cpc[c] = "idle"
  /\ ~shuttingDown
  /\ cpc' = [cpc EXCEPT ![c] = "lock"]
  /\ UNCHANGED <<config, managed, locked, monitor, explicit, hpc, shutdown>>

(* Unavailable, or Inspect after a try_wait error.                          *)
CallRejected(c) ==
  /\ cpc[c] = "lock"
  /\ ~locked
  /\ \/ ~CallAdmitted
     \/ process # "live" /\ ~Wakeable
     \/ process # "none"   \* try_wait failed
  /\ cpc' = [cpc EXCEPT ![c] = "idle"]
  /\ UNCHANGED <<config, managed, locked, monitor, explicit, hpc, shutdown>>

CallRunning(c) ==
  /\ cpc[c] = "lock"
  /\ ~locked
  /\ CallAdmitted
  /\ process = "live"
  /\ idle' = FALSE
  /\ guards' = guards \cup {c}
  /\ cpc' = [cpc EXCEPT ![c] = "rpc"]
  /\ UNCHANGED <<config, process, attempts, exitObserved, restarting, locked,
                 monitor, explicit, hpc, shutdown>>

(* The cold activation spawns with the mutex held.                          *)
CallActivate(c) ==
  /\ cpc[c] = "lock"
  /\ ~locked
  /\ CallAdmitted
  /\ process # "live"
  /\ Wakeable
  /\ restarting' = TRUE
  /\ locked' = TRUE
  /\ cpc' = [cpc EXCEPT ![c] = "spawn"]
  /\ UNCHANGED <<config, process, attempts, exitObserved, guards, idle,
                 monitor, explicit, hpc, shutdown>>

CallActivated(c) ==
  /\ cpc[c] = "spawn"
  /\ Installed(0)
  /\ guards' = guards \cup {c}
  /\ locked' = FALSE
  /\ cpc' = [cpc EXCEPT ![c] = "rpc"]
  /\ UNCHANGED <<config, monitor, explicit, hpc, shutdown>>

CallActivationFails(c) ==
  /\ cpc[c] = "spawn"
  /\ restarting' = FALSE
  /\ locked' = FALSE
  /\ cpc' = [cpc EXCEPT ![c] = "idle"]
  /\ UNCHANGED <<config, process, attempts, exitObserved, guards, idle,
                 monitor, explicit, hpc, shutdown>>

(* The rpc answered, failed or timed out: activity is recorded under the    *)
(* mutex first, the guard is dropped after it is released.                  *)
CallReturned(c) ==
  /\ cpc[c] = "rpc"
  /\ ~locked
  /\ idle' = FALSE
  /\ cpc' = [cpc EXCEPT ![c] = "release"]
  /\ UNCHANGED <<config, process, attempts, exitObserved, restarting, guards,
                 locked, monitor, explicit, hpc, shutdown>>

CallReleased(c) ==
  /\ cpc[c] = "release"
  /\ guards' = guards \ {c}
  /\ cpc' = [cpc EXCEPT ![c] = "idle"]
  /\ UNCHANGED <<config, process, attempts, exitObserved, restarting, idle,
                 locked, monitor, explicit, hpc, shutdown>>

-----------------------------------------------------------------------------
(* restart_service and restart_requested_until_ready.                       *)

RestartBegin(x) ==
  /\ Booted
  /\ xpc[x] = "idle"
  /\ ~shuttingDown
  /\ xpc' = [xpc EXCEPT ![x] = "lock"]
  /\ UNCHANGED <<config, managed, locked, monitor, cpc, xattempt, hpc, shutdown>>

(* A restart in progress is joined: the request is accepted, nothing runs.  *)
RestartJoined(x) ==
  /\ xpc[x] = "lock"
  /\ ~locked
  /\ restarting
  /\ xpc' = [xpc EXCEPT ![x] = "idle"]
  /\ UNCHANGED <<config, managed, locked, monitor, cpc, xattempt, hpc, shutdown>>

RestartTake(x) ==
  /\ xpc[x] = "lock"
  /\ ~locked
  /\ ~restarting
  /\ restarting' = TRUE
  /\ exitObserved' = FALSE
  /\ attempts' = 0
  /\ process' = "none"
  /\ xpc' = [xpc EXCEPT ![x] = IF process = "none" THEN "check" ELSE "stop_old"]
  /\ UNCHANGED <<config, guards, idle, locked, monitor, cpc, xattempt, hpc, shutdown>>

RestartOldStopped(x) ==
  /\ xpc[x] = "stop_old"
  /\ xpc' = [xpc EXCEPT ![x] = "check"]
  /\ UNCHANGED <<config, managed, locked, monitor, cpc, xattempt, hpc, shutdown>>

(* The loop head; the spawn runs without the mutex.                         *)
RestartCheck(x) ==
  /\ xpc[x] = "check"
  /\ IF shuttingDown
       THEN /\ xpc' = [xpc EXCEPT ![x] = "cancel"]
            /\ UNCHANGED xattempt
       ELSE /\ xpc' = [xpc EXCEPT ![x] = "spawning"]
            /\ xattempt' = [xattempt EXCEPT ![x] = SaturatingIncrement(@)]
  /\ UNCHANGED <<config, managed, locked, monitor, cpc, hpc, shutdown>>

RestartCancel(x) ==
  /\ xpc[x] = "cancel"
  /\ ~locked
  /\ restarting' = FALSE
  /\ xpc' = [xpc EXCEPT ![x] = "idle"]
  /\ xattempt' = [xattempt EXCEPT ![x] = 0]
  /\ UNCHANGED <<config, process, attempts, exitObserved, guards, idle, locked,
                 monitor, cpc, hpc, shutdown>>

RestartSpawned(x) ==
  /\ xpc[x] = "spawning"
  /\ xpc' = [xpc EXCEPT ![x] = "install"]
  /\ UNCHANGED <<config, managed, locked, monitor, cpc, xattempt, hpc, shutdown>>

RestartSpawnFails(x) ==
  /\ xpc[x] = "spawning"
  /\ xpc' = [xpc EXCEPT ![x] = "failed"]
  /\ UNCHANGED <<config, managed, locked, monitor, cpc, xattempt, hpc, shutdown>>

RestartInstall(x) ==
  /\ xpc[x] = "install"
  /\ ~locked
  /\ ReplacementWanted
  /\ Installed(0)
  /\ xpc' = [xpc EXCEPT ![x] = "idle"]
  /\ xattempt' = [xattempt EXCEPT ![x] = 0]
  /\ UNCHANGED <<config, guards, locked, monitor, cpc, hpc, shutdown>>

RestartDiscard(x) ==
  /\ xpc[x] = "install"
  /\ ~locked
  /\ ~ReplacementWanted
  /\ xpc' = [xpc EXCEPT ![x] = "discard"]
  /\ xattempt' = [xattempt EXCEPT ![x] = 0]
  /\ UNCHANGED <<config, managed, locked, monitor, cpc, hpc, shutdown>>

RestartDiscarded(x) ==
  /\ xpc[x] = "discard"
  /\ xpc' = [xpc EXCEPT ![x] = "idle"]
  /\ xattempt' = [xattempt EXCEPT ![x] = 0]
  /\ UNCHANGED <<config, managed, locked, monitor, cpc, hpc, shutdown>>

RestartRetry(x) ==
  /\ xpc[x] = "failed"
  /\ ~locked
  /\ IF RetryWanted
       THEN /\ attempts' = xattempt[x]
            /\ xpc' = [xpc EXCEPT ![x] = "backoff"]
            /\ UNCHANGED xattempt
       ELSE /\ xpc' = [xpc EXCEPT ![x] = "idle"]
            /\ xattempt' = [xattempt EXCEPT ![x] = 0]
            /\ UNCHANGED attempts
  /\ UNCHANGED <<config, process, exitObserved, restarting, guards, idle, locked,
                 monitor, cpc, hpc, shutdown>>

RestartBackoffOver(x) ==
  /\ xpc[x] = "backoff"
  /\ xpc' = [xpc EXCEPT ![x] = "check"]
  /\ UNCHANGED <<config, managed, locked, monitor, cpc, xattempt, hpc, shutdown>>

-----------------------------------------------------------------------------
(* snapshot_managed_service.  probe_health is read before the mutex is      *)
(* taken; a probe holds a guard but does not refresh the idle clock.        *)

ProbeBegin(h) ==
  /\ Booted
  /\ hpc[h] = "idle"
  /\ ~shuttingDown
  /\ hpc' = [hpc EXCEPT ![h] = "lock"]
  /\ UNCHANGED <<config, managed, locked, monitor, cpc, explicit, shutdown>>

ProbeTarget(h) ==
  /\ hpc[h] = "lock"
  /\ ~locked
  /\ IF process = "live"
       THEN /\ guards' = guards \cup {h}
            /\ hpc' = [hpc EXCEPT ![h] = "probe"]
       ELSE /\ hpc' = [hpc EXCEPT ![h] = "idle"]
            /\ UNCHANGED guards
  /\ UNCHANGED <<config, process, attempts, exitObserved, restarting, idle,
                 locked, monitor, cpc, explicit, shutdown>>

ProbeDone(h) ==
  /\ hpc[h] = "probe"
  /\ guards' = guards \ {h}
  /\ hpc' = [hpc EXCEPT ![h] = "idle"]
  /\ UNCHANGED <<config, process, attempts, exitObserved, restarting, idle,
                 locked, monitor, cpc, explicit, shutdown>>

-----------------------------------------------------------------------------
(* begin_shutdown and shutdown_all.                                         *)

BeginShutdown ==
  /\ Booted
  /\ spc = "none"
  /\ shuttingDown' = TRUE
  /\ spc' = "collect"
  /\ UNCHANGED <<config, managed, locked, monitor, cpc, explicit, hpc, drained>>

(* Cloning the counter needs the mutex: a caller already past its own       *)
(* shutdown check has its guard by the time the drain starts.               *)
ShutdownCollect ==
  /\ spc = "collect"
  /\ ~locked
  /\ spc' = "drain"
  /\ UNCHANGED <<config, managed, locked, monitor, cpc, explicit, hpc,
                 shuttingDown, drained>>

ShutdownDrained ==
  /\ spc = "drain"
  /\ guards = {}
  /\ drained' = TRUE
  /\ spc' = "take"
  /\ UNCHANGED <<config, managed, locked, monitor, cpc, explicit, hpc, shuttingDown>>

ShutdownDrainTimeout ==
  /\ spc = "drain"
  /\ guards # {}
  /\ spc' = "take"
  /\ UNCHANGED <<config, managed, locked, monitor, cpc, explicit, hpc,
                 shuttingDown, drained>>

ShutdownTake ==
  /\ spc = "take"
  /\ ~locked
  /\ exitObserved' = TRUE
  /\ restarting' = FALSE
  /\ process' = "none"
  /\ spc' = IF process = "none" THEN "done" ELSE "stop"
  /\ UNCHANGED <<config, attempts, guards, idle, locked, monitor, cpc, explicit,
                 hpc, shuttingDown, drained>>

ShutdownStopped ==
  /\ spc = "stop"
  /\ spc' = "done"
  /\ UNCHANGED <<config, managed, locked, monitor, cpc, explicit, hpc,
                 shuttingDown, drained>>

-----------------------------------------------------------------------------
Environment == ChildExits \/ IdleElapses

BootStep == BootSpawn \/ BootInstall \/ MonitorStart \/ BootFails

MonitorStep ==
  \/ MonitorTick \/ MonitorSkip \/ MonitorIdleStop \/ MonitorStopped
  \/ MonitorReport \/ MonitorDecide \/ MonitorBackoffOver \/ MonitorSuperseded
  \/ MonitorRespawn \/ MonitorRespawned \/ MonitorRespawnFails

CallStep(c) ==
  \/ CallBegin(c) \/ CallRejected(c) \/ CallRunning(c) \/ CallActivate(c)
  \/ CallActivated(c) \/ CallActivationFails(c) \/ CallReturned(c) \/ CallReleased(c)

RestartStep(x) ==
  \/ RestartBegin(x) \/ RestartJoined(x) \/ RestartTake(x) \/ RestartOldStopped(x)
  \/ RestartCheck(x) \/ RestartCancel(x) \/ RestartSpawned(x) \/ RestartSpawnFails(x)
  \/ RestartInstall(x) \/ RestartDiscard(x) \/ RestartDiscarded(x) \/ RestartRetry(x)
  \/ RestartBackoffOver(x)

ProbeStep(h) == ProbeBegin(h) \/ ProbeTarget(h) \/ ProbeDone(h)

ShutdownStep ==
  \/ BeginShutdown \/ ShutdownCollect \/ ShutdownDrained \/ ShutdownDrainTimeout
  \/ ShutdownTake \/ ShutdownStopped

Next ==
  \/ Environment
  \/ BootStep
  \/ MonitorStep
  \/ \E c \in Callers : CallStep(c)
  \/ \E x \in Restarts : RestartStep(x)
  \/ \E h \in Probes : ProbeStep(h)
  \/ ShutdownStep

Spec == Init /\ [][Next]_vars

(* Every task that has begun goes on: sleeps, rpcs, stops and spawns are     *)
(* bounded by timeouts, and a tokio mutex serves its waiters in order, so a  *)
(* task whose lock step is enabled again and again takes it (SF).            *)
CallProgress(c) == CallStep(c) /\ cpc[c] # "idle"
RestartProgress(x) == RestartStep(x) /\ xpc[x] # "idle"
ProbeProgress(h) == ProbeStep(h) /\ hpc[h] # "idle"
ShutdownProgress == ShutdownStep /\ spc # "none"

TaskFairness ==
  /\ WF_vars(BootStep)
  /\ SF_vars(MonitorStep)
  /\ \A c \in Callers : SF_vars(CallProgress(c))
  /\ \A x \in Restarts : SF_vars(RestartProgress(x))
  /\ \A h \in Probes : SF_vars(ProbeProgress(h))
  /\ SF_vars(ShutdownProgress)

(* The environment's part: try_wait does not fail and a replacement does not *)
(* fail to start for ever.                                                   *)
SpawnSucceeds ==
  \/ MonitorRespawned
  \/ \E c \in Callers : CallActivated(c)
  \/ \E x \in Restarts : RestartSpawned(x)

SpawnFairness ==
  /\ SF_vars(MonitorReport)
  /\ SF_vars(MonitorRespawn)
  /\ SF_vars(SpawnSucceeds)

FairSpec == Spec /\ TaskFairness /\ SpawnFairness

-----------------------------------------------------------------------------
FlagsOK ==
  /\ exitObserved \in BOOLEAN
  /\ restarting \in BOOLEAN
  /\ idle \in BOOLEAN
  /\ locked \in BOOLEAN
  /\ shuttingDown \in BOOLEAN
  /\ drained \in BOOLEAN

ValuesOK ==
  /\ mode \in Modes
  /\ policy \in Policies
  /\ process \in Children
  /\ attempts \in 0..AttemptCap
  /\ guards \subseteq Callers \cup Probes
  /\ mpc \in MonitorPcs
  /\ mattempt \in 0..AttemptCap
  /\ cpc \in [Callers -> CallPcs]
  /\ xpc \in [Restarts -> RestartPcs]
  /\ xattempt \in [Restarts -> 0..AttemptCap]
  /\ hpc \in [Probes -> ProbePcs]
  /\ spc \in ShutdownPcs

(* The record and every task's location keep their types, and the restart   *)
(* counters never pass the value at which they saturate.                    *)
TypeOK == FlagsOK /\ ValuesOK

(* An install overwrites Managed.process, and dropping a live child there   *)
(* kills it with its calls in flight (kill_on_drop).  The boot install does *)
(* that to a child a call activated before it; no other spawn site, neither *)
(* the monitor, an explicit restart nor a cold activation, ever installs    *)
(* its child over a live one.                                               *)
InstallsAfterBoot ==
  \/ mpc = "respawn" /\ mpc' = "sleep"
  \/ \E c \in Callers : cpc[c] = "spawn" /\ cpc'[c] = "rpc"
  \/ \E x \in Restarts : xpc[x] = "install" /\ xpc'[x] = "idle"
LiveChildKept == [][ InstallsAfterBoot => process # "live" ]_vars

(* The idle stop of the monitor never stops a child that still owes an      *)
(* answer: no call and no health probe is in flight while it stops one.     *)
IdleStopSparesCalls ==
  mpc = "stop" => /\ \A c \in Callers : cpc[c] \notin {"rpc", "release"}
                  /\ \A h \in Probes : hpc[h] # "probe"

(* Once shutdown_all has taken the child, nothing installs another one: not *)
(* the delayed restart, not an explicit restart, not a late call.           *)
ShutdownIsTerminal == spc \in {"stop", "done"} => process = "none"

(* A drain that reported success left no call in flight, and none can start *)
(* afterwards, although admission is only a flag read before the mutex.     *)
DrainedMeansQuiet ==
  drained => \A c \in Callers : cpc[c] \notin {"spawn", "rpc", "release"}

(* A pending restart always has a task that will finish it: the flag makes  *)
(* every later explicit request a no-op, so an ownerless one would never    *)
(* be cleared for a resident service.                                       *)
RestartHasOwner ==
  restarting =>
    \/ shuttingDown                  \* shutdown_all clears the flag
    \/ process \in Exited            \* the monitor sees the exit again
    \/ mpc \in {"backoff", "relock", "respawn"}
    \/ \E c \in Callers : cpc[c] = "spawn"
    \/ \E x \in Restarts : xpc[x] \notin {"idle", "lock"}

(* A service reported stopped stays stopped until its boot installs a child, *)
(* a call wakes it or an operator restarts it; the monitor alone never      *)
(* revives it, because ER's directive never contradicts the local policy.   *)
StoppedIsFinal ==
  [][ (RuntimeState = "stopped" /\ RuntimeState' # "stopped")
        => \/ mpc = "booting" /\ mpc' = "booted"
           \/ \E c \in Callers : cpc[c] = "lock" /\ cpc'[c] = "spawn"
           \/ \E x \in Restarts : xpc[x] = "lock" /\ xpc'[x] \in {"check", "stop_old"} ]_vars

(* An exit the monitor has not dealt with is dealt with: the service runs    *)
(* again, is recorded as stopped, or its record is emptied.                  *)
ExitResolved ==
  (process \in Exited /\ ~exitObserved) ~> (process \notin Exited \/ exitObserved)

(* A pending restart ends: `restarting` turns away every explicit restart    *)
(* request, so it may not stay set.                                          *)
RestartResolves == restarting ~> ~restarting

(* Shutdown ends, and with it every task that was under way.                 *)
ShutdownCompletes ==
  shuttingDown ~> /\ spc = "done" /\ mpc = "done"
                  /\ \A c \in Callers : cpc[c] = "idle"
                  /\ \A x \in Restarts : xpc[x] = "idle"

(* Nothing the monitor, an explicit restart or shutdown has begun stays      *)
(* unfinished: exits are dealt with, pending restarts and shutdown end.      *)
TasksSettle == ExitResolved /\ RestartResolves /\ ShutdownCompletes

(* The strengthening that makes the invariants above inductive.             *)

(* The mutex is held across an await by exactly one task.                   *)
MutexInv ==
  /\ locked <=> \/ mpc \in {"decide", "stop", "respawn"}
                \/ \E c \in Callers : cpc[c] = "spawn"
  /\ mpc \in {"decide", "stop", "respawn"} => \A c \in Callers : cpc[c] # "spawn"
  /\ \A c, d \in Callers : cpc[c] = "spawn" /\ cpc[d] = "spawn" => c = d

(* active_calls counts the calls and probes in flight and nothing else.     *)
GuardInv ==
  guards = {c \in Callers : cpc[c] \in {"rpc", "release"}}
             \cup {h \in Probes : hpc[h] = "probe"}

(* The restarting flag is never set beside a live child.                    *)
RestartingMeansNoLiveChild == restarting => process # "live"

(* What the holder of the mutex knows of the record it has locked.          *)
HolderInv ==
  /\ mpc = "decide" => process \in Exited /\ ~exitObserved
  /\ mpc = "respawn" => process # "live" /\ restarting
  /\ mpc = "stop" => guards = {}
  /\ \A c \in Callers : cpc[c] = "spawn" => process # "live" /\ restarting

(* Where the shutdown flag puts the other tasks.                            *)
ShutdownInv ==
  /\ shuttingDown <=> spc # "none"
  /\ ~Booted => spc = "none"
  /\ spc \in {"drain", "take", "stop", "done"} => \A c \in Callers : cpc[c] # "spawn"
  /\ spc \in {"stop", "done"} => process = "none" /\ mpc # "respawn"
  /\ drained => /\ spc \in {"take", "stop", "done"}
                /\ \A c \in Callers : cpc[c] \notin {"rpc", "release"}

(* A pending restart without any child is owned by a caller's activation or *)
(* by an explicit restart that has not left its loop.                       *)
OwnerInv ==
  restarting /\ process = "none" =>
    \/ shuttingDown
    \/ \E c \in Callers : cpc[c] = "spawn"
    \/ \E x \in Restarts : xpc[x] \in {"stop_old", "check", "cancel", "spawning",
                                       "install", "failed", "backoff"}

IInv ==
  /\ TypeOK
  /\ MutexInv
  /\ GuardInv
  /\ HolderInv
  /\ ShutdownInv
  /\ RestartingMeansNoLiveChild
  /\ OwnerInv

(* docs/service-runtime.md: a delayed restart is superseded "instead of     *)
(* creating a duplicate child" when the service was revived meanwhile.      *)
NoDuplicateRespawn ==
  mpc = "respawn" => \A x \in Restarts : xpc[x] \notin {"stop_old", "spawning", "install"}
=============================================================================
