-------------------------- MODULE MotherSupervisor --------------------------
(***************************************************************************)
(* The backend's supervision of the Service Mother process: the `supervise` *)
(* task, the endpoint that all ServiceManager handles of the backend share, *)
(* the operator's restart requests that Mother polls, and the workers that  *)
(* outlive a Mother until they notice that their parent pipe has closed.    *)
(* Sources: backend/src/service_mother.rs, backend/src/service_control.rs,  *)
(* service-runtime/src/mother.rs.                                           *)
(*                                                                          *)
(* Every spawn is a new generation with a token of its own; all that the    *)
(* properties tell apart is the current generation and the older ones.      *)
(***************************************************************************)
EXTENDS Naturals

CONSTANTS
  Requests,     \* names of the restart request files an operator may submit
  AttemptCap    \* where restart_attempts saturates

ASSUME AttemptAssumption == AttemptCap \in Nat \ {0}

VARIABLES
  mother,     \* the OS process of the current generation
  workers,    \* it has worker processes alive
  orphans,    \* an older generation has worker processes alive
  endpoint,   \* ServiceMotherClient.endpoint: the generation it addresses
  closing,    \* the shared manager's shutting_down flag
  svpc,       \* the supervise task
  attempts,   \* its restart_attempts
  mainpc,     \* ServiceMotherSupervisor::shutdown
  queue       \* request files of the control directory

processes == <<mother, workers, orphans>>
handle    == <<endpoint, closing>>
vars == <<processes, handle, svpc, attempts, mainpc, queue>>

MotherStates == {"starting", "ready", "draining", "exited"}
SupervisePcs == {"watch", "decide", "backoff", "spawning", "stopping",
                 "waiting", "ended"}
MainPcs      == {"run", "waiting", "done"}
FileStates   == {"absent", "whole", "service", "stale"}
Endpoints    == {"none", "current", "older"}

SaturatingIncrement(n) == IF n < AttemptCap THEN n + 1 ELSE n

-----------------------------------------------------------------------------
(* `spawn` has returned: the first Mother is ready and supervised.          *)
Init ==
  /\ mother = "ready"
  /\ workers = TRUE
  /\ orphans = FALSE
  /\ endpoint = "current"
  /\ closing = FALSE
  /\ svpc = "watch"
  /\ attempts = 0
  /\ mainpc = "run"
  /\ queue = [r \in Requests |-> "absent"]

-----------------------------------------------------------------------------
(* Mother and its workers.                                                  *)

(* A crash or a kill at any point; the workers have not noticed yet.        *)
MotherCrashes ==
  /\ mother # "exited"
  /\ mother' = "exited"
  /\ UNCHANGED <<workers, orphans, handle, svpc, attempts, mainpc, queue>>

(* shutdown_all has stopped the workers; run_child returns.                 *)
MotherDrained ==
  /\ mother = "draining"
  /\ mother' = "exited"
  /\ workers' = FALSE
  /\ UNCHANGED <<orphans, handle, svpc, attempts, mainpc, queue>>

(* A worker exits when its stdin, held by its Mother, closes.               *)
WorkersExit ==
  /\ \/ mother = "exited" /\ workers /\ workers' = FALSE /\ UNCHANGED orphans
     \/ orphans /\ orphans' = FALSE /\ UNCHANGED workers
  /\ UNCHANGED <<mother, handle, svpc, attempts, mainpc, queue>>

-----------------------------------------------------------------------------
(* service_control: submit, REQUEST_TTL, one tick of run_mother_control.    *)

Submit(r) ==
  /\ queue[r] = "absent"
  /\ \E kind \in {"whole", "service"} : queue' = [queue EXCEPT ![r] = kind]
  /\ UNCHANGED <<processes, handle, svpc, attempts, mainpc>>

RequestExpires(r) ==
  /\ queue[r] \in {"whole", "service"}
  /\ queue' = [queue EXCEPT ![r] = "stale"]
  /\ UNCHANGED <<processes, handle, svpc, attempts, mainpc>>

(* take_restart_requests reads and removes the files (a failed removal is   *)
(* ignored and leaves the file); a fresh whole request ends the control     *)
(* task and run_child drains the manager, else the services are restarted   *)
(* one by one (module ServiceManager).                                      *)
ControlTick ==
  /\ mother = "ready"
  /\ \E removed \in SUBSET Requests :
       queue' = [r \in Requests |-> IF r \in removed THEN "absent" ELSE queue[r]]
  /\ mother' = IF \E r \in Requests : queue[r] = "whole" THEN "draining" ELSE "ready"
  /\ UNCHANGED <<workers, orphans, handle, svpc, attempts, mainpc>>

-----------------------------------------------------------------------------
(* supervise.                                                               *)

(* invalidate_remote, before anything else.                                 *)
EndpointOnExitKept == endpoint
EndpointOnExit == "none"

NoticeExit ==
  /\ svpc = "watch"
  /\ mother = "exited"
  /\ endpoint' = EndpointOnExit
  /\ svpc' = "decide"
  /\ UNCHANGED <<processes, closing, attempts, mainpc, queue>>

(* decide_mother_recovery answers with a backoff floor only: a Stop from    *)
(* CONTROL ER is logged and ignored, an absent ER is the local policy.      *)
AfterDirective(directive) == "backoff"

Decide ==
  /\ svpc = "decide"
  /\ \E directive \in {"restart", "stop", "default", "unavailable"} :
       svpc' = AfterDirective(directive)
  /\ \E stable \in BOOLEAN :
       attempts' = SaturatingIncrement(IF stable THEN 0 ELSE attempts)
  /\ UNCHANGED <<processes, handle, mainpc, queue>>

(* The backoff is the only point at which the inner loop sees a shutdown.   *)
BackoffShutdown ==
  /\ svpc = "backoff"
  /\ mainpc # "run"
  /\ svpc' = "ended"
  /\ UNCHANGED <<processes, handle, attempts, mainpc, queue>>

BackoffOver ==
  /\ svpc = "backoff"
  /\ svpc' = "spawning"
  /\ mother' = "starting"
  /\ orphans' = (orphans \/ workers)
  /\ workers' = FALSE
  /\ endpoint' = IF endpoint = "current" THEN "older" ELSE endpoint
  /\ UNCHANGED <<closing, attempts, mainpc, queue>>

(* start_prepared runs before readiness is printed, so a Mother that never  *)
(* becomes ready may already have workers.                                  *)
StartWorkers ==
  /\ mother = "starting"
  /\ ~workers
  /\ workers' = TRUE
  /\ UNCHANGED <<mother, orphans, handle, svpc, attempts, mainpc, queue>>

SpawnReady ==
  /\ svpc = "spawning"
  /\ mother = "starting"
  /\ workers
  /\ mother' = "ready"
  /\ endpoint' = "current"
  /\ svpc' = "watch"
  /\ UNCHANGED <<workers, orphans, closing, attempts, mainpc, queue>>

(* Exit before readiness, a timeout or a bad readiness record: the child is *)
(* killed and reaped, and the inner loop counts another attempt.            *)
SpawnFails ==
  /\ svpc = "spawning"
  /\ mother' = "exited"
  /\ svpc' = "backoff"
  /\ attempts' = SaturatingIncrement(attempts)
  /\ UNCHANGED <<workers, orphans, handle, mainpc, queue>>

-----------------------------------------------------------------------------
(* ServiceMotherProcess::shutdown, run by the supervise task.               *)

TakeShutdown ==
  /\ svpc = "watch"
  /\ mainpc # "run"
  /\ closing' = TRUE
  /\ svpc' = "stopping"
  /\ UNCHANGED <<processes, endpoint, attempts, mainpc, queue>>

(* The shutdown rpc: acknowledged before Mother drains, or failed.          *)
StopRpc ==
  /\ svpc = "stopping"
  /\ svpc' = "waiting"
  /\ mother' = IF mother = "ready" THEN "draining" ELSE mother
  /\ UNCHANGED <<workers, orphans, handle, attempts, mainpc, queue>>

StopRpcFails ==
  /\ svpc = "stopping"
  /\ svpc' = "waiting"
  /\ UNCHANGED <<processes, handle, attempts, mainpc, queue>>

MotherReaped ==
  /\ svpc = "waiting"
  /\ mother = "exited"
  /\ svpc' = "ended"
  /\ UNCHANGED <<processes, handle, attempts, mainpc, queue>>

(* The budget of the rpc or of the wait is spent: kill and reap.            *)
StopKills ==
  /\ svpc \in {"stopping", "waiting"}
  /\ mother # "exited"
  /\ mother' = "exited"
  /\ svpc' = "ended"
  /\ UNCHANGED <<workers, orphans, handle, attempts, mainpc, queue>>

-----------------------------------------------------------------------------
(* ServiceMotherSupervisor::shutdown, run by the backend's main task.       *)

ShutdownSent ==
  /\ mainpc = "run"
  /\ mainpc' = "waiting"
  /\ UNCHANGED <<processes, handle, svpc, attempts, queue>>

ShutdownJoined ==
  /\ mainpc = "waiting"
  /\ svpc = "ended"
  /\ mainpc' = "done"
  /\ UNCHANGED <<processes, handle, svpc, attempts, queue>>

(* The task is aborted wherever it is; dropping the Child kills it          *)
(* (kill_on_drop).                                                          *)
KilledOnDropNot == mother
KilledOnDrop == "exited"

ShutdownAborts ==
  /\ mainpc = "waiting"
  /\ svpc # "ended"
  /\ mother' = KilledOnDrop
  /\ svpc' = "ended"
  /\ mainpc' = "done"
  /\ UNCHANGED <<workers, orphans, handle, attempts, queue>>

-----------------------------------------------------------------------------
ProcessStep == MotherDrained \/ WorkersExit \/ StartWorkers

SuperviseStep ==
  \/ NoticeExit \/ Decide \/ BackoffShutdown \/ BackoffOver \/ SpawnReady \/ SpawnFails
  \/ TakeShutdown \/ StopRpc \/ StopRpcFails \/ MotherReaped \/ StopKills

ShutdownStep == ShutdownSent \/ ShutdownJoined \/ ShutdownAborts

Next ==
  \/ MotherCrashes
  \/ ProcessStep
  \/ \E r \in Requests : Submit(r) \/ RequestExpires(r)
  \/ ControlTick
  \/ SuperviseStep
  \/ ShutdownStep

Spec == Init /\ [][Next]_vars

(* The supervise and main tasks never block for ever: every wait in them is *)
(* bounded by a timeout or by the child's exit.  Workers notice the closed  *)
(* pipe and a draining Mother ends.  The environment lets a replacement     *)
(* start now and then (SF).                                                 *)
Fairness ==
  /\ WF_vars(SuperviseStep)
  /\ WF_vars(ProcessStep)
  /\ WF_vars(WorkersExit)
  /\ WF_vars(ShutdownJoined \/ ShutdownAborts)
  /\ SF_vars(StartWorkers)
  /\ SF_vars(SpawnReady)

FairSpec == Spec /\ Fairness

-----------------------------------------------------------------------------
TypeOK ==
  /\ mother \in MotherStates
  /\ workers \in BOOLEAN
  /\ orphans \in BOOLEAN
  /\ endpoint \in Endpoints
  /\ closing \in BOOLEAN
  /\ svpc \in SupervisePcs
  /\ attempts \in 0..AttemptCap
  /\ mainpc \in MainPcs
  /\ queue \in [Requests -> FileStates]

(* The shared endpoint never addresses a Mother that has been replaced, and *)
(* it addresses none from the moment an exit is noticed until a replacement *)
(* is ready: callers get "unavailable", not a connection to a dead port.    *)
EndpointIsCurrent ==
  /\ endpoint # "older"
  /\ svpc \in {"decide", "backoff", "spawning"} => endpoint = "none"

(* Once ServiceMotherSupervisor::shutdown has returned no Mother is alive,  *)
(* also when the task was aborted in the middle of a spawn or of a stop.    *)
NoMotherAfterShutdown == mainpc = "done" => mother = "exited"

(* The strengthening: between an exit and the next spawn no process is      *)
(* alive, the task ends only after its Mother, and main after the task.     *)
LinksInv ==
  /\ EndpointIsCurrent
  /\ svpc \in {"decide", "backoff", "ended"} => mother = "exited"
  /\ mainpc = "done" => svpc = "ended"

IInv == TypeOK /\ LinksInv

(* A Mother that stopped serving (crash, whole restart, even a clean exit)  *)
(* is replaced whatever CONTROL ER says, unless the backend shuts down.     *)
MotherRecovers ==
  mother = "exited" ~> (mainpc # "run" \/ (mother = "ready" /\ endpoint = "current"))

(* No service worker survives the backend's shutdown, graceful or aborted.  *)
NoWorkerSurvives == mainpc # "run" ~> (mainpc = "done" /\ ~workers /\ ~orphans)
=============================================================================
