------------------------ MODULE EnvironmentExecution ------------------------
(***************************************************************************)
(* What a worker's runner does with a task: the Environment supervisor of  *)
(* the controller, the Environment child process it talks to, cancellation *)
(* across that boundary and the crash circuit of an artifact.              *)
(* src/container-runtime/crates/container-bin/src/environment_process.rs   *)
(*                                                                         *)
(* One Environment and one artifact: the tables are keyed by Environment   *)
(* and by artifact, and the executions of one share nothing with those of  *)
(* another.  A mark that outlives its execution until PENDING_CANCEL_TTL   *)
(* is never read again (ids are not reused), so its expiry is left out.    *)
(***************************************************************************)
EXTENDS Naturals, FiniteSets

CONSTANTS Exec,            \* executions handed to the runner
          CrashThreshold,  \* WORKER_CRASH_THRESHOLD
          Cancelled,       \* the executions somebody cancels
          MaxFaults        \* bound on restarts and deaths of the Environment process

ASSUME EnvironmentAssumption ==
  IsFiniteSet(Exec) /\ Cancelled \subseteq Exec /\ CrashThreshold \in Nat \ {0} /\ MaxFaults \in Nat

VARIABLES
  tableGen,     \* generation in the supervisor's process table, 0 if none
  procGen,      \* generation of the process that runs, 0 if none
  nextGen, rpc, \* the restart in progress
  xpc, xgen,    \* execute: its step and the endpoint generation it cloned
  owner,        \* executions: generation that owns an execution, 0 if none
  supCancelled, \* the supervisor's cancelled table
  permit,       \* CircuitPermit of an execution
  wpc,          \* the child's handler of the Execute request
  reply,        \* what the child answered
  childCancelled, active, worker,  \* the child's tables and worker processes
  kpc, kgen,    \* cancel_execution: its step and the owner it read
  crashes, open, probe,            \* ArtifactCrashState
  faults

supVars == <<xpc, xgen, owner, permit>>
childVars == <<wpc, reply, childCancelled, active, worker>>
cancelVars == <<kpc, kgen>>
circuitVars == <<crashes, open, probe>>
procVars == <<tableGen, procGen, nextGen, rpc>>
vars == <<supVars, supCancelled, childVars, cancelVars, circuitVars,
          procVars, faults>>

\* Earlier executions of the artifact may have opened its circuit.
Init ==
  /\ tableGen = 1 /\ procGen = 1 /\ nextGen = 2 /\ rpc = "idle"
  /\ xpc = [e \in Exec |-> "idle"] /\ xgen = [e \in Exec |-> 0]
  /\ owner = [e \in Exec |-> 0] /\ supCancelled = {}
  /\ permit = [e \in Exec |-> "none"]
  /\ wpc = [e \in Exec |-> "none"] /\ reply = [e \in Exec |-> "none"]
  /\ childCancelled = {} /\ active = {} /\ worker = {}
  /\ kpc = [e \in Exec |-> "idle"] /\ kgen = [e \in Exec |-> 0]
  /\ \/ crashes = 0 /\ open = "closed"
     \/ crashes = CrashThreshold /\ open = "open"
  /\ probe = FALSE
  /\ faults = 0

Fault == faults < MaxFaults /\ faults' = faults + 1

\* The process an execution was resolved to still runs.
Reachable(e) == procGen = xgen[e]
-----------------------------------------------------------------------------
(* ArtifactCrashCircuit; open_until is "closed", "open" or "cooled" (passed). *)

\* A circuit that lets everyone probe once the cooldown is over.
RefusesDuringCooldown == open = "open"

\* acquire: refused until open_until, and while another execution probes.
CircuitRefuses == open = "open" \/ (open = "cooled" /\ probe)

Permit == IF open = "cooled" THEN "probe" ELSE "normal"

\* record_crash: a failed probe reopens at once; otherwise a crash outside the
\* window starts the count again.
RecordCrash(e) ==
  IF permit[e] = "probe"
    THEN crashes' = CrashThreshold /\ open' = "open" /\ probe' = FALSE
    ELSE \E counted \in {crashes + 1, 1} :
           /\ crashes' = IF counted > CrashThreshold THEN CrashThreshold ELSE counted
           /\ IF counted >= CrashThreshold
                THEN open' = "open" /\ probe' = FALSE
                ELSE UNCHANGED <<open, probe>>

RecordNonCrash == crashes' = 0 /\ open' = "closed" /\ probe' = FALSE

\* abort: an answer that says nothing about the artifact ends a probe.
Abort(e) ==
  IF permit[e] = "probe" /\ open # "closed"
    THEN open' = "open" /\ probe' = FALSE /\ UNCHANGED crashes
    ELSE UNCHANGED circuitVars

InFlight(e) == xpc[e] \in {"permitted", "waiting", "answered", "released"}

\* The cooldown passes.  It is twice the wall time of an execution, so whatever
\* was running when the circuit opened has returned.
Cooldown ==
  /\ open = "open" /\ \A e \in Exec : ~InFlight(e)
  /\ open' = "cooled"
  /\ UNCHANGED <<supVars, supCancelled, childVars, cancelVars, crashes, probe,
                 procVars, faults>>
-----------------------------------------------------------------------------
(* EnvironmentProcessSupervisor::execute. *)

Execute(e, from, to) == xpc[e] = from /\ xpc' = [xpc EXCEPT ![e] = to]

\* A live process and a provenance it accepts, or an error.
Resolve(e) ==
  /\ \/ /\ tableGen # 0 /\ procGen = tableGen
        /\ Execute(e, "idle", "resolved") /\ xgen' = [xgen EXCEPT ![e] = tableGen]
     \/ Execute(e, "idle", "returned") /\ UNCHANGED xgen
  /\ UNCHANGED <<owner, permit, supCancelled, childVars, cancelVars,
                 circuitVars, procVars, faults>>

\* Connect, then register ownership.
Own(e) ==
  /\ IF Reachable(e)
       THEN Execute(e, "resolved", "owned") /\ owner' = [owner EXCEPT ![e] = xgen[e]]
       ELSE Execute(e, "resolved", "returned") /\ UNCHANGED owner
  /\ UNCHANGED <<xgen, permit, supCancelled, childVars, cancelVars,
                 circuitVars, procVars, faults>>

\* A dispatch that does not look at the pending cancellations.
NotPending(e) == FALSE

\* take_cancelled after ownership is registered.
Pending(e) == e \in supCancelled

Release(e) == owner' = [owner EXCEPT ![e] = 0]

\* A pending cancellation or an open circuit ends the call before dispatch.  A
\* mark set between the two looks finds the owner like one set after them.
Acquire(e) ==
  /\ \/ /\ Pending(e)
        /\ Execute(e, "owned", "returned") /\ Release(e)
        /\ supCancelled' = supCancelled \ {e}
        /\ UNCHANGED <<permit, circuitVars>>
     \/ /\ ~Pending(e) /\ CircuitRefuses
        /\ Execute(e, "owned", "returned") /\ Release(e)
        /\ UNCHANGED <<permit, supCancelled, circuitVars>>
     \/ /\ ~Pending(e) /\ ~CircuitRefuses
        /\ Execute(e, "owned", "permitted")
        /\ permit' = [permit EXCEPT ![e] = Permit]
        /\ probe' = (open = "cooled")
        /\ UNCHANGED <<owner, supCancelled, crashes, open>>
  /\ UNCHANGED <<xgen, childVars, cancelVars, procVars, faults>>

SendExecute(e) ==
  /\ IF Reachable(e)
       THEN Execute(e, "permitted", "waiting") /\ wpc' = [wpc EXCEPT ![e] = "received"]
            /\ UNCHANGED reply
       ELSE Execute(e, "permitted", "answered") /\ UNCHANGED wpc
            /\ reply' = [reply EXCEPT ![e] = "infrastructure"]
  /\ UNCHANGED <<xgen, owner, permit, supCancelled, childCancelled, active,
                 worker, cancelVars, circuitVars, procVars, faults>>

\* A read that waits for an answer without a timeout.
Answered(e) == reply[e] # "none"

\* set_read_timeout: a read ends with the answer, a closed connection or in time.
ReadEnds(e) == TRUE

ReadReply(e) ==
  /\ ReadEnds(e)
  /\ Execute(e, "waiting", "answered")
  /\ reply' = [reply EXCEPT ![e] = IF @ = "none" THEN "infrastructure" ELSE @]
  /\ UNCHANGED <<xgen, owner, permit, supCancelled, wpc, childCancelled, active,
                 worker, cancelVars, circuitVars, procVars, faults>>

ReleaseOwner(e) ==
  /\ Execute(e, "answered", "released") /\ Release(e)
  /\ UNCHANGED <<xgen, permit, supCancelled, childVars, cancelVars,
                 circuitVars, procVars, faults>>

Responded == {"finished", "failed", "cancelled", "timeout"}

Settle(e) ==
  /\ Execute(e, "released", "returned")
  /\ supCancelled' = supCancelled \ {e}
  /\ IF reply[e] = "crash" THEN RecordCrash(e)
     ELSE IF reply[e] \in Responded THEN RecordNonCrash
     ELSE Abort(e)
  /\ UNCHANGED <<xgen, owner, permit, childVars, cancelVars, procVars, faults>>
-----------------------------------------------------------------------------
(* The child: handle_child_connection and execute_isolated_worker. *)

Child(e, from, to) == wpc[e] = from /\ wpc' = [wpc EXCEPT ![e] = to]

\* The child's answer; nobody reads it once the supervisor has given up.
Answer(e, kind) ==
  reply' = [reply EXCEPT ![e] = IF xpc[e] = "waiting" THEN kind ELSE @]

ChildReceive(e) ==
  /\ IF e \in childCancelled
       THEN /\ Child(e, "received", "done") /\ Answer(e, "cancelled")
            /\ childCancelled' = childCancelled \ {e}
       ELSE Child(e, "received", "starting") /\ UNCHANGED <<reply, childCancelled>>
  /\ UNCHANGED <<supVars, supCancelled, active, worker, cancelVars,
                 circuitVars, procVars, faults>>

\* The worker process starts and the execution becomes active, or neither.
ChildSpawn(e) ==
  /\ \/ /\ Child(e, "starting", "spawned") /\ UNCHANGED reply
        /\ worker' = worker \cup {e} /\ active' = active \cup {e}
     \/ /\ Child(e, "starting", "done") /\ Answer(e, "infrastructure")
        /\ UNCHANGED <<worker, active>>
  /\ UNCHANGED <<supVars, supCancelled, childCancelled, cancelVars,
                 circuitVars, procVars, faults>>

\* take_cancelled once more, now that a cancel call would find it active.
SecondLook(e) == e \in childCancelled

ChildCheck(e) ==
  /\ Child(e, "spawned", IF SecondLook(e) THEN "stopped" ELSE "poll")
  /\ childCancelled' = IF SecondLook(e) THEN childCancelled \ {e} ELSE childCancelled
  /\ UNCHANGED <<supVars, supCancelled, reply, active, worker, cancelVars,
                 circuitVars, procVars, faults>>

\* One turn of the polling loop: the cancellation mark first ...
ChildPoll(e) ==
  /\ Child(e, "poll", IF e \in childCancelled THEN "stopped" ELSE "receive")
  /\ UNCHANGED <<supVars, supCancelled, reply, childCancelled, active, worker,
                 cancelVars, circuitVars, procVars, faults>>

\* ... then a frame of the worker, its end, the wall time, or nothing yet.
ChildFrame(e) ==
  /\ Child(e, "receive", "poll")
  /\ UNCHANGED <<supVars, supCancelled, reply, childCancelled, active, worker,
                 cancelVars, circuitVars, procVars, faults>>

\* A cleanup that leaves the worker process to itself.
Abandoned(e) == worker

\* WorkerChildGuard kills and reaps the worker on every way out.
Reaped(e) == worker \ {e}

\* The two tables are cleared and the guard reaps the worker.
ChildCleanup(e) ==
  /\ \/ Child(e, "stopped", "done") /\ Answer(e, "cancelled")
     \/ /\ Child(e, "receive", "done")
        /\ \E kind \in {"finished", "failed", "timeout", "crash", "infrastructure"} :
             Answer(e, kind)
  /\ active' = active \ {e} /\ childCancelled' = childCancelled \ {e}
  /\ worker' = Reaped(e)
  /\ UNCHANGED <<supVars, supCancelled, cancelVars, circuitVars, procVars, faults>>
-----------------------------------------------------------------------------
(* The Environment process. *)

\* The process is gone: its connections close and its tables with it.  Nothing
\* drops the guard of a running worker then; it lives on, outside this model,
\* until its fuel is spent.
Gone ==
  /\ procGen' = 0
  /\ wpc' = [e \in Exec |-> IF wpc[e] = "none" THEN "none" ELSE "done"]
  /\ childCancelled' = {} /\ active' = {}
  /\ worker' = {}

ChildDies ==
  /\ procGen # 0 /\ Fault /\ Gone
  /\ UNCHANGED <<supVars, supCancelled, reply, cancelVars, circuitVars, tableGen,
                 nextGen, rpc>>

RestartRemove ==
  /\ rpc = "idle" /\ Fault
  /\ rpc' = "kill" /\ tableGen' = 0
  /\ UNCHANGED <<supVars, supCancelled, childVars, cancelVars, circuitVars,
                 procGen, nextGen>>

RestartKill ==
  /\ rpc = "kill" /\ rpc' = "spawn" /\ Gone
  /\ UNCHANGED <<supVars, supCancelled, reply, cancelVars, circuitVars, tableGen,
                 nextGen, faults>>

RestartSpawn ==
  /\ rpc = "spawn" /\ rpc' = "idle" /\ nextGen' = nextGen + 1
  /\ \/ tableGen' = nextGen /\ procGen' = nextGen
     \/ UNCHANGED <<tableGen, procGen>>
  /\ UNCHANGED <<supVars, supCancelled, childVars, cancelVars, circuitVars,
                 faults>>
-----------------------------------------------------------------------------
(* cancel_execution. *)

Cancel(e, from, to) == kpc[e] = from /\ kpc' = [kpc EXCEPT ![e] = to]

CancelMark(e) ==
  /\ e \in Cancelled /\ Cancel(e, "idle", "marked")
  /\ supCancelled' = supCancelled \cup {e}
  /\ UNCHANGED <<supVars, childVars, kgen, circuitVars, procVars, faults>>

\* No owner: the mark is left for execute, unless execute is past it.
CancelLookup(e) ==
  /\ IF owner[e] = 0
       THEN /\ Cancel(e, "marked", IF permit[e] = "none" THEN "pending" ELSE "late")
            /\ UNCHANGED kgen
       ELSE Cancel(e, "marked", "route") /\ kgen' = [kgen EXCEPT ![e] = owner[e]]
  /\ UNCHANGED <<supVars, supCancelled, childVars, circuitVars, procVars, faults>>

CancelRoute(e) ==
  /\ Cancel(e, "route", IF tableGen = kgen[e] THEN "send" ELSE "refused")
  /\ UNCHANGED <<supVars, supCancelled, childVars, kgen, circuitVars, procVars, faults>>

\* What a worker has produced by then is beyond the cancellation.
BeforeResult(e) == wpc[e] \in {"none", "received", "starting", "spawned", "poll"}

CancelSend(e) ==
  /\ IF procGen = kgen[e]
       THEN /\ Cancel(e, "send", IF BeforeResult(e) THEN "accepted" ELSE "late")
            /\ childCancelled' = childCancelled \cup {e}
       ELSE Cancel(e, "send", "refused") /\ UNCHANGED childCancelled
  /\ UNCHANGED <<supVars, supCancelled, wpc, reply, active, worker, kgen,
                 circuitVars, procVars, faults>>
-----------------------------------------------------------------------------
ExecuteStep(e) ==
  Resolve(e) \/ Own(e) \/ Acquire(e) \/ SendExecute(e) \/ ReadReply(e)
  \/ ReleaseOwner(e) \/ Settle(e)

ChildStep(e) ==
  ChildReceive(e) \/ ChildSpawn(e) \/ ChildCheck(e) \/ ChildPoll(e) \/ ChildCleanup(e)

CancelStep(e) == CancelLookup(e) \/ CancelRoute(e) \/ CancelSend(e)

RestartStep == RestartKill \/ RestartSpawn

Next ==
  \/ \E e \in Exec : ExecuteStep(e) \/ ChildStep(e) \/ ChildFrame(e)
                     \/ CancelMark(e) \/ CancelStep(e)
  \/ Cooldown \/ ChildDies \/ RestartRemove \/ RestartStep

\* Threads are scheduled and every read of the controller has a timeout; the wall
\* time ends the polling loop, hence strong fairness of its way out.
Fairness ==
  /\ \A e \in Exec : WF_vars(ExecuteStep(e)) /\ WF_vars(ChildStep(e))
                     /\ SF_vars(ChildCleanup(e)) /\ WF_vars(CancelStep(e))
  /\ WF_vars(RestartStep)

Spec == Init /\ [][Next]_vars /\ Fairness
-----------------------------------------------------------------------------
Replies == {"none", "finished", "failed", "cancelled", "timeout", "crash",
            "infrastructure"}

TypeOK ==
  /\ tableGen \in 0 .. nextGen /\ procGen \in 0 .. nextGen /\ nextGen \in Nat
  /\ rpc \in {"idle", "kill", "spawn"}
  /\ xpc \in [Exec -> {"idle", "resolved", "owned", "permitted",
                       "waiting", "answered", "released", "returned"}]
  /\ xgen \in [Exec -> Nat] /\ owner \in [Exec -> Nat] /\ kgen \in [Exec -> Nat]
  /\ permit \in [Exec -> {"none", "normal", "probe"}]
  /\ wpc \in [Exec -> {"none", "received", "starting", "spawned", "poll",
                       "receive", "stopped", "done"}]
  /\ reply \in [Exec -> Replies]
  /\ supCancelled \subseteq Exec /\ childCancelled \subseteq Exec
  /\ active \subseteq Exec /\ worker \subseteq Exec
  /\ kpc \in [Exec -> {"idle", "marked", "route", "send", "pending", "accepted",
                       "late", "refused"}]
  /\ crashes \in 0 .. CrashThreshold /\ open \in {"closed", "open", "cooled"}
  /\ probe \in BOOLEAN /\ faults \in 0 .. MaxFaults

(***************************************************************************)
(* A cancellation that returned true wins.  If nobody owned the execution  *)
(* yet it is never dispatched: execute registers ownership before it looks *)
(* at the marks and cancel_execution marks before it looks at the owners,  *)
(* so one of the two sees the other.  If the child accepted it before the  *)
(* worker had a result, nothing the worker still says is answered: the     *)
(* mark is looked at on arrival, again once the execution is active, and   *)
(* before every frame.                                                     *)
(***************************************************************************)
CancelWins ==
  \A e \in Exec :
    /\ kpc[e] = "pending" => permit[e] = "none" /\ wpc[e] = "none"
    /\ kpc[e] = "accepted" => reply[e] \in {"none", "cancelled", "infrastructure"}

(***************************************************************************)
(* The half-open circuit of an artifact has exactly one probe: the flag is *)
(* set as long as one execution probes, so crashing code is not let loose  *)
(* on every worker when the cooldown ends, and it never stays set after    *)
(* the probe has gone, which would quarantine the artifact for ever.       *)
(***************************************************************************)
ProbeAccounted ==
  Cardinality({e \in Exec : InFlight(e) /\ permit[e] = "probe"}) =
    IF probe THEN 1 ELSE 0

(***************************************************************************)
(* The tables keep their types, and the child's tables and its worker      *)
(* processes belong to executions it is still handling: after an answer,   *)
(* whatever it was and whoever cancelled, the worker is reaped and no      *)
(* entry is left (WorkerChildGuard).                                       *)
(***************************************************************************)
WorkersOwned ==
  /\ TypeOK
  /\ \A e \in worker \cup active :
       procGen # 0 /\ wpc[e] \in {"spawned", "poll", "receive", "stopped"}

(***************************************************************************)
(* Every execution dispatched by the runner returns to its worker thread,  *)
(* whatever dies, restarts or is cancelled meanwhile.                      *)
(***************************************************************************)
RunnerReturns == \A e \in Exec : xpc[e] = "resolved" ~> xpc[e] = "returned"
=============================================================================
